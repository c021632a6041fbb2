------------------------------ MODULE MCSections ------------------------------
(***************************************************************************)
(* Two iterable sections, one of which has a name that goes on after the   *)
(* other's, and two tables that share the name of a level, the second of   *)
(* them its prefix with a third; priorities of one digit and of two.       *)
(***************************************************************************)
EXTENDS Sections

MCStatic == {"net_if", "net_if_dev"}
MCStartsWith == {<<"net_if", "net_if">>, <<"net_if_dev", "net_if_dev">>,
                 <<"net_if_dev", "net_if">>}
MCMandatory == << "net_if" >>
MCNative ==
  << [object |-> "native_tasks", prefix |-> "native", levels |-> << "PRE_BOOT_1", "ON_EXIT" >>],
     [object |-> "nsi_tasks",    prefix |-> "nsi",    levels |-> << "PRE_BOOT_1" >>],
     [object |-> "nsi_events",   prefix |-> "nsi",    levels |-> << "hw_event" >>] >>

InputSection(object, lev, prio, digits, key) ==
  [object |-> object, level |-> lev, prio |-> prio, digits |-> digits, key |-> key]

\* Of PRE_BOOT_1's priorities the strings are in the order "10", "5", "7".
MCName ==
  { InputSection("net_if",     "",           0,  0, 2),
    InputSection("net_if",     "",           0,  0, 1),
    InputSection("net_if_dev", "",           0,  0, 1),
    InputSection("native",     "ON_EXIT",    0,  1, 1),
    InputSection("native",     "PRE_BOOT_1", 10, 2, 1),
    InputSection("native",     "PRE_BOOT_1", 5,  1, 2),
    InputSection("native",     "PRE_BOOT_1", 7,  1, 3),
    InputSection("nsi",        "hw_event",   0,  1, 1) }
MCType == {1, 2}

\* A program refers to all symbols of a table, or to none.
MCReferred == {{}, MCStatic \cup {"native_tasks", "nsi_tasks", "nsi_events"}}
=============================================================================
