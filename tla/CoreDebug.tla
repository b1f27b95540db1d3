------------------------------ MODULE CoreDebug ------------------------------
(***************************************************************************)
(* core_debug.c: which debug messages are printed.  The level and up to    *)
(* GroupSetSize groups are set by the program, or read from the            *)
(* environment while they are not.                                         *)
(*                                                                         *)
(* A setting of groups "a|b" is the sequence <<a, b>> of their names, the  *)
(* empty one no setting.  A name is a sequence of characters.              *)
(***************************************************************************)
EXTENDS Integers, SequencesExt

CONSTANTS GroupSize,     \* DEBUG_GROUP_SIZE: the characters kept of a name
          GroupSetSize,  \* DEBUG_GROUP_SET_SIZE
          All            \* the name "__ALL__"

ASSUME DebugAssumption == GroupSize \in Nat /\ GroupSetSize \in Nat

DEBUG_UNDEFINED == -1

VARIABLES
  DEBUG_LEVEL, DEBUG_GROUP,  \* the environment
  core_debug_level_env,      \* the level in force
  core_debug_group_env       \* the names in force

debug_vars == <<DEBUG_LEVEL, DEBUG_GROUP, core_debug_level_env, core_debug_group_env>>

Kept(name) == SubSeq(name, 1, Min({GroupSize, Len(name)}))

\* The names kept of a setting.
FirstGroups(setting) ==
  [k \in 1..Min({GroupSetSize, Len(setting)}) |-> Kept(setting[k])]

DebugInit ==
  /\ core_debug_level_env = DEBUG_UNDEFINED
  /\ core_debug_group_env = <<>>

get_core_debug_level_env ==
  IF core_debug_level_env = DEBUG_UNDEFINED THEN DEBUG_LEVEL ELSE core_debug_level_env

set_core_debug_level_env(level) ==
  /\ core_debug_level_env' = level
  /\ UNCHANGED <<DEBUG_LEVEL, DEBUG_GROUP, core_debug_group_env>>

\* strtok cuts the text that it is given.
set_core_debug_group_env(setting) ==
  /\ core_debug_group_env' = FirstGroups(setting)
  /\ UNCHANGED <<DEBUG_LEVEL, DEBUG_GROUP, core_debug_level_env>>

\* The groups that the next message is compared with, and whether it passes.
Groups == IF core_debug_group_env = <<>> THEN FirstGroups(DEBUG_GROUP)
          ELSE core_debug_group_env
is_core_debug_group(group) ==
  Groups = <<>> \/ \E k \in DOMAIN Groups : Groups[k] = Kept(group)
InGroup(group) == is_core_debug_group(All) \/ is_core_debug_group(group)

\* Mutant: what is read from the environment is not kept.
DebugUnkept(level) ==
  /\ core_debug_level_env' = get_core_debug_level_env
  /\ DEBUG_GROUP' = IF /\ get_core_debug_level_env >= level
                       /\ core_debug_group_env = <<>> /\ DEBUG_GROUP # <<>>
                    THEN <<DEBUG_GROUP[1]>> ELSE DEBUG_GROUP
  /\ UNCHANGED <<DEBUG_LEVEL, core_debug_group_env>>

\* A message: the level is read, and if it is high enough the groups are.  To read
\* them from the environment cuts it to its first name.
Debug(level) ==
  /\ core_debug_level_env' = get_core_debug_level_env
  /\ IF get_core_debug_level_env >= level
     THEN /\ core_debug_group_env' = Groups
          /\ DEBUG_GROUP' = IF core_debug_group_env = <<>> /\ DEBUG_GROUP # <<>>
                            THEN <<DEBUG_GROUP[1]>> ELSE DEBUG_GROUP
     ELSE UNCHANGED <<core_debug_group_env, DEBUG_GROUP>>
  /\ UNCHANGED DEBUG_LEVEL
=============================================================================
