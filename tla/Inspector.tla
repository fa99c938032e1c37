------------------------------ MODULE Inspector ------------------------------
(***************************************************************************)
(* Inspector (net/inspect/Inspector.cc): the commands that other threads   *)
(* add and remove while the HTTP server serves them.  add, remove and the  *)
(* lookup of onRequest are critical sections of mutex_, so each is a step. *)
(* A path is the sequence of its parts and of the slashes between them.    *)
(***************************************************************************)
EXTENDS Naturals, Sequences

CONSTANTS
  Modules,               \* names of modules
  Commands,              \* names of commands
  Registered             \* the commands the constructor registers: pairs of names

VARIABLES
  modules_, helps_       \* both a function from the modules in it to sets of commands

inspectorVars == <<modules_, helps_>>

CommandTable == UNION {[M -> SUBSET Commands] : M \in SUBSET Modules}

InspectorInit ==
  /\ modules_ = [m \in {p[1] : p \in Registered} |-> {c \in Commands : <<m, c>> \in Registered}]
  /\ helps_ = modules_

(* The list that operator[] of a map finds or makes. *)
ListOf(table, m) == IF m \in DOMAIN table THEN table[m] ELSE {}

WithList(table, m, list) ==
  [n \in DOMAIN table \cup {m} |-> IF n = m THEN list ELSE table[n]]

AddCommand(m, c) ==
  /\ modules_' = WithList(modules_, m, ListOf(modules_, m) \cup {c})
  /\ helps_' = WithList(helps_, m, ListOf(helps_, m) \cup {c})

RemoveCommand(m, c) ==
  /\ m \in DOMAIN modules_
  /\ modules_' = WithList(modules_, m, modules_[m] \ {c})
  /\ helps_' = WithList(helps_, m, ListOf(helps_, m) \ {c})

(* The parts between the slashes; empty parts are left out. *)
Split(path) == SelectSeq(path, LAMBDA part : part # "/")

ListedCommands == {<<m, c>> \in Modules \X Commands : c \in ListOf(helps_, m)}

CommandFound(parts) ==
  \/ parts = <<"favicon.ico">>
  \/ Len(parts) >= 2 /\ parts[2] \in ListOf(modules_, parts[1])

(* The response: the index page, the output of a command, or 404. *)
OnInspectorRequest(path, resp) ==
  IF path = <<"/">>
  THEN [resp EXCEPT !.statusCode_ = 200, !.body_ = ListedCommands]
  ELSE IF CommandFound(Split(path))
       THEN [resp EXCEPT !.statusCode_ = 200, !.body_ = Split(path)]
       ELSE [resp EXCEPT !.statusCode_ = 404]

(* The index page lists exactly the commands that are answered: what remove     *)
(* takes from modules_ it takes from helps_, also when add comes again.         *)
ListedIffServed ==
  \A m \in Modules, c \in Commands :
    <<m, c>> \in ListedCommands <=> CommandFound(Split(<<"/", m, "/", c>>))
=============================================================================
