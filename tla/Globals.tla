------------------------------- MODULE Globals -------------------------------
(***************************************************************************)
(* The global variables of global_vars.c, and the session that uses them:  *)
(* main.c gives interpret one source after the other, or one file, and the *)
(* array vm.globals lasts from one to the next, whatever they end with.    *)
(* A definition appends an entry; the name is searched from the end.       *)
(***************************************************************************)
EXTENDS Integers, Sequences

CONSTANTS
  Name,      \* interned strings, so that equal names are the same address
  Value,
  Unit,      \* no value, or no name
  Capacity,  \* UINT16_MAX
  Natives    \* the entries that init_vm makes, by define_native

Entry == [name : Name, value : Value, constant : BOOLEAN]

ASSUME NativesAssumption ==
  /\ Capacity \in Nat /\ Natives \in Seq(Entry) /\ Len(Natives) <= Capacity
  /\ \A i, j \in 1..Len(Natives) : Natives[i].name = Natives[j].name => i = j

VARIABLES
  globals,      \* vm.globals.values, up to its length
  interactive,  \* is it repl() or run_file()?
  session,      \* "prompt", "running" or "ended"
  status,       \* the exit code of the process when it has ended
  answer        \* the last instruction on a global, and the value or error it gave

globalsVars == <<globals, interactive, session, status, answer>>

GlobalsInit ==
  /\ globals = Natives
  /\ interactive \in BOOLEAN
  /\ session = "prompt" /\ status = 0
  /\ answer = [kind |-> "none", name |-> Unit, value |-> Unit]

-----------------------------------------------------------------------------
(***************************************************************************)
(* global_vars.c.                                                          *)
(***************************************************************************)

\* A slip of global_set for the mutants: the limit is not looked at.
GlobalSetAlways(name, value, constant) ==
  globals' = Append(globals, [name |-> name, value |-> value, constant |-> constant])

\* global_set: nothing happens when the array is full; its callers do not look.
GlobalSet(name, value, constant) ==
  globals' = IF Len(globals) = Capacity THEN globals
             ELSE Append(globals, [name |-> name, value |-> value, constant |-> constant])

IsLast(arr, name, i) ==
  /\ i \in 1..Len(arr) /\ arr[i].name = name
  /\ \A j \in 1..Len(arr) : j > i => arr[j].name # name

\* A slip of global_find: it searches from the front.
GlobalFindFirst(arr, name) ==
  CHOOSE i \in 1..Len(arr) :
    arr[i].name = name /\ \A j \in 1..(i - 1) : arr[j].name # name

\* global_find: the index of the entry it finds, if any.
GlobalFind(arr, name) == CHOOSE i \in 1..Len(arr) : IsLast(arr, name, i)
Found(arr, name) == \E i \in 1..Len(arr) : arr[i].name = name

\* global_set_at
GlobalSetAt(value, i) == globals' = [globals EXCEPT ![i].value = value]

-----------------------------------------------------------------------------
(***************************************************************************)
(* The instructions, and what main does around them.                       *)
(***************************************************************************)

Gives(kind, name, value) == answer' = [kind |-> kind, name |-> name, value |-> value]

\* interpret has returned: the next line of the REPL, or the end of run_file.
Returns(code) ==
  /\ session' = IF interactive THEN "prompt" ELSE "ended"
  /\ status' = IF interactive THEN 0 ELSE code
  /\ UNCHANGED interactive

Goes == UNCHANGED <<interactive, session, status>>

DefineGlobal(name, value, constant) ==
  /\ session = "running"
  /\ GlobalSet(name, value, constant)
  /\ Gives(IF constant THEN "val" ELSE "var", name, value) /\ Goes

GetGlobal(name) ==
  /\ session = "running"
  /\ \/ Found(globals, name) /\ Gives("value", name, globals[GlobalFind(globals, name)].value) /\ Goes
     \/ ~Found(globals, name) /\ Gives("undefined", name, Unit) /\ Returns(70)
  /\ UNCHANGED globals

\* A slip of OP_SET_GLOBAL: whether the variable is constant is not looked at.
SetGlobalAlways(name, value) ==
  /\ session = "running"
  /\ \/ ~Found(globals, name) /\ Gives("undefined", name, Unit) /\ Returns(70) /\ UNCHANGED globals
     \/ Found(globals, name) /\ GlobalSetAt(value, GlobalFind(globals, name)) /\ Gives("value", name, value) /\ Goes

SetGlobal(name, value) ==
  /\ session = "running"
  /\ \/ ~Found(globals, name) /\ Gives("undefined", name, Unit) /\ Returns(70) /\ UNCHANGED globals
     \/ /\ Found(globals, name) /\ globals[GlobalFind(globals, name)].constant
        /\ Gives("constant", name, Unit) /\ Returns(70) /\ UNCHANGED globals
     \/ /\ Found(globals, name) /\ ~globals[GlobalFind(globals, name)].constant
        /\ GlobalSetAt(value, GlobalFind(globals, name))
        /\ Gives("value", name, value) /\ Goes

\* interpret: the source is compiled, and run unless it has an error.
Interpret ==
  /\ session = "prompt"
  /\ \/ session' = "running" /\ UNCHANGED <<interactive, status>>
     \/ Returns(65)
  /\ UNCHANGED <<globals, answer>>

\* The script returns, or an instruction that has nothing to do with globals fails.
Stop ==
  /\ session = "running"
  /\ \E code \in {0, 70} : Returns(code)
  /\ UNCHANGED <<globals, answer>>

\* "exit" or the end of the input; the file cannot be read.
Leave ==
  /\ session = "prompt"
  /\ session' = "ended" /\ status' = IF interactive THEN 0 ELSE 74
  /\ UNCHANGED <<globals, interactive, answer>>

GlobalsNext ==
  \/ Interpret \/ Stop \/ Leave
  \/ \E n \in Name : \/ GetGlobal(n)
                     \/ \E v \in Value : \/ SetGlobal(n, v)
                                         \/ \E c \in BOOLEAN : DefineGlobal(n, v, c)

GlobalsSpec == GlobalsInit /\ [][GlobalsNext]_globalsVars

-----------------------------------------------------------------------------
(***************************************************************************)
(* Properties.                                                             *)
(***************************************************************************)

\* Every variable has its type: vm.globals never has more than Capacity entries, so
\* that an index fits in uint16_t, and only run_file ends with an error code.
TypeOK ==
  /\ globals \in Seq(Entry) /\ Len(globals) <= Capacity
  /\ interactive \in BOOLEAN /\ session \in {"prompt", "running", "ended"}
  /\ status \in {0, 65, 70, 74} /\ (status # 0 => ~interactive /\ session = "ended")
  /\ answer \in [kind : {"none", "val", "var", "value", "undefined", "constant"},
                  name : Name \union {Unit}, value : Value \union {Unit}]

Meaning(arr, name) ==
  [value |-> arr[GlobalFind(arr, name)].value, constant |-> arr[GlobalFind(arr, name)].constant]
Meanings(arr) == [n \in {m \in Name : Found(arr, m)} |-> Meaning(arr, n)]

Abstract ==
  INSTANCE Variables WITH
    known <- Meanings(globals),
    used <- Len(globals),
    Predefined <- << [n \in {Natives[i].name : i \in 1..Len(Natives)} |->
                       LET i == CHOOSE i \in 1..Len(Natives) : Natives[i].name = n
                       IN  [value |-> Natives[i].value, constant |-> Natives[i].constant]],
                     Len(Natives) >>

\* Through redefinitions, assignments, errors and the lines of a session, and with the
\* array full, each name means its last definition, and a constant is not assigned
\* (test/variable/redeclare_global.nz, compiler.c:558).
ImplementsVariables == Abstract!Spec

=============================================================================
