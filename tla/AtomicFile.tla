----------------------------- MODULE AtomicFile -----------------------------
(***************************************************************************)
(* What package safefile promises (safefile.go, package comment) to the    *)
(* callers of WritePrivate and WritePublic, for calls that race on one     *)
(* path: a call replaces the whole file in one step, with its own data and *)
(* mode, or changes nothing.  Nothing in between is ever observable, not   *)
(* even by a reader that starts after a power failure.                     *)
(*                                                                         *)
(* The promise says nothing about durability: write syncs the file but not *)
(* the directory, so after a power failure the name may still have the     *)
(* value it had when the directory was last written to disk.               *)
(***************************************************************************)
CONSTANTS Writers,      \* the calls, each with data of its own
          Content,      \* Content[w]: the file (data and mode) call w asks for
          Initials,     \* what the name may hold before the first call
          Absent, Dir   \* the name is free; the name is a directory

VARIABLES file,      \* what the name holds
          durable,   \* what the name holds on disk
          outcome    \* outcome[w]: pending, ok, err, or dead

vars == <<file, durable, outcome>>

Init == /\ file \in Initials
        /\ durable = file
        /\ outcome = [w \in Writers |-> "pending"]

\* The call succeeds: the name holds the new file, all of it.
Replace(w) == /\ outcome[w] = "pending"
              /\ file # Dir
              /\ file' = Content[w]
              /\ outcome' = [outcome EXCEPT ![w] = "ok"]
              /\ UNCHANGED durable

\* The call returns an error: the name is as it was.
Refuse(w) == /\ outcome[w] = "pending"
             /\ outcome' = [outcome EXCEPT ![w] = "err"]
             /\ UNCHANGED <<file, durable>>

\* The calling process is killed before the file was replaced.
Die(w) == /\ outcome[w] = "pending"
          /\ outcome' = [outcome EXCEPT ![w] = "dead"]
          /\ UNCHANGED <<file, durable>>

\* Another program makes a directory of the name.
MakeDir == file = Absent /\ file' = Dir /\ UNCHANGED <<durable, outcome>>

Flush == durable' = file /\ UNCHANGED <<file, outcome>>

\* Every process is gone after a power failure.
PowerLoss == /\ file' = durable
             /\ outcome' = [w \in Writers |-> "dead"]
             /\ UNCHANGED durable

Next == \/ \E w \in Writers : Replace(w) \/ Refuse(w) \/ Die(w)
        \/ MakeDir \/ Flush \/ PowerLoss

Spec == Init /\ [][Next]_vars
=============================================================================
