------------------------------ MODULE Handlers ------------------------------
(***************************************************************************)
(* The requests that the processes of a service have in flight: each is at *)
(* some stage of its handler, between two awaits, with the values it has   *)
(* read so far.  The modules that extend this one say what the stages do.  *)
(***************************************************************************)
CONSTANT Handler    \* requests that may be in flight together

VARIABLES
    pc,     \* pc[h]: what handler h does next
    task    \* task[h]: the values it works with

Nothing == [kind |-> "nothing"]

HandlersInit ==
    /\ pc = [h \in Handler |-> "idle"]
    /\ task = [h \in Handler |-> Nothing]

Goto(h, stage) == pc' = [pc EXCEPT ![h] = stage]

\* A request arrives.
Start(h, stage, t) ==
    /\ pc[h] = "idle"
    /\ Goto(h, stage)
    /\ task' = [task EXCEPT ![h] = t]

\* The handler answers, with a response or an error.
Done(h) == Goto(h, "idle") /\ task' = [task EXCEPT ![h] = Nothing]

\* It answers, or its process stops, before it commits anything more.
Quit(h) == pc[h] # "idle" /\ Done(h)

=============================================================================
