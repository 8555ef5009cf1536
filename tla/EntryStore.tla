----------------------------- MODULE EntryStore -----------------------------
(***************************************************************************)
(* What the artifact cache promises its clients, for one coordinate: a     *)
(* register that may lose what it holds and may fail to answer, but never  *)
(* answers wrongly.  A put takes effect at one moment before it returns;   *)
(* a lookup that answers with an entry answers the one the register held   *)
(* at one moment of that lookup.  Calls may overlap, and a put may stop    *)
(* half way: it then leaves the register as it was, or empty.              *)
(***************************************************************************)
CONSTANTS Procs,     \* the processes sharing the store
          Entries,   \* the entries they may store
          NoEntry    \* the register is empty

VARIABLES current,   \* the entry a lookup may find now
          call,      \* call[p]: what p has asked the store to do
          res        \* res[p]: the answer to p's last lookup

vars == <<current, call, res>>

Idle == [kind |-> "idle"]
Storing(e) == [kind |-> "store", entry |-> e]
Asking == [kind |-> "ask"]
Found(e) == [kind |-> "found", entry |-> e]

Hit(e) == [kind |-> "hit", entry |-> e]
NoAnswer == [kind |-> "none"]
Nothing == {[kind |-> "miss"], [kind |-> "error"]}

Init ==
    /\ current = NoEntry
    /\ call = [p \in Procs |-> Idle]
    /\ res = [p \in Procs |-> NoAnswer]

Become(p, c) == call' = [call EXCEPT ![p] = c]

Begin(p) ==
    /\ call[p] = Idle
    /\ \E e \in Entries : Become(p, Storing(e))
    /\ UNCHANGED <<current, res>>

\* The put returns and its entry is what a lookup finds.
Finish(p) ==
    /\ \E e \in Entries : call[p] = Storing(e) /\ current' = e
    /\ Become(p, Idle)
    /\ UNCHANGED res

\* The put stops, or another put spoils it.
GiveUp(p) ==
    /\ \E e \in Entries : call[p] = Storing(e)
    /\ Become(p, Idle)
    /\ current' \in {current, NoEntry}
    /\ UNCHANGED res

\* A put under way makes what was stored before unreadable.
Lose ==
    /\ \E p \in Procs, e \in Entries : call[p] = Storing(e)
    /\ current' = NoEntry
    /\ UNCHANGED <<call, res>>

Ask(p) ==
    /\ call[p] = Idle
    /\ Become(p, Asking)
    /\ res' = [res EXCEPT ![p] = NoAnswer]
    /\ UNCHANGED current

Look(p) ==
    /\ call[p] = Asking
    /\ current # NoEntry
    /\ Become(p, Found(current))
    /\ UNCHANGED <<current, res>>

Answer(p) ==
    /\ \/ call[p] = Asking /\ \E a \in Nothing : res' = [res EXCEPT ![p] = a]
       \/ \E e \in Entries :
              /\ call[p] = Found(e)
              /\ \E a \in Nothing \cup {Hit(e)} : res' = [res EXCEPT ![p] = a]
    /\ Become(p, Idle)
    /\ UNCHANGED current

Next ==
    \/ Lose
    \/ \E p \in Procs :
           Begin(p) \/ Finish(p) \/ GiveUp(p) \/ Ask(p) \/ Look(p) \/ Answer(p)

Spec == Init /\ [][Next]_vars
=============================================================================
