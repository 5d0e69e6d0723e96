----------------------------- MODULE CallLedger -----------------------------
(***************************************************************************)
(* What every part of the system that keeps receipts promises about the    *)
(* requests it records, said without runs, scenes, transactions, pages or  *)
(* a process that may stop.                                                *)
(*                                                                         *)
(* For each request the ledger knows what the receipt SAYS of it, whether  *)
(* somebody MAY still make it, and how often it was in fact DONE.  Any     *)
(* number of requests may move at once (the end of a run settles all of    *)
(* its receipts in one commit), each by one of the moves below.            *)
(***************************************************************************)
EXTENDS Naturals, TLAPS

CONSTANT Requests

VARIABLE ledger

Says == {"nothing", "open", "never", "sent", "answered"}
Entry == [says: Says, may: BOOLEAN, done: Nat]

At(says, may, done) == [says |-> says, may |-> may, done |-> done]

\* The request is proposed; one that arrives too late is refused at once, and a
\* request to the model is granted at once.
Propose(e) == {At("open", e.may, e.done), At("never", e.may, e.done),
               At("sent", TRUE, e.done)}
Grant(e)   == At("sent", TRUE, e.done)
Refuse(e)  == At("never", e.may, e.done)
Happen(e)  == At(e.says, FALSE, e.done + 1)
GiveUp(e)  == At(e.says, FALSE, e.done)
Answer(e)  == At("answered", FALSE, e.done)
\* The Store does the work itself, in the transaction that records it.
Commit(e)  == At("answered", e.may, e.done + 1)
\* In one step: granted and made, or granted to somebody who is gone.
AtOnce(e)  == {Happen(Grant(e)), GiveUp(Grant(e))}

Move(e, f) ==
  \/ e.says = "nothing" /\ f \in Propose(e)
  \/ e.says = "open"    /\ f \in {Grant(e), Refuse(e), Commit(e)} \cup AtOnce(e)
  \/ e.says = "sent"    /\ f = Answer(e)
  \/ e.may /\ f \in {Happen(e), GiveUp(e)}

Init == ledger = [c \in Requests |-> At("nothing", FALSE, 0)]

Next == /\ ledger' \in [Requests -> Entry]
        /\ \A c \in Requests : ledger'[c] = ledger[c] \/ Move(ledger[c], ledger'[c])

Spec == Init /\ [][Next]_ledger

-----------------------------------------------------------------------------

\* The receipts never understate what happened: of a request that was not
\* granted, or was refused, nothing has happened and nothing will; a request
\* that was granted happens at most once.
Honest ==
  \A c \in Requests :
    LET e == ledger[c] IN
    /\ e.says \in {"nothing", "open", "never"} => e.done = 0
    /\ e.may => e.says = "sent"
    /\ e.done + (IF e.may THEN 1 ELSE 0) <= 1

-----------------------------------------------------------------------------
(* What every implementation of the ledger can rely on.                    *)

\* One move keeps one request honest.
HonestEntry(e) ==
  /\ e \in Entry
  /\ e.says \in {"nothing", "open", "never"} => e.done = 0
  /\ e.may => e.says = "sent"
  /\ e.done + (IF e.may THEN 1 ELSE 0) <= 1

LEMMA MoveHonest ==
  ASSUME NEW e, HonestEntry(e), NEW f, Move(e, f)
  PROVE  HonestEntry(f)
<1>a. /\ e.says \in Says /\ e.may \in BOOLEAN /\ e.done \in Nat
      /\ e.says \in {"nothing", "open", "never"} => e.done = 0
      /\ e.may => e.says = "sent"
      /\ e.done + (IF e.may THEN 1 ELSE 0) <= 1
  BY DEF HonestEntry, Entry
<1> USE DEF HonestEntry, Entry, At, Says
<1>1. CASE e.says = "nothing" /\ f \in Propose(e)
  <2>1. CASE f = At("open", e.may, e.done)
    BY <1>1, <1>a, <2>1
  <2>2. CASE f = At("never", e.may, e.done)
    BY <1>1, <1>a, <2>2
  <2>3. CASE f = At("sent", TRUE, e.done)
    BY <1>1, <1>a, <2>3
  <2> QED  BY <1>1, <2>1, <2>2, <2>3 DEF Propose
<1>2. CASE e.says = "open" /\ f = Grant(e)
  BY <1>2, <1>a DEF Grant
<1>3. CASE e.says = "open" /\ f = Refuse(e)
  BY <1>3, <1>a DEF Refuse
<1>4. CASE e.says = "open" /\ f = Commit(e)
  BY <1>4, <1>a DEF Commit
<1>5. CASE e.says = "sent" /\ f = Answer(e)
  BY <1>5, <1>a DEF Answer
<1>6. CASE e.may /\ f = Happen(e)
  BY <1>6, <1>a DEF Happen
<1>7. CASE e.may /\ f = GiveUp(e)
  BY <1>7, <1>a DEF GiveUp
<1>8. CASE e.says = "open" /\ f \in AtOnce(e)
  <2>1. CASE f = Happen(Grant(e))
    BY <1>8, <1>a, <2>1 DEF Happen, Grant
  <2>2. CASE f = GiveUp(Grant(e))
    BY <1>8, <1>a, <2>2 DEF GiveUp, Grant
  <2> QED  BY <1>8, <2>1, <2>2 DEF AtOnce
<1> QED  BY <1>1, <1>2, <1>3, <1>4, <1>5, <1>6, <1>7, <1>8 DEF Move

\* The moves between entries whose parts are known.
LEMMA EntryMove ==
  ASSUME NEW may, NEW done
  PROVE  /\ Move(At("nothing", may, done), At("open", may, done))
         /\ Move(At("nothing", may, done), At("never", may, done))
         /\ Move(At("open", may, done), At("never", may, done))
         /\ Move(At("open", may, done), At("sent", TRUE, done))
         /\ Move(At("open", may, done), At("sent", FALSE, done))
         /\ Move(At("open", may, done), At("sent", FALSE, done + 1))
         /\ Move(At("sent", may, done), At("answered", FALSE, done))
<1> DEFINE n == At("nothing", may, done)
           o == At("open", may, done)
           s == At("sent", may, done)
<1>1. n.says = "nothing" /\ n.may = may /\ n.done = done
      /\ o.says = "open" /\ o.may = may /\ o.done = done
      /\ s.says = "sent" /\ s.may = may /\ s.done = done
  BY DEF At
<1>2. LET g == Grant(o) IN g.says = "sent" /\ g.may = TRUE /\ g.done = done
  BY <1>1 DEF Grant, At
<1> HIDE DEF n, o, s
<1>3. At("open", may, done) \in Propose(n) /\ At("never", may, done) \in Propose(n)
  BY <1>1, Zenon DEF Propose
<1>4. Grant(o) = At("sent", TRUE, done) /\ Refuse(o) = At("never", may, done)
  BY <1>1, Zenon DEF Grant, Refuse
<1>5. GiveUp(Grant(o)) = At("sent", FALSE, done) /\ Happen(Grant(o)) = At("sent", FALSE, done + 1)
  BY <1>2, Zenon DEF GiveUp, Happen
<1>6. Answer(s) = At("answered", FALSE, done)
  BY <1>1, Zenon DEF Answer
<1>7. /\ Move(n, At("open", may, done)) /\ Move(n, At("never", may, done))
      /\ Move(s, At("answered", FALSE, done))
  BY <1>1, <1>3, <1>6, Zenon DEF Move
<1>8. Move(o, At("sent", TRUE, done)) /\ Move(o, At("never", may, done))
  BY <1>1, <1>4, Zenon DEF Move
<1>9. Move(o, At("sent", FALSE, done)) /\ Move(o, At("sent", FALSE, done + 1))
  BY <1>1, <1>5, Zenon DEF Move, AtOnce
<1> QED  BY <1>7, <1>8, <1>9 DEF n, o, s

LEMMA GrantedMove ==
  ASSUME NEW says, NEW done
  PROVE  /\ Move(At(says, TRUE, done), At(says, FALSE, done + 1))
         /\ Move(At(says, TRUE, done), At(says, FALSE, done))
<1> DEFINE e == At(says, TRUE, done)
<1>1. e.says = says /\ e.may = TRUE /\ e.done = done
  BY DEF At
<1> HIDE DEF e
<1>2. Happen(e) = At(says, FALSE, done + 1) /\ GiveUp(e) = At(says, FALSE, done)
  BY <1>1, Zenon DEF Happen, GiveUp
<1>3. Move(e, At(says, FALSE, done + 1)) /\ Move(e, At(says, FALSE, done))
  BY <1>1, <1>2, Zenon DEF Move
<1> QED  BY <1>3 DEF e

HonestInv == /\ ledger \in [Requests -> Entry]
             /\ \A c \in Requests : HonestEntry(ledger[c])

LEMMA LedgerHonestInit == Init => HonestInv
BY DEF Init, HonestInv, HonestEntry, Entry, Says, At

LEMMA LedgerHonestStep == HonestInv /\ [Next]_ledger => HonestInv'
<1> SUFFICES ASSUME HonestInv, [Next]_ledger PROVE HonestInv'
  OBVIOUS
<1>1. CASE Next
  <2>1. ASSUME NEW c \in Requests PROVE HonestEntry(ledger'[c])
    <3>1. ledger'[c] = ledger[c] \/ Move(ledger[c], ledger'[c])
      BY <1>1 DEF Next
    <3>2. HonestEntry(ledger[c])
      BY DEF HonestInv
    <3> QED  BY <3>1, <3>2, MoveHonest
  <2> QED  BY <1>1, <2>1 DEF Next, HonestInv
<1>2. CASE UNCHANGED ledger
  BY <1>2 DEF HonestInv
<1> QED  BY <1>1, <1>2

\* The ledger never understates what happened: nothing happens to a request that
\* was refused or not granted, and a granted request happens at most once.
THEOREM LedgerHonest == Spec => []Honest
<1>1. HonestInv => Honest
  BY DEF HonestInv, HonestEntry, Honest
<1> QED  BY <1>1, LedgerHonestInit, LedgerHonestStep, PTL DEF Spec

=============================================================================
