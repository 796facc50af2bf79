------------------------ MODULE WalletLedger_proofs ------------------------
(***************************************************************************)
(* WalletInv is inductive, and with it, for every set of profiles, every   *)
(* amount and every number of writes and slots: the settled slot divides   *)
(* the booked writes from the pending one, the wallet is a ledger of its   *)
(* profiles' own writes, a guarded read shows exactly the profile's own    *)
(* money, and moves sized on such reads spend nobody else's.  First what   *)
(* each kind of step changes, then one lemma per conjunct of WalletInv.    *)
(***************************************************************************)
EXTENDS WalletClaims_proofs

USE DEF NoTx, Txs, Slots, Claimers

-----------------------------------------------------------------------------
(* What a step may change.                                                 *)

\* The chain, the accounts and the pending write's transaction stay.
Unmoved == /\ UNCHANGED <<head, floor, bal, txs, settled, claims, overdrawn, own, outside>>
           /\ strays \subseteq strays'
           /\ pending'.by = pending.by
           /\ Outstanding' = Outstanding

\* The steps of p that move nothing but p.
Quiet(p) ==
  \/ Look(p) \/ Size(p) \/ Rest(p)
  \/ TakeLock(p) \/ LockTimeout(p) \/ Refuse(p) \/ SendNothing(p) \/ Return(p) \/ LeavePending(p)
  \/ SettleEarlier(p) /\ pending = NoWrite
  \/ Crash(p) /\ pc[p] # "sent"

Books(p) == \/ SettleEarlier(p) /\ pending # NoWrite
            \/ SettleOwn(p)

Loses(p) == (ReturnNothing(p) \/ Crash(p)) /\ pc[p] = "sent"

\* Every step is one of these.
LEMMA Kinds ==
  ASSUME [Next]_vars
  PROVE  \/ UNCHANGED vars
         \/ \E p \in Profiles : Quiet(p) \/ Prepare(p) \/ Send(p) \/ Books(p) \/ Loses(p)
         \/ \E i \in Txs : Land(i) \/ FailOnChain(i) \/ Expire(i)
         \/ Age
         \/ \E d \in Donations : Donate(d)
<1>1. CASE UNCHANGED vars
  BY <1>1
<1>2. ASSUME NEW p \in Profiles, Look(p) \/ Size(p) \/ Rest(p) \/ Write(p) \/ Crash(p)
      PROVE  Quiet(p) \/ Prepare(p) \/ Send(p) \/ Books(p) \/ Loses(p)
  <2>1. ReturnNothing(p) => pc[p] = "sent"
    BY DEF ReturnNothing, GoTo
  <2> QED
    BY <1>2, <2>1 DEF Write, Quiet, Books, Loses
<1> QED
  BY <1>1, <1>2 DEF Next

\* A quiet step moves on one process, and its pending write stays the same.
LEMMA QuietUnmoved ==
  ASSUME TypeOK, ClaimsInv, NEW p \in Profiles, Quiet(p)
  PROVE  /\ Unmoved
         /\ \A q \in Profiles \ {p} : pc'[q] = pc[q] /\ job'[q] = job[q]
<1>1. CASE Return(p)
  <2>1. /\ pc[p] = "sent" /\ pc' = [pc EXCEPT ![p] = "returned"]
        /\ pending' = [pending EXCEPT !.tx = job[p].tx]
        /\ job' = [job EXCEPT ![p] = NoJob]
        /\ UNCHANGED <<head, floor, bal, txs, settled, claims, overdrawn, own, outside, strays>>
    BY <1>1 DEF Return, GoTo, chain, history
  <2>2. pending.by = p /\ pending.tx = 0 /\ job[p].tx \in 1 .. sent /\ sent \in Nat
    BY <2>1, BoundsAssumption DEF ClaimsInv, SectionInv, TypeOK
  <2>3. pending'.by = p /\ pending'.tx = job[p].tx
    BY <2>1, <2>2 DEF TypeOK
  <2>4. Outstanding' = Outstanding
    BY <2>1, <2>2, <2>3 DEF Outstanding
  <2> QED
    BY <2>1, <2>2, <2>3, <2>4 DEF Unmoved, TypeOK
<1>2. CASE ~Return(p)
  <2>1. PICK to \in States \ {"sent"} : pc' = [pc EXCEPT ![p] = to]
    BY <1>2 DEF Quiet, Look, MarkBefore, ReadBalance, ReadClaims, MarkAfter, Size, Rest, LockTimeout,
                TakeLock, Refuse, SendNothing, LeavePending, SettleEarlier, Crash, GoTo, Forget, States
  <2>2. pc[p] # "sent"
    BY <1>2 DEF Quiet, Look, MarkBefore, ReadBalance, ReadClaims, MarkAfter, Size, Rest, LockTimeout,
                TakeLock, Refuse, SendNothing, LeavePending, SettleEarlier, GoTo, Forget
  <2>3. /\ UNCHANGED <<head, floor, bal, txs, settled, pending, claims, overdrawn, own, outside>>
        /\ strays \subseteq strays'
    BY <1>2 DEF Quiet, Look, MarkBefore, ReadBalance, ReadClaims, MarkAfter, Size, Rest, LockTimeout,
                TakeLock, Refuse, SendNothing, LeavePending, SettleEarlier, Crash, chain, database, history
  <2>4. \A q \in Profiles \ {p} : job'[q] = job[q]
    BY <1>2 DEF Quiet, Look, MarkBefore, ReadBalance, ReadClaims, MarkAfter, Size, Rest, LockTimeout,
                TakeLock, Refuse, SendNothing, LeavePending, SettleEarlier, Crash, Forget, TypeOK
  <2>5. Outstanding' = Outstanding
    BY <2>1, <2>2, <2>3, <2>4, SameOutstanding
  <2> QED
    BY <2>1, <2>3, <2>4, <2>5 DEF Unmoved, TypeOK
<1> QED
  BY <1>1, <1>2

\* What recording a pending write changes.
LEMMA PrepareFacts ==
  ASSUME TypeOK, ClaimsInv, NEW p \in Profiles, Prepare(p)
  PROVE  /\ pc[p] = "clear" /\ pc' = [pc EXCEPT ![p] = "prepared"]
         /\ UNCHANGED <<head, floor, bal, txs, settled, claims, overdrawn, view, job, own, outside, strays>>
         /\ pending.by = NoOne /\ pending'.by = p
         /\ Outstanding = 0 /\ Outstanding' = 0
<1>1. /\ pc[p] = "clear" /\ pc' = [pc EXCEPT ![p] = "prepared"]
      /\ UNCHANGED <<head, floor, bal, txs, settled, claims, overdrawn, view, job, own, outside, strays>>
  BY DEF Prepare, GoTo, chain, history
<1>2. pending = NoWrite
  BY <1>1 DEF ClaimsInv, SectionInv
<1>3. pending.tx = 0 /\ pending.by = NoOne /\ NoOne \notin Profiles
  BY <1>2, ProfilesAssumption DEF NoWrite
<1>4. pending'.by = p /\ pending'.tx = 0
  BY DEF Prepare
<1>5. Outstanding = 0 /\ Outstanding' = 0
  BY <1>1, <1>3, <1>4 DEF Outstanding, TypeOK
<1> QED
  BY <1>1, <1>3, <1>4, <1>5

\* What a send changes: one transaction more, the pending write's.
LEMMA SendFacts ==
  ASSUME TypeOK, ClaimsInv, NEW p \in Profiles, Send(p)
  PROVE  /\ pc[p] = "prepared" /\ pc' = [pc EXCEPT ![p] = "sent"]
         /\ UNCHANGED <<head, floor, bal, settled, pending, claims, overdrawn, view, own, outside, strays>>
         /\ sent + 1 \in Txs /\ sent \in Nat
         /\ txs'[sent + 1] = [by |-> p, delta |-> job[p].delta, state |-> "flying", slot |-> 0]
         /\ \A i \in Txs \ {sent + 1} : txs'[i] = txs[i]
         /\ txs[sent + 1].state = "unsent"
         /\ \A q \in Profiles \ {p} : job'[q] = job[q]
         /\ pending.by = p
         /\ Outstanding = 0 /\ Outstanding' = sent + 1
<1>1. /\ pc[p] = "prepared" /\ pc' = [pc EXCEPT ![p] = "sent"]
      /\ UNCHANGED <<head, floor, bal, settled, pending, claims, overdrawn, view, own, outside, strays>>
  BY DEF Send, GoTo, database, history
<1>2. txs' = [txs EXCEPT ![sent + 1] = [by |-> p, delta |-> job[p].delta, state |-> "flying", slot |-> 0]]
  BY DEF Send
<1>3. job' = [job EXCEPT ![p] = [delta |-> 0, tx |-> sent + 1]]
  BY DEF Send
<1>4. sent \in Nat /\ sent + 1 \in Txs
  BY BoundsAssumption DEF Send, TypeOK
<1>5. pc'[p] = "sent" /\ job'[p].tx = sent + 1
  BY <1>1, <1>3 DEF TypeOK
<1>6. pending.by = p /\ pending.tx = 0
  BY <1>1 DEF ClaimsInv, SectionInv
<1>7. Outstanding = 0 /\ Outstanding' = sent + 1
  BY <1>1, <1>4, <1>5, <1>6 DEF Outstanding
<1>8. /\ txs'[sent + 1] = [by |-> p, delta |-> job[p].delta, state |-> "flying", slot |-> 0]
      /\ \A i \in Txs \ {sent + 1} : txs'[i] = txs[i]
  BY <1>2, <1>4 DEF TypeOK
<1>9. txs[sent + 1].state = "unsent"
  BY <1>4 DEF ClaimsInv, PendingInv
<1>10. \A q \in Profiles \ {p} : job'[q] = job[q]
  BY <1>3 DEF TypeOK
<1> QED
  BY <1>1, <1>4, <1>6, <1>7, <1>8, <1>9, <1>10

\* A booking: the settled slot does not go back, and every read from it on
\* holds the booked write.
LEMMA BooksFacts ==
  ASSUME TypeOK, ClaimsInv, NEW p \in Profiles, Books(p)
  PROVE  /\ Book
         /\ UNCHANGED <<head, floor, bal, txs, own, outside>>
         /\ pc[p] \in {"locked", "returned"}
         /\ \/ pc' = [pc EXCEPT ![p] = "clear"] /\ UNCHANGED <<view, job>>
            \/ Forget(p)
         /\ strays \subseteq strays'
         /\ pending.by \in Profiles /\ pending' = NoWrite /\ pending'.by = NoOne
         /\ Outstanding = pending.tx /\ Outstanding' = 0
         /\ \A q \in Profiles : pc[q] # "sent"
         /\ settled' \in 0 .. head /\ settled' >= settled
         /\ Landed(Outstanding) /\ Accountable =>
              /\ txs[Outstanding].slot <= Low'
              /\ pending.by \in Claimers => txs[Outstanding].slot <= settled'
<1>1. /\ Book
      /\ UNCHANGED <<head, floor, bal, txs, own, outside>>
      /\ pending' = NoWrite
  BY DEF Books, SettleEarlier, SettleOwn, Book, chain
<1>2. /\ pc[p] \in {"locked", "returned"}
      /\ \/ pc' = [pc EXCEPT ![p] = "clear"] /\ UNCHANGED <<view, job>>
         \/ Forget(p)
  BY DEF Books, SettleEarlier, SettleOwn, GoTo
<1>3. pending # NoWrite
  BY ProfilesAssumption DEF Books, ClaimsInv, SectionInv, SettleOwn, NoWrite
<1>4. \A q \in Profiles : pc[q] # "sent"
  BY <1>2, Alone DEF Section
<1>5. pending'.tx = 0 /\ pending'.by = NoOne /\ pending'.by \notin Profiles /\ pending.by \in Profiles
  BY <1>1, <1>3, PendingType, ProfilesAssumption DEF NoWrite, ClaimsInv, SectionInv
<1>6. Outstanding' = 0
  BY <1>5 DEF Outstanding
<1>7. PICK at \in ReportedSlots :
        IF pending.by = Residual THEN BookNothing(Need(at))
        ELSE \E s \in Larger(Need(at), floor) .. head : BookAt(s)
  BY <1>1 DEF Book
<1>8. /\ Outstanding = pending.tx
      /\ Need(at) \in 0 .. head
      /\ Need(at) >= settled
      /\ Landed(pending.tx) /\ Accountable => txs[pending.tx].slot <= Larger(Need(at), floor)
  <2>1. Accountable => Traced
    BY DEF Accountable, Traced
  <2> QED
    BY <1>3, <1>4, <1>7, <2>1, BookedFacts
<1>9. /\ head \in Int /\ settled \in 0 .. head /\ floor \in 0 .. head
      /\ Landed(pending.tx) => txs[pending.tx].slot \in Int
  <2>1. /\ head \in Int /\ settled \in 0 .. head /\ floor \in 0 .. head
    BY BoundsAssumption DEF TypeOK
  <2>2. Landed(pending.tx) => txs[pending.tx].slot \in 0 .. head
    BY PendingType DEF TypeOK, Landed
  <2> QED
    BY <2>1, <2>2
<1>10. strays \subseteq strays'
  BY <1>7 DEF BookAt, BookNothing
<1>11. CASE pending.by = Residual
  <2>1. settled' = Larger(settled, Need(at))
    BY <1>7, <1>11 DEF BookNothing
  <2>2. settled' = Need(at) /\ Low' = Larger(Need(at), floor)
    BY <1>1, <1>8, <1>9, <2>1 DEF Larger, Low
  <2> QED
    BY <1>1, <1>2, <1>4, <1>5, <1>6, <1>8, <1>10, <1>11, <2>2
<1>12. CASE pending.by # Residual
  <2>1. PICK s \in Larger(Need(at), floor) .. head : BookAt(s)
    BY <1>7, <1>12
  <2>2. settled' = Larger(settled, s)
    BY <2>1 DEF BookAt
  <2>3. s \in 0 .. head /\ s >= settled /\ s >= floor /\ s >= Larger(Need(at), floor)
    BY <1>8, <1>9, <2>1 DEF Larger
  <2>4. settled' = s /\ Low' = s
    BY <1>1, <1>9, <2>2, <2>3 DEF Larger, Low
  <2>5. Larger(Need(at), floor) \in Int
    BY <1>8, <1>9 DEF Larger
  <2>6. Landed(pending.tx) /\ Accountable => txs[pending.tx].slot <= s
    BY <1>8, <1>9, <2>3, <2>5
  <2> QED
    BY <1>1, <1>2, <1>4, <1>5, <1>6, <1>8, <1>9, <1>10, <2>3, <2>4, <2>6
<1> QED
  BY <1>11, <1>12

\* What a landing changes.
LEMMA LandFacts ==
  ASSUME TypeOK, ClaimsInv, NEW i \in Txs, Land(i)
  PROVE  /\ txs[i].state = "flying" /\ txs[i].delta \in Int
         /\ Advance(txs[i].delta, 0)
         /\ own' = [own EXCEPT ![txs[i].by] = @ + txs[i].delta]
         /\ UNCHANGED <<floor, settled, pending, claims, overdrawn, pc, view, job>>
         /\ strays \subseteq strays'
         /\ own'[txs[i].by] < 0 => "overspent" \in strays'
         /\ strays' \subseteq strays \cup {"overspent"}
         /\ head' = head + 1 /\ head \in Nat
         /\ txs'[i].state = "landed" /\ txs'[i].slot = head + 1
         /\ txs'[i].delta = txs[i].delta
         /\ \A j \in Txs \ {i} : txs'[j] = txs[j]
         /\ Outstanding' = Outstanding
         /\ Accountable' => /\ Accountable /\ i = Outstanding
                            /\ pending.by = txs[i].by
<1>1. /\ txs[i].state = "flying"
      /\ Advance(txs[i].delta, 0)
      /\ txs' = [txs EXCEPT ![i].state = "landed", ![i].slot = head + 1]
      /\ own' = [own EXCEPT ![txs[i].by] = @ + txs[i].delta]
      /\ UNCHANGED <<floor, sent, lock, settled, pending, claims, overdrawn, aged, pc, view, job>>
  BY DEF Land, database
<1>2. strays' = IF own'[txs[i].by] < 0 THEN strays \cup {"overspent"} ELSE strays
  BY DEF Land
<1>3. head' = head + 1 /\ head \in Nat /\ txs[i].delta \in Int
  BY <1>1, BoundsAssumption DEF Advance, TypeOK
<1>4. /\ txs'[i].state = "landed" /\ txs'[i].slot = head + 1
      /\ txs'[i].delta = txs[i].delta
      /\ \A j \in Txs \ {i} : txs'[j] = txs[j]
  BY <1>1 DEF TypeOK
<1>5. Outstanding' = Outstanding
  BY <1>1, SectionStays
<1>6. Accountable' => Accountable
  BY <1>2 DEF Accountable
<1>7. Accountable => i = Outstanding
  BY <1>1 DEF ClaimsInv, OneInFlight, Accountable, Traced
<1>8. i # 0
  BY NoTxIsNone
<1>9. i = Outstanding => pending.by = txs[i].by
  BY <1>8 DEF ClaimsInv, PendingInv
<1>11. /\ strays \subseteq strays' /\ strays' \subseteq strays \cup {"overspent"}
       /\ own'[txs[i].by] < 0 => "overspent" \in strays'
  BY <1>2
<1> QED
  BY <1>1, <1>3, <1>4, <1>5, <1>6, <1>7, <1>9, <1>11

\* Failed on chain, or expired.
LEMMA DeadFacts ==
  ASSUME TypeOK, ClaimsInv, NEW i \in Txs, FailOnChain(i) \/ Expire(i)
  PROVE  /\ UNCHANGED <<head, floor, bal, settled, pending, claims, overdrawn, pc, view, job, own, outside, strays>>
         /\ txs[i].state = "flying" /\ txs'[i].state \in {"failed", "dead"}
         /\ \A j \in Txs \ {i} : txs'[j] = txs[j]
         /\ Outstanding' = Outstanding
<1>1. /\ txs[i].state = "flying"
      /\ \/ txs' = [txs EXCEPT ![i].state = "failed", ![i].slot = head]
         \/ txs' = [txs EXCEPT ![i].state = "dead"]
      /\ UNCHANGED <<head, floor, bal, sent, lock, settled, pending, claims, overdrawn, aged, pc, view, job, own, outside, strays>>
  BY DEF FailOnChain, Expire, database, history
<1>2. Outstanding' = Outstanding
  BY <1>1, SectionStays
<1>3. /\ txs'[i].state \in {"failed", "dead"}
      /\ \A j \in Txs \ {i} : txs'[j] = txs[j]
  <2>1. CASE txs' = [txs EXCEPT ![i].state = "failed", ![i].slot = head]
    BY <2>1 DEF TypeOK
  <2>2. CASE txs' = [txs EXCEPT ![i].state = "dead"]
    BY <2>2 DEF TypeOK
  <2> QED
    BY <1>1, <2>1, <2>2
<1> QED
  BY <1>1, <1>2, <1>3

-----------------------------------------------------------------------------
(* The settled slot.                                                       *)

\* A landed transaction is one, with a slot and an amount.
LEMMA LandedTyped ==
  ASSUME TypeOK, NEW i, i \in Txs \cup {0}, Landed(i)
  PROVE  /\ i \in Txs
         /\ txs[i].slot \in 0 .. head
         /\ txs[i].delta \in Int
BY DEF Landed, TypeOK

\* The outstanding transaction is one of the transactions, or none.
LEMMA OutstandingTyped ==
  ASSUME TypeOK, ClaimsInv
  PROVE  Outstanding \in Txs \cup {0}
<1>1. sent \in Nat /\ sent <= MaxWrites /\ MaxWrites \in Nat
  BY BoundsAssumption DEF TypeOK
<1>2. Outstanding \in 0 .. sent
  BY DEF ClaimsInv, PendingInv
<1> QED
  BY <1>1, <1>2

\* The oldest slot of interest lies between the settled one and the newest.
LEMMA LowTyped ==
  ASSUME TypeOK
  PROVE  /\ Low \in 0 .. head /\ Low >= settled /\ Low >= floor
         /\ head \in Nat /\ settled \in 0 .. head /\ floor \in 0 .. head
BY BoundsAssumption DEF TypeOK, Low, Larger

\* The settled slot divides booked writes from the pending one after each step.
LEMMA SettledNext ==
  ASSUME TypeOK, ClaimsInv, SettledDivides, [Next]_vars
  PROVE  SettledDivides'
<1>1. SUFFICES ASSUME Accountable', NEW j \in Txs, Landed(j)'
               PROVE  IF j = Outstanding' THEN txs'[j].slot > settled' ELSE txs'[j].slot <= Low'
  BY DEF SettledDivides
<1>2. Landed(j) /\ Accountable => IF j = Outstanding THEN txs[j].slot > settled ELSE txs[j].slot <= Low
  BY DEF SettledDivides
<1>3. Landed(j) => txs[j].slot \in 0 .. head
  BY LandedTyped
<1>4. /\ Low \in 0 .. head /\ Low >= settled /\ Low >= floor
      /\ head \in Nat /\ settled \in 0 .. head /\ floor \in 0 .. head
  BY LowTyped
<1>5. ASSUME /\ UNCHANGED <<floor, settled, txs>> /\ strays \subseteq strays'
             /\ Outstanding' = Outstanding
      PROVE  IF j = Outstanding' THEN txs'[j].slot > settled' ELSE txs'[j].slot <= Low'
  <2>1. Accountable /\ Landed(j) /\ Low' = Low
    BY <1>1, <1>5 DEF Accountable, Landed, Low
  <2> QED
    BY <1>2, <1>5, <2>1
<1>6. CASE UNCHANGED vars
  <2>1. UNCHANGED <<floor, settled, txs, strays>> /\ Outstanding' = Outstanding
    BY <1>6 DEF vars, chain, database, history, Outstanding
  <2> QED
    BY <1>5, <2>1
<1>7. ASSUME NEW p \in Profiles, Quiet(p)
      PROVE  IF j = Outstanding' THEN txs'[j].slot > settled' ELSE txs'[j].slot <= Low'
  BY <1>5, <1>7, QuietUnmoved DEF Unmoved
<1>8. ASSUME NEW p \in Profiles, Prepare(p)
      PROVE  IF j = Outstanding' THEN txs'[j].slot > settled' ELSE txs'[j].slot <= Low'
  <2>1. UNCHANGED <<floor, settled, txs, strays>> /\ Outstanding' = Outstanding
    BY <1>8, PrepareFacts
  <2> QED
    BY <1>5, <2>1
<1>9. ASSUME NEW p \in Profiles, Send(p)
      PROVE  IF j = Outstanding' THEN txs'[j].slot > settled' ELSE txs'[j].slot <= Low'
  <2>1. /\ UNCHANGED <<floor, settled, strays>>
        /\ txs'[sent + 1] = [by |-> p, delta |-> job[p].delta, state |-> "flying", slot |-> 0]
        /\ \A i \in Txs \ {sent + 1} : txs'[i] = txs[i]
        /\ Outstanding = 0 /\ Outstanding' = sent + 1
    BY <1>9, SendFacts
  <2>2. j # sent + 1
    BY <1>1, <2>1 DEF Landed
  <2>3. Landed(j) /\ Accountable /\ j # 0 /\ Low' = Low
    BY <1>1, <2>1, <2>2, NoTxIsNone DEF Landed, Accountable, Low
  <2> QED
    BY <1>2, <2>1, <2>2, <2>3
<1>10. ASSUME NEW p \in Profiles, Books(p)
       PROVE  IF j = Outstanding' THEN txs'[j].slot > settled' ELSE txs'[j].slot <= Low'
  <2>1. /\ UNCHANGED <<floor, txs>> /\ strays \subseteq strays'
        /\ Outstanding' = 0
        /\ settled' \in 0 .. head /\ settled' >= settled
        /\ Landed(Outstanding) /\ Accountable => txs[Outstanding].slot <= Low'
    BY <1>10, BooksFacts
  <2>2. Landed(j) /\ Accountable /\ j # 0
    BY <1>1, <2>1, NoTxIsNone DEF Landed, Accountable
  <2>3. Low' >= Low /\ Low' \in Int
    BY <1>4, <2>1 DEF Low, Larger
  <2>4. txs[j].slot <= Low'
    BY <1>2, <1>3, <1>4, <2>1, <2>2, <2>3
  <2> QED
    BY <2>1, <2>2, <2>4
<1>11. ASSUME NEW p \in Profiles, Loses(p)
       PROVE  FALSE
  <2>1. "lost signature" \in strays'
    BY <1>11 DEF Loses, ReturnNothing, Crash
  <2> QED
    BY <1>1, <2>1 DEF Accountable
<1>12. ASSUME NEW i \in Txs, Land(i)
       PROVE  IF j = Outstanding' THEN txs'[j].slot > settled' ELSE txs'[j].slot <= Low'
  <2>1. /\ UNCHANGED <<floor, settled>>
        /\ txs'[i].slot = head + 1
        /\ \A k \in Txs \ {i} : txs'[k] = txs[k]
        /\ Outstanding' = Outstanding
        /\ Accountable /\ i = Outstanding
    BY <1>1, <1>12, LandFacts
  <2>2. CASE j = i
    BY <1>4, <2>1, <2>2
  <2>3. CASE j # i
    <3>1. Landed(j) /\ Low' = Low
      BY <1>1, <2>1, <2>3 DEF Landed, Low
    <3> QED
      BY <1>2, <2>1, <2>3, <3>1
  <2> QED
    BY <2>2, <2>3
<1>13. ASSUME NEW i \in Txs, FailOnChain(i) \/ Expire(i)
       PROVE  IF j = Outstanding' THEN txs'[j].slot > settled' ELSE txs'[j].slot <= Low'
  <2>1. /\ UNCHANGED <<floor, settled, strays>>
        /\ txs'[i].state \in {"failed", "dead"}
        /\ \A k \in Txs \ {i} : txs'[k] = txs[k]
        /\ Outstanding' = Outstanding
    BY <1>13, DeadFacts
  <2>2. j # i
    BY <1>1, <2>1 DEF Landed
  <2>3. Landed(j) /\ Low' = Low /\ Accountable
    BY <1>1, <2>1, <2>2 DEF Landed, Low, Accountable
  <2> QED
    BY <1>2, <2>1, <2>2, <2>3
<1>14. CASE Age
  <2>1. floor' \in floor .. head /\ UNCHANGED <<txs, settled, pending, pc, job>> /\ strays \subseteq strays'
    BY <1>14 DEF Age
  <2>2. Outstanding' = Outstanding
    BY <2>1 DEF Outstanding
  <2>3. Landed(j) /\ Accountable
    BY <1>1, <2>1 DEF Landed, Accountable
  <2>4. Low' >= Low /\ Low' \in Int
    BY <1>4, <2>1 DEF Low, Larger
  <2> QED
    BY <1>2, <1>3, <1>4, <2>1, <2>2, <2>3, <2>4
<1>15. ASSUME NEW d \in Donations, Donate(d)
       PROVE  IF j = Outstanding' THEN txs'[j].slot > settled' ELSE txs'[j].slot <= Low'
  <2>1. UNCHANGED <<floor, txs, settled, strays, pending, pc, job>>
    BY <1>15 DEF Donate, database
  <2>2. Outstanding' = Outstanding
    BY <2>1 DEF Outstanding
  <2> QED
    BY <1>5, <2>1, <2>2
<1> QED
  BY <1>6, <1>7, <1>8, <1>9, <1>10, <1>11, <1>12, <1>13, <1>14, <1>15, Kinds

-----------------------------------------------------------------------------
(* What the wallet holds.                                                  *)

\* What the claimers own is a sum of integers.
LEMMA OthersTyped ==
  ASSUME TypeOK
  PROVE  /\ IsFiniteSet(Claimers) /\ Residual \notin Claimers
         /\ \A q \in Profiles : own[q] \in Int
         /\ Others \in Int
<1>1. IsFiniteSet(Claimers)
  BY ProfilesAssumption, FS_Subset
<1>2. \A q \in Profiles : own[q] \in Int
  BY DEF TypeOK
<1>3. Others \in Int
  BY <1>1, <1>2, SumInt DEF Others
<1> QED
  BY <1>1, <1>2, <1>3

\* It stays where no claimer's funds move.
LEMMA OthersSame ==
  ASSUME TypeOK, \A q \in Claimers : own'[q] = own[q]
  PROVE  Others' = Others
BY OthersTyped, SumSame DEF Others

\* It moves with each claimer's.
LEMMA OthersMove ==
  ASSUME TypeOK, NEW p \in Claimers, NEW d \in Int, own' = [own EXCEPT ![p] = @ + d]
  PROVE  Others' = Others + d
<1>1. /\ IsFiniteSet(Claimers)
      /\ \A q \in Claimers : own[q] \in Int
  BY OthersTyped
<1>2. /\ own'[p] = own[p] + d
      /\ \A q \in Claimers \ {p} : own'[q] = own[q]
  BY DEF TypeOK
<1>3. \A q \in Claimers : own[q] \in Int /\ own'[q] \in Int
  BY <1>1, <1>2
<1>4. \A e, f : /\ \A q \in Claimers : f[q] \in Int /\ e[q] \in Int
                /\ \A q \in Claimers \ {p} : e[q] = f[q]
                => SumFunctionOnSet(e, Claimers) = SumFunctionOnSet(f, Claimers) + (e[p] - f[p])
  BY <1>1, SumMoves, ZenonT(60)
<1>5. Others' = Others + (own'[p] - own[p])
  BY <1>2, <1>3, <1>4, Zenon DEF Others
<1>6. Others \in Int
  BY OthersTyped
<1> QED
  BY <1>1, <1>2, <1>5, <1>6

\* A new slot leaves the older ones alone.
LEMMA AdvanceFacts ==
  ASSUME TypeOK, NEW d \in Int, NEW o \in Nat, Advance(d, o),
         \A s \in 0 .. head : bal[s] >= 0 /\ outside[s] <= outside[head]
  PROVE  /\ head' = head + 1 /\ head \in Nat
         /\ bal'[head'] = bal[head] + d /\ outside'[head'] = outside[head] + o
         /\ \A s \in 0 .. head : bal'[s] = bal[s] /\ outside'[s] = outside[s]
         /\ \A s \in 0 .. head' : bal'[s] >= 0 /\ outside'[s] <= outside'[head']
<1>1. /\ head \in Nat /\ head + 1 \in Slots /\ head' = head + 1
      /\ 0 .. head \subseteq Slots /\ \A s \in 0 .. head : s # head + 1
  BY BoundsAssumption DEF Advance, TypeOK, Slots
<1>2. bal \in [Slots -> Int] /\ outside \in [Slots -> Int]
  BY DEF TypeOK
<1>3. /\ bal' = [bal EXCEPT ![head + 1] = bal[head] + d]
      /\ outside' = [outside EXCEPT ![head + 1] = outside[head] + o]
      /\ bal[head] + d >= 0
  BY DEF Advance
<1>4. bal'[head'] = bal[head] + d /\ outside'[head'] = outside[head] + o
  BY <1>1, <1>2, <1>3
<1>5. \A s \in 0 .. head : bal'[s] = bal[s] /\ outside'[s] = outside[s]
  <2> SUFFICES ASSUME NEW s \in 0 .. head PROVE bal'[s] = bal[s] /\ outside'[s] = outside[s]
    OBVIOUS
  <2>1. s \in Slots /\ s # head + 1
    BY <1>1
  <2> QED
    BY <1>2, <1>3, <2>1
<1>6. \A s \in 0 .. head : outside[s] \in Int
  BY <1>1, <1>2
<1>7. ASSUME NEW s \in 0 .. head'
      PROVE  bal'[s] >= 0 /\ outside'[s] <= outside'[head']
  <2>1. s \in 0 .. head \/ s = head'
    BY <1>1
  <2>2. head \in 0 .. head
    BY <1>1
  <2>3. CASE s \in 0 .. head
    BY <1>4, <1>5, <1>6, <2>2, <2>3
  <2>4. CASE s = head'
    BY <1>3, <1>4, <1>6, <2>2, <2>4
  <2> QED
    BY <2>1, <2>3, <2>4
<1> QED
  BY <1>1, <1>4, <1>5, <1>7

\* What a process has sized stays with it up to its send.
LEMMA QuietSizing ==
  ASSUME TypeOK, NEW p \in Profiles, Quiet(p), pc'[p] \in Sizing
  PROVE  \/ Size(p)
         \/ /\ pc[p] \in {"waiting", "locked"} /\ pc'[p] \in {"locked", "clear"}
            /\ pc'[p] = "locked" => pc[p] = "waiting"
            /\ job'[p] = job[p]
BY DEF Quiet, Look, MarkBefore, ReadBalance, ReadClaims, MarkAfter, Rest, LockTimeout,
       TakeLock, Refuse, SendNothing, Return, LeavePending, SettleEarlier, Crash, GoTo, Forget, Sizing, TypeOK

\* What sizing a move changes.
LEMMA SizeFacts ==
  ASSUME TypeOK, NEW p \in Profiles, Size(p)
  PROVE  /\ pc[p] = "viewed" /\ pc'[p] = "waiting"
         /\ job'[p].delta \in Amounts
         /\ view[p].amount + job'[p].delta >= 0
         /\ strays' = IF Trusted(p) THEN strays ELSE strays \cup {"unsettled sizing"}
<1>1. PICK d \in Amounts : view[p].amount + d >= 0 /\ job' = [job EXCEPT ![p].delta = d]
  BY DEF Size
<1>2. job'[p].delta = d
  BY <1>1 DEF TypeOK
<1> QED
  BY <1>1, <1>2 DEF Size, GoTo, TypeOK

\* At first the wallet holds what its profiles were given.
LEMMA InitOwn == Init => OwnInv
<1> SUFFICES ASSUME Init PROVE OwnInv
  OBVIOUS
<1>1. head = 0 /\ own = InitFunds /\ 0 \in Slots
  BY BoundsAssumption DEF Init
<1>2. bal[0] = SumFunction(InitFunds) /\ outside[0] = 0
  BY <1>1 DEF Init
<1>3. DOMAIN InitFunds = Profiles /\ \A p \in Profiles : InitFunds[p] \in Nat
  BY AmountsAssumption
<1>4. SumFunction(InitFunds) = InitFunds[Residual] + SumFunctionOnSet(InitFunds, Profiles \ {Residual})
  BY <1>3, SumSplits, ProfilesAssumption DEF SumFunction
<1>5. SumFunction(InitFunds) \in Nat
  BY <1>3, SumNat, ProfilesAssumption DEF SumFunction
<1>6. bal[head] = own[Residual] + Others
  BY <1>1, <1>2, <1>4 DEF Others
<1>7. \A s \in 0 .. head : bal[s] >= 0 /\ outside[s] <= outside[head]
  BY <1>1, <1>2, <1>5
<1>8. \A i \in Txs : txs[i].state # "flying"
  BY DEF Init
<1>9. \A p \in Profiles : pc[p] \notin Sizing
  BY DEF Init, Sizing
<1> QED
  BY <1>6, <1>7, <1>8, <1>9 DEF OwnInv

\* The wallet holds what its profiles own after each step.
LEMMA OwnNext ==
  ASSUME TypeOK, ClaimsInv, OwnInv, [Next]_vars
  PROVE  OwnInv'
<1>1. /\ bal[head] = own[Residual] + Others
      /\ \A s \in 0 .. head : bal[s] >= 0 /\ outside[s] <= outside[head]
      /\ \A i \in Txs : txs[i].state = "flying" => txs[i].by \in Profiles /\ txs[i].delta \in Amounts
      /\ \A p \in Profiles : pc[p] \in Sizing => job[p].delta \in Amounts
  BY DEF OwnInv
<1>2. ASSUME /\ UNCHANGED <<head, bal, own, outside>>
             /\ \A i \in Txs : txs'[i].state = "flying" => txs'[i].by \in Profiles /\ txs'[i].delta \in Amounts
             /\ \A p \in Profiles : pc'[p] \in Sizing => job'[p].delta \in Amounts
      PROVE  OwnInv'
  BY <1>1, <1>2, OthersSame DEF OwnInv
<1>3. ASSUME /\ UNCHANGED <<txs, pc, job>>
             /\ bal'[head'] = own'[Residual] + Others'
             /\ \A s \in 0 .. head' : bal'[s] >= 0 /\ outside'[s] <= outside'[head']
      PROVE  OwnInv'
  BY <1>1, <1>3 DEF OwnInv
<1>4. CASE UNCHANGED vars
  BY <1>1, <1>2, <1>4 DEF vars, chain, history
<1>5. ASSUME NEW p \in Profiles, Quiet(p)
      PROVE  OwnInv'
  <2>1. /\ UNCHANGED <<head, bal, own, outside, txs>>
        /\ \A q \in Profiles \ {p} : pc'[q] = pc[q] /\ job'[q] = job[q]
    BY <1>5, QuietUnmoved DEF Unmoved
  <2>2. pc'[p] \in Sizing => job'[p].delta \in Amounts
    <3>1. {"waiting", "locked"} \subseteq Sizing
      BY DEF Sizing
    <3> QED
      BY <1>1, <1>5, <3>1, QuietSizing, SizeFacts
  <2>3. \A q \in Profiles : pc'[q] \in Sizing => job'[q].delta \in Amounts
    BY <1>1, <2>1, <2>2
  <2> QED
    BY <1>1, <1>2, <2>1, <2>3
<1>6. ASSUME NEW p \in Profiles, Prepare(p)
      PROVE  OwnInv'
  <2>1. /\ UNCHANGED <<head, bal, own, outside, txs, job>>
        /\ pc[p] \in Sizing
        /\ \A q \in Profiles \ {p} : pc'[q] = pc[q]
    BY <1>6, PrepareFacts, SMTT(60) DEF Sizing, TypeOK
  <2>2. \A q \in Profiles : pc'[q] \in Sizing => job'[q].delta \in Amounts
    BY <1>1, <2>1
  <2> QED
    BY <1>1, <1>2, <2>1, <2>2
<1>7. ASSUME NEW p \in Profiles, Send(p)
      PROVE  OwnInv'
  <2>1. /\ UNCHANGED <<head, bal, own, outside>>
        /\ pc[p] = "prepared" /\ pc' = [pc EXCEPT ![p] = "sent"]
        /\ txs'[sent + 1] = [by |-> p, delta |-> job[p].delta, state |-> "flying", slot |-> 0]
        /\ \A i \in Txs \ {sent + 1} : txs'[i] = txs[i]
        /\ \A q \in Profiles \ {p} : job'[q] = job[q]
    BY <1>7, SendFacts
  <2>2. \A q \in Profiles : pc'[q] \in Sizing => job'[q].delta \in Amounts
    <3>1. pc'[p] \notin Sizing /\ \A q \in Profiles \ {p} : pc'[q] = pc[q]
      BY <2>1 DEF TypeOK, Sizing
    <3> QED
      BY <1>1, <2>1, <3>1
  <2>3. job[p].delta \in Amounts
    BY <1>1, <2>1 DEF Sizing
  <2>4. \A i \in Txs : txs'[i].state = "flying" => txs'[i].by \in Profiles /\ txs'[i].delta \in Amounts
    BY <1>1, <2>1, <2>3
  <2> QED
    BY <1>2, <2>1, <2>2, <2>4
<1>8. ASSUME NEW p \in Profiles, Books(p)
      PROVE  OwnInv'
  <2>1. /\ UNCHANGED <<head, bal, own, outside, txs>>
        /\ pc[p] \in {"locked", "returned"}
        /\ \/ pc' = [pc EXCEPT ![p] = "clear"] /\ UNCHANGED <<view, job>> /\ SettleEarlier(p)
           \/ Forget(p)
    BY <1>8, BooksFacts DEF Books, SettleEarlier, SettleOwn, GoTo
  <2>2. \A q \in Profiles \ {p} : pc'[q] = pc[q] /\ job'[q] = job[q]
    BY <2>1 DEF Forget, TypeOK
  <2>3. pc'[p] \in Sizing => pc[p] \in Sizing /\ job'[p] = job[p]
    BY <2>1 DEF Forget, TypeOK, Sizing, SettleEarlier, GoTo
  <2>4. \A q \in Profiles : pc'[q] \in Sizing => job'[q].delta \in Amounts
    BY <1>1, <2>2, <2>3
  <2> QED
    BY <1>1, <1>2, <2>1, <2>4
<1>9. ASSUME NEW p \in Profiles, Loses(p)
      PROVE  OwnInv'
  <2>1. /\ UNCHANGED <<head, bal, own, outside, txs>>
        /\ \A q \in Profiles \ {p} : pc'[q] = pc[q] /\ job'[q] = job[q]
        /\ pc'[p] \in {"idle", "returned"}
    BY <1>9 DEF Loses, ReturnNothing, Crash, Forget, GoTo, chain, TypeOK
  <2>2. \A q \in Profiles : pc'[q] \in Sizing => job'[q].delta \in Amounts
    BY <1>1, <2>1 DEF Sizing
  <2> QED
    BY <1>1, <1>2, <2>1, <2>2
<1>10. ASSUME NEW i \in Txs, Land(i)
       PROVE  OwnInv'
  <2>1. /\ txs[i].state = "flying" /\ txs[i].delta \in Int
        /\ Advance(txs[i].delta, 0)
        /\ own' = [own EXCEPT ![txs[i].by] = @ + txs[i].delta]
        /\ UNCHANGED <<pc, job>>
        /\ txs'[i].state = "landed"
        /\ \A j \in Txs \ {i} : txs'[j] = txs[j]
    BY <1>10, LandFacts
  <2>2. /\ bal'[head'] = bal[head] + txs[i].delta
        /\ \A s \in 0 .. head' : bal'[s] >= 0 /\ outside'[s] <= outside'[head']
    BY <1>1, <2>1, AdvanceFacts
  <2>3. txs[i].by \in Profiles
    BY <1>1, <2>1
  <2>4. own[Residual] \in Int /\ Others \in Int
    BY OthersTyped, ProfilesAssumption
  <2>5. bal'[head'] = own'[Residual] + Others'
    <3>1. CASE txs[i].by = Residual
      <4>1. own'[Residual] = own[Residual] + txs[i].delta /\ \A q \in Claimers : own'[q] = own[q]
        BY <2>1, <3>1, ProfilesAssumption DEF TypeOK
      <4>2. Others' = Others
        BY <4>1, OthersSame
      <4> QED
        BY <1>1, <2>1, <2>2, <2>4, <4>1, <4>2
    <3>2. CASE txs[i].by # Residual
      <4>1. txs[i].by \in Claimers /\ own'[Residual] = own[Residual]
        BY <2>1, <2>3, <3>2, ProfilesAssumption DEF TypeOK
      <4>2. Others' = Others + txs[i].delta
        BY <2>1, <4>1, OthersMove
      <4> QED
        BY <1>1, <2>1, <2>2, <2>4, <4>1, <4>2
    <3> QED
      BY <3>1, <3>2
  <2>6. /\ \A j \in Txs : txs'[j].state = "flying" => txs'[j].by \in Profiles /\ txs'[j].delta \in Amounts
    BY <1>1, <2>1
  <2> QED
    BY <1>1, <2>1, <2>2, <2>5, <2>6 DEF OwnInv
<1>11. ASSUME NEW i \in Txs, FailOnChain(i) \/ Expire(i)
       PROVE  OwnInv'
  <2>1. /\ UNCHANGED <<head, bal, own, outside, pc, job>>
        /\ txs'[i].state \in {"failed", "dead"}
        /\ \A k \in Txs \ {i} : txs'[k] = txs[k]
    BY <1>11, DeadFacts
  <2> QED
    BY <1>1, <1>2, <2>1
<1>12. CASE Age
  <2>1. UNCHANGED <<head, bal, txs, own, outside, pc, job>>
    BY <1>12 DEF Age
  <2> QED
    BY <1>1, <1>2, <2>1
<1>13. ASSUME NEW d \in Donations, Donate(d)
       PROVE  OwnInv'
  <2>1. /\ Advance(d, d) /\ d \in Nat /\ d \in Int
        /\ own' = [own EXCEPT ![Residual] = @ + d]
        /\ UNCHANGED <<txs, pc, job>>
    BY <1>13, AmountsAssumption DEF Donate
  <2>2. /\ bal'[head'] = bal[head] + d
        /\ \A s \in 0 .. head' : bal'[s] >= 0 /\ outside'[s] <= outside'[head']
    BY <1>1, <2>1, AdvanceFacts
  <2>3. own'[Residual] = own[Residual] + d /\ \A q \in Claimers : own'[q] = own[q]
    BY <2>1, ProfilesAssumption DEF TypeOK
  <2>4. Others' = Others /\ own[Residual] \in Int /\ Others \in Int
    BY <2>3, OthersSame, OthersTyped, ProfilesAssumption
  <2> QED
    BY <1>1, <1>3, <2>1, <2>2, <2>3, <2>4
<1> QED
  BY <1>4, <1>5, <1>6, <1>7, <1>8, <1>9, <1>10, <1>11, <1>12, <1>13, Kinds

-----------------------------------------------------------------------------
(* What the balances cover.                                                *)

\* A stray is never undone.
LEMMA StraysGrow ==
  ASSUME TypeOK, ClaimsInv, [Next]_vars
  PROVE  strays \subseteq strays' /\ (Accountable' => Accountable) /\ (Covered' => Covered /\ Accountable')
<1>1. UNCHANGED vars => strays \subseteq strays'
  BY DEF vars, history
<1>2. ASSUME NEW p \in Profiles, Quiet(p) \/ Prepare(p) \/ Send(p) \/ Books(p) \/ Loses(p)
      PROVE  strays \subseteq strays'
  <2>1. Loses(p) => strays \subseteq strays'
    BY DEF Loses, ReturnNothing, Crash
  <2> QED
    BY <1>2, <2>1, QuietUnmoved, PrepareFacts, SendFacts, BooksFacts DEF Unmoved
<1>3. ASSUME NEW i \in Txs, Land(i) \/ FailOnChain(i) \/ Expire(i)
      PROVE  strays \subseteq strays'
  BY <1>3, LandFacts, DeadFacts
<1>4. Age \/ (\E d \in Donations : Donate(d)) => strays \subseteq strays'
  BY DEF Age, Donate
<1>5. strays \subseteq strays'
  BY <1>1, <1>2, <1>3, <1>4, Kinds
<1> QED
  BY <1>5 DEF Accountable, Covered

\* The pending write's step is an integer, 0 where none landed.
LEMMA StepTyped ==
  ASSUME TypeOK, ClaimsInv
  PROVE  /\ \A s : Step(s) \in Int /\ OthersStep(s) \in Int
         /\ \A s \in Int : Landed(Outstanding) /\ s >= txs[Outstanding].slot => Step(s) = 0 /\ OthersStep(s) = 0
         /\ ~Landed(Outstanding) => \A s : Step(s) = 0 /\ OthersStep(s) = 0
<1>1. Landed(Outstanding) => txs[Outstanding].slot \in 0 .. head /\ txs[Outstanding].delta \in Int
  BY OutstandingTyped, LandedTyped
<1>2. \A s : Step(s) \in Int
  BY <1>1 DEF Step
<1>3. \A s \in Int : Landed(Outstanding) /\ s >= txs[Outstanding].slot => Step(s) = 0
  BY <1>1 DEF Step
<1>4. ~Landed(Outstanding) => \A s : Step(s) = 0
  BY DEF Step
<1> QED
  BY <1>2, <1>3, <1>4 DEF OthersStep

\* Balances are integers.
LEMMA BalTyped ==
  ASSUME TypeOK, NEW s \in 0 .. head
  PROVE  bal[s] \in Int /\ outside[s] \in Int
<1>1. s \in Slots
  BY BoundsAssumption DEF TypeOK
<1> QED
  BY <1>1 DEF TypeOK

\* A booking of covered writes overdraws no claim.
LEMMA BooksCover ==
  ASSUME TypeOK, ClaimsInv, NEW p \in Profiles, Books(p), Accountable',
         Solvent, \A q \in Claimers : overdrawn[q] = 0
  PROVE  \A q \in Claimers : overdrawn'[q] = 0
<1>1. /\ Book
      /\ UNCHANGED <<head, floor, bal, txs, own, outside>>
      /\ pending.by \in Profiles
      /\ \A q \in Profiles : pc[q] # "sent"
  BY BooksFacts
<1>2. pending # NoWrite
  BY <1>1, ProfilesAssumption DEF NoWrite
<1>3. \A q \in Claimers : claims'[q] = own[q] + overdrawn'[q]
  BY <1>1, <1>2, BookLevels
<1>4. PICK at \in ReportedSlots :
        IF pending.by = Residual THEN BookNothing(Need(at))
        ELSE \E s \in Larger(Need(at), floor) .. head : BookAt(s)
  BY <1>1 DEF Book
<1>5. CASE pending.by = Residual
  BY <1>4, <1>5 DEF BookNothing
<1>6. CASE pending.by # Residual
  <2>1. PICK s \in Larger(Need(at), floor) .. head : BookAt(s)
    BY <1>4, <1>6
  <2>2. Need(at) \in 0 .. head
    BY ReportedType
  <2>3. s \in 0 .. head
    BY <2>1, <2>2, LowTyped DEF Larger
  <2> DEFINE moved == bal[s] - pending.before
             new == ClaimAfter(claims[pending.by], moved)
  <2>4. moved \in Int /\ claims[pending.by] \in Int
    <3>1. pending.before \in Int
      BY PendingType
    <3>2. claims[pending.by] \in Int
      BY <1>1 DEF TypeOK
    <3> QED
      BY <2>3, <3>1, <3>2, BalTyped
  <2>5. /\ claims' = [claims EXCEPT ![pending.by] = new]
        /\ overdrawn' = [overdrawn EXCEPT ![pending.by] = @ + new - (claims[pending.by] + moved)]
    BY <2>1 DEF BookAt
  <2>6. \/ new = claims[pending.by] + moved
        \/ new = 0 /\ claims[pending.by] + moved < 0
    BY <2>4 DEF ClaimAfter
  <2> HIDE DEF new, moved
  <2>7. /\ claims'[pending.by] = new
        /\ overdrawn'[pending.by] = overdrawn[pending.by] + new - (claims[pending.by] + moved)
        /\ \A q \in Claimers \ {pending.by} : overdrawn'[q] = overdrawn[q]
    BY <1>1, <2>5 DEF TypeOK
  <2>8. /\ own[pending.by] >= 0 /\ own[pending.by] \in Int /\ overdrawn[pending.by] = 0
        /\ claims'[pending.by] = own[pending.by] + overdrawn'[pending.by]
    BY <1>1, <1>3, <1>6, OthersTyped DEF Solvent
  <2>9. overdrawn'[pending.by] = 0
    BY <2>4, <2>6, <2>7, <2>8
  <2> QED
    BY <2>7, <2>9
<1> QED
  BY <1>5, <1>6

\* At first every balance covers the claims.
LEMMA InitCovered == Init => CoverInv
<1> SUFFICES ASSUME Init PROVE CoverInv
  OBVIOUS
<1>1. TypeOK /\ OwnInv /\ ClaimsInv
  BY InitTyped, InitOwn, InitClaims
<1>2. own = InitFunds /\ head = 0 /\ Low = 0
  BY DEF Init, Low, Larger
<1>3. Solvent
  BY <1>2, AmountsAssumption DEF Solvent
<1>4. \A p \in Claimers : overdrawn[p] = 0
  BY DEF Init
<1>5. pending.by = NoOne /\ NoOne \notin Profiles
  BY ProfilesAssumption DEF Init, NoWrite
<1>6. \A s : OthersStep(s) = 0
  BY <1>5 DEF OthersStep
<1>7. bal[0] = own[Residual] + Others /\ own[Residual] \in Int /\ own[Residual] >= 0 /\ Others \in Int
  BY <1>1, <1>2, <1>3, OthersTyped, ProfilesAssumption DEF OwnInv, Solvent
<1> QED
  BY <1>2, <1>3, <1>4, <1>6, <1>7 DEF CoverInv

\* It does after each step.
LEMMA CoverNext ==
  ASSUME TypeOK, ClaimsInv, OwnInv, Covered => CoverInv, [Next]_vars,
         TypeOK', ClaimsInv', OwnInv', Covered'
  PROVE  CoverInv'
<1>1. /\ Covered /\ Accountable /\ Accountable'
      /\ Solvent
      /\ \A p \in Claimers : overdrawn[p] = 0
      /\ \A s \in Low .. head : bal[s] >= Others - OthersStep(s)
  BY StraysGrow DEF CoverInv, Covered
<1>2. /\ Low \in 0 .. head /\ Low >= settled /\ Low >= floor
      /\ head \in Nat /\ settled \in 0 .. head /\ floor \in 0 .. head
  BY LowTyped
<1>3. /\ \A s : Step(s) \in Int /\ OthersStep(s) \in Int
      /\ ~Landed(Outstanding) => \A s : Step(s) = 0 /\ OthersStep(s) = 0
  BY StepTyped
<1>4. ASSUME /\ UNCHANGED <<head, floor, bal, settled, own, overdrawn>>
             /\ \A s : OthersStep(s)' = OthersStep(s)
      PROVE  CoverInv'
  <2>1. Low' = Low /\ Others' = Others
    BY <1>4, OthersSame DEF Low
  <2> QED
    BY <1>1, <1>4, <2>1 DEF CoverInv, Solvent
<1>5. ASSUME Unmoved
      PROVE  CoverInv'
  <2>1. \A s : Step(s)' = Step(s)
    BY <1>5 DEF Unmoved, Step, Landed
  <2>2. \A s : OthersStep(s)' = OthersStep(s)
    BY <1>5, <2>1 DEF Unmoved, OthersStep
  <2> QED
    BY <1>4, <1>5, <2>2 DEF Unmoved
<1>6. CASE UNCHANGED vars
  BY <1>5, <1>6 DEF vars, chain, database, history, Unmoved, Outstanding
<1>7. ASSUME NEW p \in Profiles, Quiet(p)
      PROVE  CoverInv'
  BY <1>5, <1>7, QuietUnmoved
<1>8. ASSUME NEW p \in Profiles, Prepare(p)
      PROVE  CoverInv'
  <2>1. /\ UNCHANGED <<head, floor, bal, settled, own, overdrawn>>
        /\ Outstanding = 0 /\ Outstanding' = 0
    BY <1>8, PrepareFacts
  <2>2. \A s : OthersStep(s)' = 0 /\ OthersStep(s) = 0
    BY <2>1 DEF OthersStep, Step, Landed
  <2> QED
    BY <1>4, <2>1, <2>2
<1>9. ASSUME NEW p \in Profiles, Send(p)
      PROVE  CoverInv'
  <2>1. /\ UNCHANGED <<head, floor, bal, settled, own, overdrawn>>
        /\ Outstanding = 0 /\ Outstanding' = sent + 1
        /\ txs'[sent + 1] = [by |-> p, delta |-> job[p].delta, state |-> "flying", slot |-> 0]
    BY <1>9, SendFacts
  <2>2. \A s : OthersStep(s)' = 0 /\ OthersStep(s) = 0
    BY <2>1 DEF OthersStep, Step, Landed
  <2> QED
    BY <1>4, <2>1, <2>2
<1>10. ASSUME NEW p \in Profiles, Books(p)
       PROVE  CoverInv'
  <2>1. /\ UNCHANGED <<head, floor, bal, txs, own>>
        /\ pending'.by = NoOne
        /\ settled' \in 0 .. head /\ settled' >= settled
        /\ Landed(Outstanding) /\ Accountable => txs[Outstanding].slot <= Low'
    BY <1>10, BooksFacts
  <2>2. Low' \in 0 .. head /\ Low' >= Low
    BY <1>2, <2>1 DEF Low, Larger
  <2>3. Others' = Others /\ Others \in Int
    BY <2>1, OthersSame, OthersTyped
  <2>4. \A s : OthersStep(s)' = 0
    BY <2>1, ProfilesAssumption DEF OthersStep
  <2>5. ASSUME NEW s \in Low' .. head
        PROVE  bal[s] >= Others
    <3>1. s \in Low .. head /\ s \in Int /\ s >= Low'
      BY <1>2, <2>2
    <3>2. Landed(Outstanding) => txs[Outstanding].slot \in Int
      BY OutstandingTyped, LandedTyped
    <3>3. Landed(Outstanding) => s >= txs[Outstanding].slot
      BY <1>1, <2>1, <2>2, <3>1, <3>2
    <3>4. OthersStep(s) = 0
      BY <3>1, <3>3, StepTyped
    <3> QED
      BY <1>1, <2>3, <3>1, <3>4
  <2>6. \A q \in Claimers : overdrawn'[q] = 0
    BY <1>1, <1>10, BooksCover
  <2>7. \A s \in Low' .. head : Others - 0 = Others
    BY <2>3
  <2> QED
    BY <1>1, <2>1, <2>3, <2>4, <2>5, <2>6, <2>7 DEF CoverInv, Solvent
<1>11. ASSUME NEW p \in Profiles, Loses(p)
       PROVE  FALSE
  <2>1. "lost signature" \in strays'
    BY <1>11 DEF Loses, ReturnNothing, Crash
  <2> QED
    BY <1>1, <2>1 DEF Accountable
<1>12. ASSUME NEW i \in Txs, Land(i)
       PROVE  CoverInv'
  <2>1. /\ txs[i].state = "flying" /\ txs[i].delta \in Int
        /\ Advance(txs[i].delta, 0)
        /\ own' = [own EXCEPT ![txs[i].by] = @ + txs[i].delta]
        /\ UNCHANGED <<floor, settled, pending, overdrawn>>
        /\ own'[txs[i].by] < 0 => "overspent" \in strays'
        /\ head' = head + 1
        /\ txs'[i].state = "landed" /\ txs'[i].slot = head + 1
        /\ txs'[i].delta = txs[i].delta
        /\ Outstanding' = Outstanding
        /\ i = Outstanding /\ pending.by = txs[i].by
    BY <1>1, <1>12, LandFacts
  <2>2. txs[i].by \in Profiles
    BY <2>1 DEF OwnInv
  <2>3. \A q \in Profiles : own'[q] \in Int
    BY OthersTyped DEF TypeOK
  <2>4. Solvent'
    <3>1. own'[txs[i].by] >= 0
      BY <1>1, <2>1, <2>2, <2>3 DEF Covered
    <3>2. \A q \in Profiles \ {txs[i].by} : own'[q] = own[q]
      BY <2>1 DEF TypeOK
    <3> QED
      BY <1>1, <3>1, <3>2 DEF Solvent
  <2>5. Low' = Low
    BY <2>1 DEF Low
  <2>6. /\ ~Landed(Outstanding)
        /\ \A s \in 0 .. head : Step(s)' = txs[i].delta
        /\ \A s : s = head + 1 => Step(s)' = 0
    BY <1>2, <2>1, NoTxIsNone DEF Landed, Step
  <2>7. \A s \in 0 .. head : bal'[s] = bal[s]
    BY <2>1, AdvanceKeeps
  <2>8. Others \in Int /\ Others' \in Int
    <3>1. IsFiniteSet(Claimers) /\ Others \in Int
      BY OthersTyped
    <3>2. SumFunctionOnSet(own', Claimers) \in Int
      BY <2>3, <3>1, SumInt
    <3> QED
      BY <3>1, <3>2 DEF Others
  <2>9. \A s \in 0 .. head : Others' - OthersStep(s)' = Others
    <3>1. CASE txs[i].by = Residual
      <4>1. \A q \in Claimers : own'[q] = own[q]
        BY <2>1, <3>1 DEF TypeOK
      <4>2. Others' = Others
        BY <4>1, OthersSame
      <4>3. \A s : OthersStep(s)' = 0
        BY <2>1, <3>1 DEF OthersStep
      <4> QED
        BY <2>8, <4>2, <4>3
    <3>2. CASE txs[i].by # Residual
      <4>1. pending'.by \in Claimers /\ txs[i].by \in Claimers
        BY <2>1, <2>2, <3>2
      <4>2. Others' = Others + txs[i].delta
        BY <2>1, <4>1, OthersMove
      <4>3. \A s \in 0 .. head : OthersStep(s)' = txs[i].delta
        BY <2>6, <4>1 DEF OthersStep
      <4> QED
        BY <2>1, <2>8, <4>2, <4>3
    <3> QED
      BY <3>1, <3>2
  <2>10. ASSUME NEW s \in Low' .. head'
         PROVE  bal'[s] >= Others' - OthersStep(s)'
    <3>1. CASE s = head + 1
      <4>1. bal'[s] = own'[Residual] + Others' /\ own'[Residual] >= 0 /\ own'[Residual] \in Int
        BY <2>1, <2>3, <2>4, <3>1, ProfilesAssumption DEF OwnInv, Solvent
      <4>2. OthersStep(s)' = 0
        BY <2>6, <3>1 DEF OthersStep
      <4> QED
        BY <2>8, <4>1, <4>2
    <3>2. CASE s # head + 1
      <4>1. s \in Low .. head /\ s \in 0 .. head
        BY <1>2, <2>1, <2>5, <3>2
      <4>2. bal[s] >= Others
        BY <1>1, <1>3, <2>6, <2>8, <4>1
      <4> QED
        BY <2>7, <2>9, <4>1, <4>2
    <3> QED
      BY <3>1, <3>2
  <2> QED
    BY <1>1, <2>1, <2>4, <2>10 DEF CoverInv
<1>13. ASSUME NEW i \in Txs, FailOnChain(i) \/ Expire(i)
       PROVE  CoverInv'
  <2>1. /\ UNCHANGED <<head, floor, bal, settled, pending, own, overdrawn>>
        /\ txs[i].state = "flying" /\ txs'[i].state \in {"failed", "dead"}
        /\ \A k \in Txs \ {i} : txs'[k] = txs[k]
        /\ Outstanding' = Outstanding
    BY <1>13, DeadFacts
  <2>2. /\ Landed(Outstanding)' <=> Landed(Outstanding)
        /\ Landed(Outstanding) => txs'[Outstanding] = txs[Outstanding]
    BY <2>1, OutstandingTyped DEF Landed
  <2>3. \A s : Step(s)' = Step(s)
    BY <2>1, <2>2 DEF Step
  <2>4. \A s : OthersStep(s)' = OthersStep(s)
    BY <2>1, <2>3 DEF OthersStep
  <2> QED
    BY <1>4, <2>1, <2>4
<1>14. CASE Age
  <2>1. floor' \in floor .. head /\ UNCHANGED <<head, bal, txs, settled, pending, overdrawn, own, pc, job>>
    BY <1>14 DEF Age
  <2>2. Outstanding' = Outstanding /\ Others' = Others
    BY <2>1, OthersSame DEF Outstanding
  <2>3. Low' \in 0 .. head /\ Low' >= Low
    BY <1>2, <2>1 DEF Low, Larger
  <2>4. \A s : OthersStep(s)' = OthersStep(s)
    BY <2>1, <2>2 DEF OthersStep, Step, Landed
  <2>5. \A s \in Low' .. head : s \in Low .. head
    BY <1>2, <2>3
  <2> QED
    BY <1>1, <2>1, <2>2, <2>4, <2>5 DEF CoverInv, Solvent
<1>15. ASSUME NEW d \in Donations, Donate(d)
       PROVE  CoverInv'
  <2>1. /\ Advance(d, d) /\ d \in Nat /\ d \in Int
        /\ own' = [own EXCEPT ![Residual] = @ + d]
        /\ UNCHANGED <<floor, txs, settled, pending, overdrawn, pc, job>>
    BY <1>15, AmountsAssumption DEF Donate, database
  <2>2. Outstanding' = Outstanding /\ Low' = Low
    BY <2>1 DEF Outstanding, Low
  <2>3. head' = head + 1 /\ \A s \in 0 .. head : bal'[s] = bal[s]
    BY <2>1, AdvanceKeeps
  <2>4. own'[Residual] = own[Residual] + d /\ \A q \in Claimers : own'[q] = own[q]
    BY <2>1, ProfilesAssumption DEF TypeOK
  <2>5. Others' = Others /\ Others \in Int
    BY <2>4, OthersSame, OthersTyped
  <2>6. own'[Residual] \in Int /\ own'[Residual] >= 0
    BY <1>1, <2>1, <2>4, OthersTyped, ProfilesAssumption DEF Solvent
  <2>7. Solvent'
    BY <1>1, <2>4, <2>6 DEF Solvent
  <2>8. \A s : OthersStep(s)' = OthersStep(s)
    BY <2>1, <2>2 DEF OthersStep, Step, Landed
  <2>9. ASSUME NEW s \in Low' .. head'
        PROVE  bal'[s] >= Others' - OthersStep(s)'
    <3>1. CASE s = head + 1
      <4>1. bal'[s] = own'[Residual] + Others'
        BY <2>3, <3>1 DEF OwnInv
      <4>2. Landed(Outstanding) => txs[Outstanding].slot \in 0 .. head
        BY OutstandingTyped, LandedTyped
      <4>3. OthersStep(s) = 0
        BY <1>2, <3>1, <4>2, StepTyped
      <4> QED
        BY <2>5, <2>6, <2>8, <4>1, <4>3
    <3>2. CASE s # head + 1
      <4>1. s \in Low .. head /\ s \in 0 .. head
        BY <1>2, <2>2, <2>3, <3>2
      <4> QED
        BY <1>1, <2>3, <2>5, <2>8, <4>1
    <3> QED
      BY <3>1, <3>2
  <2> QED
    BY <1>1, <2>1, <2>7, <2>9 DEF CoverInv
<1> QED
  BY <1>6, <1>7, <1>8, <1>9, <1>10, <1>11, <1>12, <1>13, <1>14, <1>15, Kinds

-----------------------------------------------------------------------------
(* What a read shows.                                                      *)

View == [mark : Int, slot : 0 .. head, amount : Int, known : BOOLEAN, fresh : BOOLEAN]
ViewsTyped == view \in [Profiles -> View]

\* What the claimers want is the sum of their claims.
LEMMA WantedIs ==
  ASSUME TypeOK
  PROVE  /\ Wanted(Residual, claims) = SumFunctionOnSet(claims, Claimers)
         /\ Wanted(Residual, claims) \in Nat
         /\ DOMAIN claims = Profiles
<1>1. DOMAIN claims = Profiles /\ \A q \in Claimers : claims[q] \in Nat
  BY DEF TypeOK
<1>2. SumFunctionOnSet(claims, Claimers) \in Nat
  BY <1>1, OthersTyped, SumNat
<1> QED
  BY <1>1, <1>2 DEF Wanted

\* Every profile's share is an integer: what is scaled down is more than the
\* wallet holds, and not nothing.
LEMMA SplitTyped ==
  ASSUME TypeOK, NEW total \in Nat, NEW p \in Profiles
  PROVE  Split(total, Residual, claims)[p] \in Int
<1> DEFINE want == Wanted(Residual, claims)
<1>1. want \in Nat /\ DOMAIN claims = Profiles
  BY WantedIs
<1>2. claims[p] \in Nat
  BY DEF TypeOK
<1>3. claims[p] * total \in Int
  BY <1>2
<1>4. want > total => (claims[p] * total) \div want \in Int
  <2> DEFINE x == claims[p] * total
  <2>1. ASSUME NEW y \in Int, NEW w \in Nat, w > 0 PROVE y \div w \in Int
    BY <2>1
  <2>2. want > total => want > 0
    BY <1>1
  <2> HIDE DEF want, x
  <2> QED
    BY <1>1, <1>3, <2>1, <2>2 DEF x
<1>5. Split(total, Residual, claims)[p] =
        IF p = Residual THEN (IF want <= total THEN total - want ELSE 0)
        ELSE IF want <= total THEN claims[p] ELSE (claims[p] * total) \div want
  BY <1>1 DEF Split
<1> HIDE DEF want
<1> QED
  BY <1>1, <1>2, <1>4, <1>5

\* A process that looks at the wallet moves nothing but its own record.
LEMMA LookFacts ==
  ASSUME TypeOK, ViewsTyped, NEW p \in Profiles
  PROVE  /\ MarkBefore(p) => pc'[p] = "marked" /\ view'[p] = [view[p] EXCEPT !.mark = Mark]
         /\ ReadBalance(p) => /\ pc[p] = "marked" /\ pc'[p] = "read"
                              /\ \E s \in floor .. head : view'[p] = [view[p] EXCEPT !.slot = s]
         /\ ReadClaims(p) =>
              /\ pc[p] = "read" /\ pc'[p] = "claimed"
              /\ view'[p] = [view[p] EXCEPT !.amount = Split(bal[view[p].slot], Residual, claims)[p]]
         /\ MarkAfter(p) =>
              /\ pc[p] = "claimed" /\ pc'[p] = "viewed"
              /\ view'[p] = [view[p] EXCEPT !.known = Agrees(view[p].mark),
                                            !.fresh = view[p].slot >= view[p].mark,
                                            !.mark = Unsettled]
         /\ Look(p) => /\ UNCHANGED <<chain, lock, database, job, history>>
                       /\ \A q \in Profiles \ {p} : view'[q] = view[q] /\ pc'[q] = pc[q]
<1>1. MarkBefore(p) => pc'[p] = "marked" /\ view'[p] = [view[p] EXCEPT !.mark = Mark]
  BY DEF MarkBefore, GoTo, TypeOK, ViewsTyped
<1>2. ReadBalance(p) => /\ pc[p] = "marked" /\ pc'[p] = "read"
                        /\ \E s \in floor .. head : view'[p] = [view[p] EXCEPT !.slot = s]
  BY DEF ReadBalance, GoTo, TypeOK, ViewsTyped
<1>3. ReadClaims(p) =>
        /\ pc[p] = "read" /\ pc'[p] = "claimed"
        /\ view'[p] = [view[p] EXCEPT !.amount = Split(bal[view[p].slot], Residual, claims)[p]]
  BY DEF ReadClaims, GoTo, TypeOK, ViewsTyped
<1>4. MarkAfter(p) =>
        /\ pc[p] = "claimed" /\ pc'[p] = "viewed"
        /\ view'[p] = [view[p] EXCEPT !.known = Agrees(view[p].mark),
                                      !.fresh = view[p].slot >= view[p].mark,
                                      !.mark = Unsettled]
  BY DEF MarkAfter, GoTo, TypeOK, ViewsTyped
<1>5. Look(p) => /\ UNCHANGED <<chain, lock, database, job, history>>
                 /\ \A q \in Profiles \ {p} : view'[q] = view[q] /\ pc'[q] = pc[q]
  BY DEF Look, MarkBefore, ReadBalance, ReadClaims, MarkAfter, GoTo, TypeOK, ViewsTyped
<1> QED
  BY <1>1, <1>2, <1>3, <1>4, <1>5

\* Every other step leaves the reads in progress, or ends its own process's.
LEMMA OtherReads ==
  ASSUME TypeOK, ViewsTyped, NEW p \in Profiles,
         Quiet(p) \/ Prepare(p) \/ Send(p) \/ Books(p) \/ Loses(p), ~Look(p)
  PROVE  /\ view' = view \/ view' = [view EXCEPT ![p] = NoView]
         /\ \A q \in Profiles \ {p} : view'[q] = view[q] /\ pc'[q] = pc[q]
         /\ pc'[p] \notin Looking \cup {"viewed"}
<1>1. view' = view \/ view' = [view EXCEPT ![p] = NoView]
  BY DEF Quiet, Size, Rest, LockTimeout, TakeLock, Refuse, SendNothing, Return, LeavePending, SettleEarlier,
         Crash, Prepare, Send, Books, SettleOwn, Loses, ReturnNothing, Forget
<1>2. PICK to \in States \ (Looking \cup {"viewed"}) : pc' = [pc EXCEPT ![p] = to]
  BY DEF Quiet, Size, Rest, LockTimeout, TakeLock, Refuse, SendNothing, Return, LeavePending, SettleEarlier,
         Crash, Prepare, Send, Books, SettleOwn, Loses, ReturnNothing, Forget, GoTo, States, Looking
<1> QED
  BY <1>1, <1>2 DEF TypeOK, ViewsTyped

\* At first nothing is read.
LEMMA InitViews == Init => ViewsTyped /\ \A p \in Profiles : ViewInv(p)
<1> SUFFICES ASSUME Init PROVE ViewsTyped /\ \A p \in Profiles : ViewInv(p)
  OBVIOUS
<1>1. NoView \in View
  BY DEF NoView, View, Unsettled, Init
<1>2. ViewsTyped
  BY <1>1 DEF Init, ViewsTyped
<1>3. \A p \in Profiles : pc[p] = "idle"
  BY DEF Init
<1>4. \A p \in Profiles : pc[p] \notin Looking /\ pc[p] \notin {"read", "claimed", "viewed"}
  BY <1>3 DEF Looking
<1>5. \A p \in Profiles : ViewInv(p)
  BY <1>4 DEF ViewInv
<1> QED
  BY <1>2, <1>5

\* Reads stay well typed.
LEMMA ViewsTypedNext ==
  ASSUME TypeOK, ClaimsInv, OwnInv, ViewsTyped, [Next]_vars
  PROVE  ViewsTyped'
<1>1. head \in Nat /\ floor \in 0 .. head
  BY LowTyped
<1>2. View' = [mark : Int, slot : 0 .. head', amount : Int, known : BOOLEAN, fresh : BOOLEAN]
  BY DEF View
<1>3. NoView \in View
  BY <1>1 DEF NoView, View, Unsettled
<1>4. UNCHANGED <<head, view>> => ViewsTyped'
  BY DEF ViewsTyped, View
<1>5. UNCHANGED vars => ViewsTyped'
  BY <1>4 DEF vars, chain
<1>6. ASSUME NEW p \in Profiles, Quiet(p) \/ Prepare(p) \/ Send(p) \/ Books(p) \/ Loses(p)
      PROVE  ViewsTyped'
  <2>1. head' = head
    <3>1. Loses(p) => head' = head
      BY DEF Loses, ReturnNothing, Crash, chain
    <3> QED
      BY <1>6, <3>1, QuietUnmoved, PrepareFacts, SendFacts, BooksFacts DEF Unmoved
  <2>2. View' = View
    BY <2>1 DEF View
  <2>3. CASE ~Look(p)
    BY <1>3, <1>6, <2>2, <2>3, OtherReads DEF ViewsTyped
  <2>4. CASE Look(p)
    <3>1. view[p] \in View /\ view[p].slot \in 0 .. head /\ view[p].mark \in Int
      BY DEF ViewsTyped, View
    <3>2. CASE MarkBefore(p)
      <4>1. Mark \in Int
        BY <1>1, LowTyped DEF Mark, Unsettled
      <4>2. [view[p] EXCEPT !.mark = Mark] \in View
        BY <3>1, <4>1 DEF View
      <4> QED
        BY <2>2, <3>2, <4>2 DEF MarkBefore, ViewsTyped
    <3>3. CASE ReadBalance(p)
      <4>1. PICK s \in floor .. head : view' = [view EXCEPT ![p].slot = s]
        BY <3>3 DEF ReadBalance
      <4>2. s \in 0 .. head
        BY <1>1
      <4>3. [view[p] EXCEPT !.slot = s] \in View
        BY <3>1, <4>2 DEF View
      <4> QED
        BY <2>2, <4>1, <4>3 DEF ViewsTyped
    <3>4. CASE ReadClaims(p)
      <4>1. bal[view[p].slot] \in Nat
        BY <3>1, BalTyped DEF OwnInv
      <4>2. Split(bal[view[p].slot], Residual, claims)[p] \in Int
        BY <4>1, SplitTyped
      <4>3. [view[p] EXCEPT !.amount = Split(bal[view[p].slot], Residual, claims)[p]] \in View
        BY <3>1, <4>2 DEF View
      <4> QED
        BY <2>2, <3>4, <4>3 DEF ReadClaims, ViewsTyped
    <3>5. CASE MarkAfter(p)
      <4>1. Agrees(view[p].mark) \in BOOLEAN /\ (view[p].slot >= view[p].mark) \in BOOLEAN /\ Unsettled \in Int
        BY DEF Agrees, Unsettled
      <4> DEFINE agrees == Agrees(view[p].mark)
                 fresh == view[p].slot >= view[p].mark
      <4>2. agrees \in BOOLEAN /\ fresh \in BOOLEAN
        BY <4>1
      <4>3. view' = [view EXCEPT ![p] = [view[p] EXCEPT !.known = agrees, !.fresh = fresh, !.mark = Unsettled]]
        BY <3>5 DEF MarkAfter, ViewsTyped
      <4> HIDE DEF agrees, fresh
      <4>4. [view[p] EXCEPT !.known = agrees, !.fresh = fresh, !.mark = Unsettled] \in View
        BY <3>1, <4>1, <4>2 DEF View
      <4> QED
        BY <2>2, <4>3, <4>4 DEF ViewsTyped
    <3> QED
      BY <2>4, <3>2, <3>3, <3>4, <3>5 DEF Look
  <2> QED
    BY <2>3, <2>4
<1>7. ASSUME \/ \E i \in Txs : Land(i) \/ FailOnChain(i) \/ Expire(i)
             \/ Age
             \/ \E d \in Donations : Donate(d)
      PROVE  ViewsTyped'
  <2>1. view' = view /\ (head' = head \/ head' = head + 1)
    BY <1>7 DEF Land, FailOnChain, Expire, Age, Donate, Advance
  <2>2. View \subseteq View'
    <3>1. 0 .. head \subseteq 0 .. head'
      BY <1>1, <2>1
    <3> QED
      BY <1>2, <3>1 DEF View
  <2> QED
    BY <2>1, <2>2 DEF ViewsTyped
<1> QED
  BY <1>5, <1>6, <1>7, Kinds

\* A read that stands while no claimer's landed write waits to be booked:
\* everybody else's claim is what its own transactions left it.
LEMMA ClaimsAreOwn ==
  ASSUME TypeOK, ClaimsInv, Covered, CoverInv, ~(pending.by \in Claimers /\ Landed(Outstanding))
  PROVE  /\ \A q \in Claimers : claims[q] = own[q]
         /\ Wanted(Residual, claims) = Others
<1>1. Exact /\ \A q \in Claimers : overdrawn[q] = 0
  BY DEF ClaimsInv, Covered, CoverInv
<1>2. \A q \in Claimers : claims[q] \in Int /\ own[q] \in Int
  BY DEF TypeOK
<1>3. ASSUME NEW q \in Claimers
      PROVE  claims[q] = own[q]
  <2>1. Unbooked(q) = 0
    BY DEF Unbooked
  <2>2. claims[q] + Unbooked(q) = own[q] + overdrawn[q]
    BY <1>1 DEF Exact
  <2> QED
    BY <1>1, <1>2, <2>1, <2>2
<1>4. SumFunctionOnSet(claims, Claimers) = SumFunctionOnSet(own, Claimers)
  BY <1>3, OthersTyped, SumSame
<1> QED
  BY <1>3, <1>4, WantedIs DEF Others

\* What p's read rests on while others move: the settled slot does not go
\* back, no write becomes p's, balances of the past stay, and while the
\* settled slot stands nobody's funds but the holder's have moved.
Undisturbed(p) ==
  /\ pc'[p] = pc[p] /\ view'[p] = view[p]
  /\ settled \in Int /\ settled' \in Int /\ settled' >= settled
  /\ pending.by # p => pending'.by # p
  /\ Covered' => Covered
  /\ \A s \in 0 .. head : bal'[s] = bal[s] /\ outside'[s] = outside[s]
  /\ settled' = settled /\ Covered' /\ ~(pending.by \in Claimers /\ Landed(Outstanding))'
       => ~(pending.by \in Claimers /\ Landed(Outstanding)) /\ Others' = Others
  /\ Covered' /\ pending.by # p =>
       own'[p] = own[p] + (IF p = Residual THEN outside'[head'] - outside[head] ELSE 0)
  /\ outside[head] \in Int /\ outside'[head'] \in Int /\ own[p] \in Int /\ Others \in Int

\* Such a step leaves what a read shows true.
LEMMA UndisturbedKeeps ==
  ASSUME TypeOK, ViewsTyped, NEW p \in Profiles, ViewInv(p), Undisturbed(p)
  PROVE  ViewInv(p)'
<1>1. /\ view[p].mark \in Int /\ view[p].slot \in 0 .. head /\ view[p].amount \in Int
      /\ bal[view[p].slot] \in Int /\ outside[view[p].slot] \in Int
      /\ bal'[view[p].slot] = bal[view[p].slot] /\ outside'[view[p].slot] = outside[view[p].slot]
  BY BalTyped DEF ViewsTyped, View, Undisturbed
<1>2. pc'[p] = pc[p] /\ view'[p] = view[p]
  BY DEF Undisturbed
<1>3. pc[p] \in Looking /\ view[p].mark # Unsettled => view[p].mark <= settled /\ pending.by # p
  BY DEF ViewInv
<1>4. pc'[p] \in Looking /\ view'[p].mark # Unsettled => view'[p].mark <= settled' /\ pending'.by # p
  BY <1>1, <1>2, <1>3 DEF Undisturbed
<1>5. Trusted(p)' = Trusted(p)
  BY <1>2 DEF Trusted
<1>6. pc'[p] = "viewed" /\ Trusted(p)' => pending.by # p /\ pending'.by # p
  BY <1>2, <1>5 DEF ViewInv, Undisturbed
<1>7. ASSUME Covered', pending.by # p
      PROVE  /\ Arrived(p) \in Int /\ Arrived(p)' \in Int /\ own[p] \in Int
             /\ own'[p] = own[p] + (Arrived(p)' - Arrived(p))
  <2>1. own'[p] = own[p] + (IF p = Residual THEN outside'[head'] - outside[head] ELSE 0)
    BY <1>7 DEF Undisturbed
  <2>2. Arrived(p) = IF p = Residual THEN outside[head] - outside[view[p].slot] ELSE 0
    BY DEF Arrived
  <2>3. Arrived(p)' = IF p = Residual THEN outside'[head'] - outside[view[p].slot] ELSE 0
    BY <1>1, <1>2 DEF Arrived
  <2> QED
    BY <1>1, <2>1, <2>2, <2>3 DEF Undisturbed
<1>8. ASSUME pc[p] \in {"read", "claimed"}, Stands(p)', Covered'
      PROVE  Stands(p) /\ Covered /\ pending.by # p /\ Others' = Others /\ Others \in Int
  <2>1. view[p].mark = settled' /\ view[p].slot >= settled'
    BY <1>2, <1>8 DEF Stands
  <2>2. settled \in 0 .. head /\ settled' \in Int /\ settled' >= settled
    BY LowTyped DEF Undisturbed
  <2>3. view[p].mark # Unsettled
    BY <2>1, <2>2 DEF Unsettled
  <2>4. view[p].mark <= settled /\ pending.by # p
    BY <1>3, <1>8, <2>3 DEF Looking
  <2>5. settled' = settled
    BY <1>1, <2>1, <2>2, <2>4
  <2>6. ~(pending.by \in Claimers /\ Landed(Outstanding)) /\ Others' = Others
    BY <1>8, <2>5 DEF Stands, Undisturbed
  <2> QED
    BY <1>8, <2>1, <2>4, <2>5, <2>6 DEF Stands, Undisturbed
<1>9. pc'[p] \in {"read", "claimed"} /\ Stands(p)' /\ Covered' =>
        /\ bal'[view'[p].slot] >= Others'
        /\ p = Residual => bal'[view'[p].slot] - Others' + Arrived(p)' = own'[p]
  <2> SUFFICES ASSUME pc[p] \in {"read", "claimed"}, Stands(p)', Covered'
               PROVE  /\ bal'[view'[p].slot] >= Others'
                      /\ p = Residual => bal'[view'[p].slot] - Others' + Arrived(p)' = own'[p]
    BY <1>2
  <2>1. /\ bal[view[p].slot] >= Others
        /\ p = Residual => bal[view[p].slot] - Others + Arrived(p) = own[p]
    BY <1>8 DEF ViewInv
  <2> QED
    BY <1>1, <1>2, <1>7, <1>8, <2>1
<1>10. pc'[p] = "claimed" /\ Stands(p)' /\ Covered' => view'[p].amount + Arrived(p)' = own'[p]
  <2> SUFFICES ASSUME pc[p] = "claimed", Stands(p)', Covered'
               PROVE  view'[p].amount + Arrived(p)' = own'[p]
    BY <1>2
  <2>1. view[p].amount + Arrived(p) = own[p]
    BY <1>8 DEF ViewInv
  <2> QED
    BY <1>1, <1>2, <1>7, <1>8, <2>1
<1>11. pc'[p] = "viewed" /\ Trusted(p)' /\ Covered' => view'[p].amount + Arrived(p)' = own'[p]
  <2> SUFFICES ASSUME pc[p] = "viewed", Trusted(p), Covered'
               PROVE  view'[p].amount + Arrived(p)' = own'[p]
    BY <1>2, <1>5
  <2>1. view[p].amount + Arrived(p) = own[p]
    BY DEF ViewInv, Undisturbed
  <2> QED
    BY <1>1, <1>2, <1>6, <1>7, <2>1, <1>5
<1> QED
  BY <1>4, <1>6, <1>9, <1>10, <1>11 DEF ViewInv

\* Nothing is claimed of a process that does not look at the wallet.
LEMMA NotLooking ==
  ASSUME NEW p, pc'[p] \notin Looking \cup {"viewed"}
  PROVE  ViewInv(p)'
BY DEF ViewInv, Looking

\* p's own steps of a read.
LEMMA LookViews ==
  ASSUME TypeOK, ClaimsInv, OwnInv, Covered => CoverInv, ViewsTyped,
         NEW p \in Profiles, ViewInv(p), Look(p)
  PROVE  ViewInv(p)'
<1>1. UNCHANGED <<head, floor, bal, txs, settled, pending, claims, own, outside, strays>>
  BY LookFacts DEF chain, database, history
<1>2. Unmoved
  BY QuietUnmoved DEF Quiet
<1>3. Covered' = Covered /\ Others' = Others /\ (Landed(Outstanding))' = Landed(Outstanding)
  BY <1>1, <1>2, OthersSame DEF Covered, Accountable, Landed, Unmoved
<1>4. /\ view[p] \in View /\ view[p].mark \in Int /\ view[p].slot \in 0 .. head
  BY DEF ViewsTyped, View
<1>5. /\ head \in Nat /\ settled \in 0 .. head /\ floor \in 0 .. head
  BY LowTyped
<1>6. own[Residual] \in Int /\ Others \in Int /\ own[p] \in Int
  BY OthersTyped, ProfilesAssumption
<1>7. CASE MarkBefore(p)
  <2>1. pc'[p] = "marked" /\ view'[p].mark = Mark
    BY <1>4, <1>7, LookFacts DEF View
  <2>2. Mark # Unsettled => pending = NoWrite /\ Mark = settled
    BY DEF Mark
  <2>3. pending = NoWrite => pending.by # p
    BY ProfilesAssumption DEF NoWrite
  <2> QED
    BY <1>1, <1>5, <2>1, <2>2, <2>3, SMTT(60) DEF ViewInv
<1>8. CASE ReadBalance(p)
  <2>1. PICK s \in floor .. head : view'[p] = [view[p] EXCEPT !.slot = s]
    BY <1>8, LookFacts, ZenonT(60)
  <2>2. pc[p] = "marked" /\ pc'[p] = "read" /\ view'[p].mark = view[p].mark /\ view'[p].slot = s
    BY <1>4, <1>8, <2>1, LookFacts DEF View
  <2>3. view[p].mark # Unsettled => view[p].mark <= settled /\ pending.by # p
    BY <2>2 DEF ViewInv, Looking
  <2>4. ASSUME Stands(p)', Covered
        PROVE  /\ bal[s] >= Others
               /\ p = Residual => bal[s] - Others + (outside[head] - outside[s]) = own[p]
    <3>1. /\ view[p].mark = settled /\ s >= settled
          /\ ~(pending.by \in Claimers /\ Landed(Outstanding))
      BY <1>1, <1>3, <2>2, <2>4 DEF Stands
    <3>2. s \in Low .. head /\ s \in 0 .. head /\ Low \in Int
      BY <1>5, <3>1 DEF Low, Larger
    <3>3. OthersStep(s) = 0
      BY <3>1 DEF OthersStep, Step
    <3>4. bal[s] >= Others
      BY <1>6, <2>4, <3>2, <3>3 DEF CoverInv
    <3>5. ASSUME p = Residual
          PROVE  bal[s] - Others + (outside[head] - outside[s]) = own[p]
      <4>1. pending.by # p
        BY <1>5, <2>3, <3>1 DEF Unsettled
      <4>2. ~Landed(Outstanding)
        <5>1. Outstanding # 0 => pending.by \in Profiles
          <6>1. pending.by = NoOne => pending.tx = 0 /\ NoOne \notin Profiles
            BY ProfilesAssumption DEF ClaimsInv, SectionInv, NoWrite
          <6>2. pending.by = NoOne => Outstanding = 0
            BY <6>1 DEF Outstanding
          <6> QED
            BY <6>2, PendingType
        <5> QED
          BY <3>1, <3>5, <4>1, <5>1 DEF Landed
      <4>3. Step(s) = 0
        BY <4>2 DEF Step
      <4>4. s \in From .. head
        BY <1>5, <3>2, PendingType DEF From
      <4>5. Inside(s) + Step(s) = Inside(head)
        BY <2>4, <4>4 DEF ClaimsInv, Covered, LevelInv
      <4>6. bal[s] \in Int /\ outside[s] \in Int /\ bal[head] \in Int /\ outside[head] \in Int
        BY <1>5, <3>2, BalTyped
      <4>7. bal[s] - outside[s] = bal[head] - outside[head]
        BY <4>3, <4>5, <4>6 DEF Inside
      <4>8. bal[head] = own[Residual] + Others
        BY DEF OwnInv
      <4>9. bal[head] - Others = own[p]
        BY <1>6, <3>5, <4>8
      <4> DEFINE now == bal[head]
                 then == bal[s]
                 late == outside[s]
                 since == outside[head]
      <4>10. then - late = now - since /\ now - Others = own[p]
        BY <4>7, <4>9
      <4>11. then \in Int /\ late \in Int /\ now \in Int /\ since \in Int
        BY <4>6
      <4> HIDE DEF now, then, late, since
      <4>12. then - Others + (since - late) = own[p]
        BY <1>6, <4>10, <4>11
      <4> QED
        BY <4>12 DEF now, then, late, since
    <3> QED
      BY <3>4, <3>5
  <2>5. Arrived(p)' = IF p = Residual THEN outside[head] - outside[s] ELSE 0
    BY <1>1, <2>2 DEF Arrived
  <2> QED
    BY <1>1, <1>3, <2>2, <2>3, <2>4, <2>5, SMTT(60) DEF ViewInv
<1>9. CASE ReadClaims(p)
  <2>1. /\ pc[p] = "read" /\ pc'[p] = "claimed"
        /\ view'[p].mark = view[p].mark /\ view'[p].slot = view[p].slot
        /\ view'[p].amount = Split(bal[view[p].slot], Residual, claims)[p]
    BY <1>4, <1>9, LookFacts DEF View
  <2>2. Stands(p)' = Stands(p) /\ Arrived(p)' = Arrived(p)
    BY <1>1, <1>3, <2>1 DEF Stands, Arrived
  <2>3. view[p].mark # Unsettled => view[p].mark <= settled /\ pending.by # p
    BY <2>1 DEF ViewInv, Looking
  <2>4. Stands(p) /\ Covered =>
          /\ bal[view[p].slot] >= Others
          /\ p = Residual => bal[view[p].slot] - Others + Arrived(p) = own[p]
    BY <2>1 DEF ViewInv
  <2>5. ASSUME Stands(p), Covered
        PROVE  view'[p].amount + Arrived(p) = own[p]
    <3>1. /\ \A q \in Claimers : claims[q] = own[q]
          /\ Wanted(Residual, claims) = Others
      BY <2>5, ClaimsAreOwn DEF Stands
    <3>2. bal[view[p].slot] >= Others /\ bal[view[p].slot] \in Int
      BY <1>4, <2>4, <2>5, BalTyped
    <3>3. Others <= bal[view[p].slot]
      BY <1>6, <3>2
    <3>4. view'[p].amount = IF p = Residual THEN bal[view[p].slot] - Others ELSE claims[p]
      BY <2>1, <3>1, <3>3, WantedIs DEF Split
    <3>5. CASE p = Residual
      BY <2>4, <2>5, <3>4, <3>5
    <3>6. CASE p # Residual
      BY <1>6, <3>1, <3>4, <3>6 DEF Arrived
    <3> QED
      BY <3>5, <3>6
  <2> QED
    BY <1>1, <1>3, <2>1, <2>2, <2>3, <2>4, <2>5, SMTT(60) DEF ViewInv
<1>10. CASE MarkAfter(p)
  <2>1. /\ pc[p] = "claimed" /\ pc'[p] = "viewed"
        /\ view'[p].known = Agrees(view[p].mark)
        /\ view'[p].fresh = (view[p].slot >= view[p].mark)
        /\ view'[p].slot = view[p].slot /\ view'[p].amount = view[p].amount
    BY <1>4, <1>10, LookFacts DEF View
  <2>2. Trusted(p)' => /\ pending = NoWrite /\ view[p].mark = settled /\ view[p].slot >= settled
    BY <2>1 DEF Trusted, Agrees, Mark
  <2>3. pending = NoWrite => pending.by \notin Profiles
    BY ProfilesAssumption DEF NoWrite
  <2>4. Trusted(p)' => Stands(p) /\ pending.by # p
    BY <2>2, <2>3 DEF Stands
  <2>5. Stands(p) /\ Covered => view[p].amount + Arrived(p) = own[p]
    BY <2>1 DEF ViewInv
  <2>6. Arrived(p)' = Arrived(p)
    BY <1>1, <2>1 DEF Arrived
  <2> QED
    BY <1>1, <1>3, <2>1, <2>4, <2>5, <2>6, SMTT(60) DEF ViewInv, Looking
<1> QED
  BY <1>7, <1>8, <1>9, <1>10, SMTT(60) DEF Look

\* What the reads of p show stays true after each step.
LEMMA ViewNext ==
  ASSUME TypeOK, ClaimsInv, SettledDivides, OwnInv, Covered => CoverInv, ViewsTyped,
         NEW p \in Profiles, ViewInv(p), [Next]_vars,
         TypeOK', OwnInv'
  PROVE  ViewInv(p)'
<1>1. /\ head \in Nat /\ settled \in 0 .. head /\ floor \in 0 .. head
      /\ settled \in Int /\ settled' \in Int
  BY LowTyped DEF TypeOK
<1>2. Others \in Int /\ own[p] \in Int
  BY OthersTyped
<1>3. outside[head] \in Int /\ outside'[head'] \in Int
  BY <1>1, BalTyped DEF TypeOK
<1>4. Covered' => Covered /\ Accountable /\ Accountable'
  BY StraysGrow
<1>5. ASSUME /\ pc'[p] = pc[p] /\ view'[p] = view[p]
             /\ UNCHANGED <<head, bal, settled, own, outside>>
             /\ pending.by # p => pending'.by # p
             /\ (pending.by \in Claimers /\ Landed(Outstanding)) => (pending.by \in Claimers /\ Landed(Outstanding))'
      PROVE  ViewInv(p)'
  <2>1. Others' = Others
    BY <1>5, OthersSame
  <2>2. Undisturbed(p)
    BY <1>1, <1>2, <1>3, <1>4, <1>5, <2>1 DEF Undisturbed
  <2> QED
    BY <2>2, UndisturbedKeeps
<1>6. CASE UNCHANGED vars
  BY <1>5, <1>6, SMTT(60) DEF vars, chain, database, history, Outstanding, Landed
<1>7. ASSUME NEW q \in Profiles, Quiet(q) \/ Prepare(q) \/ Send(q) \/ Books(q) \/ Loses(q), p # q
      PROVE  pc'[p] = pc[p] /\ view'[p] = view[p]
  BY <1>7, OtherReads, LookFacts, ZenonT(60)
<1>8. ASSUME Quiet(p) \/ Prepare(p) \/ Send(p) \/ Books(p) \/ Loses(p)
      PROVE  ViewInv(p)'
  <2>1. CASE Look(p)
    BY <2>1, LookViews
  <2>2. CASE ~Look(p)
    BY <1>8, <2>2, OtherReads, NotLooking
  <2> QED
    BY <2>1, <2>2
<1>9. ASSUME NEW q \in Profiles \ {p}, Quiet(q)
      PROVE  ViewInv(p)'
  <2>1. Unmoved
    BY <1>9, QuietUnmoved
  <2>2. Landed(Outstanding)' <=> Landed(Outstanding)
    BY <2>1 DEF Unmoved, Landed
  <2> QED
    BY <1>5, <1>7, <1>9, <2>1, <2>2 DEF Unmoved
<1>10. ASSUME NEW q \in Profiles \ {p}, Prepare(q)
       PROVE  ViewInv(p)'
  <2>1. /\ UNCHANGED <<head, bal, settled, own, outside>>
        /\ pending'.by # p /\ Outstanding = 0
    BY <1>10, PrepareFacts
  <2>2. ~Landed(Outstanding)
    BY <2>1 DEF Landed
  <2> QED
    BY <1>5, <1>7, <1>10, <2>1, <2>2
<1>11. ASSUME NEW q \in Profiles \ {p}, Send(q)
       PROVE  ViewInv(p)'
  <2>1. /\ UNCHANGED <<head, bal, settled, own, outside, pending>>
        /\ Outstanding = 0
    BY <1>11, SendFacts
  <2>2. ~Landed(Outstanding)
    BY <2>1 DEF Landed
  <2> QED
    BY <1>5, <1>7, <1>11, <2>1, <2>2
<1>12. ASSUME NEW q \in Profiles \ {p}, Books(q)
       PROVE  ViewInv(p)'
  <2>1. /\ UNCHANGED <<head, floor, bal, txs, own, outside>>
        /\ pending'.by = NoOne
        /\ settled' \in 0 .. head /\ settled' >= settled
        /\ Landed(Outstanding) /\ Accountable /\ pending.by \in Claimers => txs[Outstanding].slot <= settled'
    BY <1>12, BooksFacts
  <2>2. Landed(Outstanding) /\ Accountable => txs[Outstanding].slot > settled /\ txs[Outstanding].slot \in Int
    BY OutstandingTyped, LandedTyped DEF SettledDivides
  <2>3. settled' = settled /\ Covered' => ~(pending.by \in Claimers /\ Landed(Outstanding))
    BY <1>1, <1>4, <2>1, <2>2
  <2>4. Others' = Others
    BY <2>1, OthersSame
  <2>5. pending'.by # p
    BY <2>1, ProfilesAssumption
  <2>6. own'[p] = own[p] + (IF p = Residual THEN outside'[head'] - outside[head] ELSE 0)
    BY <1>2, <1>3, <2>1
  <2>7. Undisturbed(p)
    BY <1>1, <1>2, <1>3, <1>4, <1>7, <1>12, <2>1, <2>3, <2>4, <2>5, <2>6 DEF Undisturbed
  <2> QED
    BY <2>7, UndisturbedKeeps
<1>13. ASSUME NEW q \in Profiles \ {p}, Loses(q)
       PROVE  ViewInv(p)'
  <2>1. UNCHANGED <<head, bal, settled, own, outside, pending>>
    BY <1>13 DEF Loses, ReturnNothing, Crash, chain, database
  <2>10. "lost signature" \in strays'
    BY <1>13 DEF Loses, ReturnNothing, Crash, chain, database
  <2>2. ~Covered'
    BY <2>10 DEF Covered, Accountable
  <2>3. pc'[p] = pc[p] /\ view'[p] = view[p]
    BY <1>7, <1>13
  <2>4. settled' >= settled
    BY <1>1, <2>1
  <2>5. Undisturbed(p)
    BY <1>1, <1>2, <1>3, <2>1, <2>2, <2>3, <2>4 DEF Undisturbed
  <2> QED
    BY <2>5, UndisturbedKeeps
<1>14. ASSUME NEW i \in Txs, Land(i)
       PROVE  ViewInv(p)'
  <2>1. /\ txs[i].state = "flying" /\ txs[i].delta \in Int
        /\ Advance(txs[i].delta, 0)
        /\ own' = [own EXCEPT ![txs[i].by] = @ + txs[i].delta]
        /\ UNCHANGED <<settled, pending, pc, view>>
        /\ txs'[i].state = "landed"
        /\ Outstanding' = Outstanding
        /\ Accountable' => i = Outstanding /\ pending.by = txs[i].by
    BY <1>14, LandFacts
  <2>2. txs[i].by \in Profiles
    BY <2>1 DEF OwnInv
  <2>3. /\ \A s \in 0 .. head : bal'[s] = bal[s] /\ outside'[s] = outside[s]
        /\ outside'[head'] = outside[head] + 0
    BY <2>1, AdvanceFacts DEF OwnInv
  <2>4. Covered' /\ pending.by # p => own'[p] = own[p]
    BY <1>4, <2>1 DEF TypeOK
  <2>5. ASSUME Covered', ~(pending.by \in Claimers /\ Landed(Outstanding))'
        PROVE  ~(pending.by \in Claimers /\ Landed(Outstanding)) /\ Others' = Others
    <3>1. ~Landed(Outstanding) /\ Landed(Outstanding)'
      BY <1>4, <2>1, <2>5, NoTxIsNone DEF Landed
    <3>2. txs[i].by = Residual
      BY <1>4, <2>1, <2>2, <2>5, <3>1
    <3>3. \A q \in Claimers : own'[q] = own[q]
      BY <2>1, <3>2 DEF TypeOK
    <3> QED
      BY <3>1, <3>3, OthersSame
  <2>6. Undisturbed(p)
    BY <1>1, <1>2, <1>3, <1>4, <2>1, <2>3, <2>4, <2>5 DEF Undisturbed
  <2> QED
    BY <2>6, UndisturbedKeeps
<1>15. ASSUME NEW i \in Txs, FailOnChain(i) \/ Expire(i)
       PROVE  ViewInv(p)'
  <2>1. /\ UNCHANGED <<head, bal, settled, pending, own, outside, pc, view>>
        /\ txs[i].state = "flying" /\ txs'[i].state \in {"failed", "dead"}
        /\ \A k \in Txs \ {i} : txs'[k] = txs[k]
        /\ Outstanding' = Outstanding
    BY <1>15, DeadFacts
  <2>2. Landed(Outstanding)' <=> Landed(Outstanding)
    BY <2>1, OutstandingTyped DEF Landed
  <2> QED
    BY <1>5, <2>1, <2>2
<1>16. CASE Age
  <2>1. UNCHANGED <<head, bal, txs, settled, pending, own, outside, pc, job, view>>
    BY <1>16 DEF Age
  <2> QED
    BY <1>5, <2>1 DEF Outstanding, Landed
<1>17. ASSUME NEW d \in Donations, Donate(d)
       PROVE  ViewInv(p)'
  <2>1. /\ Advance(d, d) /\ d \in Nat /\ d \in Int
        /\ own' = [own EXCEPT ![Residual] = @ + d]
        /\ UNCHANGED <<txs, settled, pending, pc, job, view>>
    BY <1>17, AmountsAssumption DEF Donate, database
  <2>2. /\ \A s \in 0 .. head : bal'[s] = bal[s] /\ outside'[s] = outside[s]
        /\ outside'[head'] = outside[head] + d
    BY <2>1, AdvanceFacts DEF OwnInv
  <2>3. own'[Residual] = own[Residual] + d /\ \A q \in Claimers : own'[q] = own[q]
    BY <2>1, ProfilesAssumption DEF TypeOK
  <2>4. Others' = Others
    BY <2>3, OthersSame
  <2>5. Landed(Outstanding)' <=> Landed(Outstanding)
    BY <2>1 DEF Outstanding, Landed
  <2>6. own'[p] = own[p] + (IF p = Residual THEN outside'[head'] - outside[head] ELSE 0)
    BY <1>2, <1>3, <2>1, <2>2, <2>3
  <2>7. Undisturbed(p)
    BY <1>1, <1>2, <1>3, <1>4, <2>1, <2>2, <2>4, <2>5, <2>6 DEF Undisturbed
  <2> QED
    BY <2>7, UndisturbedKeeps
<1> QED
  BY <1>6, <1>8, <1>9, <1>10, <1>11, <1>12, <1>13, <1>14, <1>15, <1>16, <1>17, Kinds

-----------------------------------------------------------------------------
(* What a profile sends leaves it with funds of its own.                   *)

\* A quiet step strays only where it sizes a move on an unguarded read.
LEMMA QuietStrays ==
  ASSUME NEW p \in Profiles, Quiet(p)
  PROVE  strays' = strays \/ Size(p)
<1>1. CASE Look(p)
  BY <1>1 DEF Look, MarkBefore, ReadBalance, ReadClaims, MarkAfter, history
<1>2. CASE SettleEarlier(p) /\ pending = NoWrite
  BY <1>2 DEF SettleEarlier
<1>3. CASE Crash(p) /\ pc[p] # "sent"
  BY <1>3 DEF Crash
<1>4. CASE TakeLock(p) \/ LockTimeout(p) \/ Refuse(p) \/ SendNothing(p) \/ Return(p) \/ LeavePending(p) \/ Rest(p)
  BY <1>4 DEF TakeLock, LockTimeout, Refuse, SendNothing, Return, LeavePending, Rest, history
<1> QED
  BY <1>1, <1>2, <1>3, <1>4 DEF Quiet

\* A guarded figure is never more than the profile's own.
LEMMA TrustedCovers ==
  ASSUME TypeOK, OwnInv, ViewsTyped, Covered, NEW p \in Profiles, ViewInv(p), pc[p] = "viewed", Trusted(p)
  PROVE  pending.by # p /\ view[p].amount \in Int /\ view[p].amount <= own[p]
<1>1. view[p].amount \in Int /\ view[p].slot \in 0 .. head /\ own[p] \in Int
  BY DEF ViewsTyped, View, TypeOK
<1>2. /\ outside[head] \in Int /\ outside[view[p].slot] \in Int
      /\ outside[view[p].slot] <= outside[head]
  BY <1>1, BalTyped, LowTyped DEF OwnInv
<1>3. Arrived(p) \in Int /\ Arrived(p) >= 0
  BY <1>2 DEF Arrived
<1>4. view[p].amount + Arrived(p) = own[p] /\ pending.by # p
  BY DEF ViewInv
<1> QED
  BY <1>1, <1>3, <1>4

\* SpendInv is inductive, given what the guarded reads show.
LEMMA SpendNext ==
  ASSUME TypeOK, ClaimsInv, OwnInv, ViewsTyped, \A p \in Profiles : ViewInv(p), SpendInv, [Next]_vars
  PROVE  SpendInv'
<1> SUFFICES ASSUME strays' \subseteq {"overspent"}
             PROVE  /\ strays' = {}
                    /\ \A p \in Profiles : pc'[p] \in {"waiting", "locked"} => pending'.by # p
                    /\ \A p \in Profiles : pc'[p] \in Sizing => own'[p] + job'[p].delta >= 0
                    /\ \A i \in Txs : txs'[i].state = "flying" => own'[txs'[i].by] + txs'[i].delta >= 0
  BY DEF SpendInv
<1>1. /\ strays = {}
      /\ \A p \in Profiles : pc[p] \in {"waiting", "locked"} => pending.by # p
      /\ \A p \in Profiles : pc[p] \in Sizing => own[p] + job[p].delta >= 0
      /\ \A i \in Txs : txs[i].state = "flying" => own[txs[i].by] + txs[i].delta >= 0
  BY StraysGrow DEF SpendInv
<1>2. Covered /\ Accountable /\ Traced
  BY <1>1 DEF Covered, Accountable, Traced
<1>3. \A p \in Profiles : own[p] \in Int /\ job[p].delta \in Int
  BY DEF TypeOK
<1>4. CASE UNCHANGED vars
  BY <1>1, <1>4 DEF vars, chain, database, history
<1>5. ASSUME NEW q \in Profiles, Quiet(q)
      PROVE  /\ strays' = {}
             /\ \A p \in Profiles : pc'[p] \in {"waiting", "locked"} => pending'.by # p
             /\ \A p \in Profiles : pc'[p] \in Sizing => own'[p] + job'[p].delta >= 0
             /\ \A i \in Txs : txs'[i].state = "flying" => own'[txs'[i].by] + txs'[i].delta >= 0
  <2>1. /\ UNCHANGED <<txs, own>> /\ pending'.by = pending.by
        /\ \A p \in Profiles \ {q} : pc'[p] = pc[p] /\ job'[p] = job[p]
    BY <1>5, QuietUnmoved DEF Unmoved
  <2>2. CASE Size(q)
    <3>1. /\ pc[q] = "viewed" /\ job'[q].delta \in Int
          /\ view[q].amount + job'[q].delta >= 0
      BY <2>2, SizeFacts, AmountsAssumption
    <3>2. Trusted(q) /\ strays' = {}
      <4>1. strays' = IF Trusted(q) THEN strays ELSE strays \cup {"unsettled sizing"}
        BY <2>2, SizeFacts
      <4>2. Trusted(q)
        BY <4>1, Zenon
      <4> QED
        BY <1>1, <4>1, <4>2
    <3>3. pending.by # q /\ view[q].amount \in Int /\ view[q].amount <= own[q]
      BY <1>2, <3>1, <3>2, TrustedCovers
    <3>4. own[q] + job'[q].delta >= 0
      BY <1>3, <3>1, <3>3
    <3> QED
      BY <1>1, <2>1, <3>2, <3>3, <3>4
  <2>3. CASE ~Size(q)
    <3>1. strays' = {}
      BY <1>1, <1>5, <2>3, QuietStrays
    <3>2. pc'[q] \in Sizing => /\ pc[q] \in {"waiting", "locked"} /\ pc'[q] \in {"locked", "clear"}
                               /\ pc'[q] = "locked" => pc[q] = "waiting"
                               /\ job'[q] = job[q]
      BY <1>5, <2>3, QuietSizing
    <3>3. pc'[q] \in {"waiting", "locked"} => pending'.by # q
      BY <1>1, <2>1, <3>2 DEF Sizing
    <3>4. pc'[q] \in Sizing => own'[q] + job'[q].delta >= 0
      BY <1>1, <2>1, <3>2 DEF Sizing
    <3> QED
      BY <1>1, <2>1, <3>1, <3>3, <3>4
  <2> QED
    BY <2>2, <2>3
<1>6. ASSUME NEW q \in Profiles, Prepare(q)
      PROVE  /\ strays' = {}
             /\ \A p \in Profiles : pc'[p] \in {"waiting", "locked"} => pending'.by # p
             /\ \A p \in Profiles : pc'[p] \in Sizing => own'[p] + job'[p].delta >= 0
             /\ \A i \in Txs : txs'[i].state = "flying" => own'[txs'[i].by] + txs'[i].delta >= 0
  <2>1. /\ pc[q] = "clear" /\ pc' = [pc EXCEPT ![q] = "prepared"]
        /\ UNCHANGED <<txs, job, own, strays>>
        /\ pending'.by = q
    BY <1>6, PrepareFacts
  <2>2. \A p \in Profiles : pc'[p] = IF p = q THEN "prepared" ELSE pc[p]
    BY <2>1 DEF TypeOK
  <2>3. pc[q] \in Sizing
    BY <2>1 DEF Sizing
  <2> QED
    BY <1>1, <2>1, <2>2, <2>3
<1>7. ASSUME NEW q \in Profiles, Send(q)
      PROVE  /\ strays' = {}
             /\ \A p \in Profiles : pc'[p] \in {"waiting", "locked"} => pending'.by # p
             /\ \A p \in Profiles : pc'[p] \in Sizing => own'[p] + job'[p].delta >= 0
             /\ \A i \in Txs : txs'[i].state = "flying" => own'[txs'[i].by] + txs'[i].delta >= 0
  <2>1. /\ pc[q] = "prepared" /\ pc' = [pc EXCEPT ![q] = "sent"]
        /\ UNCHANGED <<pending, own, strays>>
        /\ txs'[sent + 1] = [by |-> q, delta |-> job[q].delta, state |-> "flying", slot |-> 0]
        /\ \A i \in Txs \ {sent + 1} : txs'[i] = txs[i]
        /\ \A p \in Profiles \ {q} : job'[p] = job[p]
    BY <1>7, SendFacts
  <2>2. \A p \in Profiles : pc'[p] = IF p = q THEN "sent" ELSE pc[p]
    BY <2>1 DEF TypeOK
  <2>3. own[q] + job[q].delta >= 0
    BY <1>1, <2>1 DEF Sizing
  <2>4. \A p \in Profiles : pc'[p] \in Sizing => own'[p] + job'[p].delta >= 0
    BY <1>1, <2>1, <2>2 DEF Sizing
  <2>5. \A i \in Txs : txs'[i].state = "flying" => own'[txs'[i].by] + txs'[i].delta >= 0
    BY <1>1, <2>1, <2>3
  <2> QED
    BY <1>1, <2>1, <2>2, <2>4, <2>5
<1>8. ASSUME NEW q \in Profiles, Books(q)
      PROVE  /\ strays' = {}
             /\ \A p \in Profiles : pc'[p] \in {"waiting", "locked"} => pending'.by # p
             /\ \A p \in Profiles : pc'[p] \in Sizing => own'[p] + job'[p].delta >= 0
             /\ \A i \in Txs : txs'[i].state = "flying" => own'[txs'[i].by] + txs'[i].delta >= 0
  <2>1. Book /\ UNCHANGED <<txs, own>> /\ pending'.by = NoOne
    BY <1>8, BooksFacts
  <2>2. strays' = strays \/ "outside transfer" \in strays'
    BY <2>1 DEF Book, BookNothing, BookAt
  <2>3. \/ pc[q] = "locked" /\ pc' = [pc EXCEPT ![q] = "clear"] /\ job' = job
        \/ pc' = [pc EXCEPT ![q] = "idle"] /\ job' = [job EXCEPT ![q] = NoJob]
    BY <1>8 DEF Books, SettleEarlier, SettleOwn, GoTo, Forget
  <2>4. \A p \in Profiles : pc'[p] \in Sizing => pc[p] \in Sizing /\ job'[p] = job[p]
    BY <2>3 DEF TypeOK, Sizing
  <2> QED
    BY <1>1, <2>1, <2>2, <2>4, ProfilesAssumption
<1>9. ASSUME NEW q \in Profiles, Loses(q)
      PROVE  FALSE
  <2>1. "lost signature" \in strays'
    BY <1>9 DEF Loses, ReturnNothing, Crash
  <2>2. "lost signature" # "overspent"
    OBVIOUS
  <2> QED
    BY <2>1, <2>2
<1>10. ASSUME NEW i \in Txs, Land(i)
       PROVE  /\ strays' = {}
              /\ \A p \in Profiles : pc'[p] \in {"waiting", "locked"} => pending'.by # p
              /\ \A p \in Profiles : pc'[p] \in Sizing => own'[p] + job'[p].delta >= 0
              /\ \A k \in Txs : txs'[k].state = "flying" => own'[txs'[k].by] + txs'[k].delta >= 0
  <2>1. /\ txs[i].state = "flying" /\ txs[i].delta \in Int
        /\ own' = [own EXCEPT ![txs[i].by] = @ + txs[i].delta]
        /\ UNCHANGED <<pending, pc, job>>
        /\ txs'[i].state = "landed"
        /\ \A k \in Txs \ {i} : txs'[k] = txs[k]
    BY <1>10, LandFacts
  <2>2. Accountable'
    BY DEF Accountable
  <2>3. i = Outstanding /\ pending.by = txs[i].by
    BY <1>10, <2>2, LandFacts
  <2>4. txs[i].by \in Profiles /\ own[txs[i].by] + txs[i].delta >= 0
    BY <1>1, <2>1 DEF OwnInv
  <2>5. own'[txs[i].by] = own[txs[i].by] + txs[i].delta
    BY <2>1, <2>4 DEF TypeOK
  <2>6. strays' = strays
    BY <1>3, <1>10, <2>1, <2>4, <2>5 DEF Land
  <2>7. ASSUME NEW p \in Profiles, pc[p] \in Sizing PROVE p # txs[i].by
    <3>1. CASE pc[p] \in {"waiting", "locked"}
      BY <1>1, <2>3, <3>1
    <3>2. CASE pc[p] = "clear"
      BY <2>3, <3>2, ProfilesAssumption DEF ClaimsInv, SectionInv, NoWrite
    <3>3. CASE pc[p] = "prepared"
      <4>1. pending.by = p => pending.tx = NoTx
        BY <3>3 DEF ClaimsInv, SectionInv
      <4>2. pending.by = p => Outstanding = NoTx
        BY <3>3, <4>1 DEF Outstanding
      <4> QED
        BY <2>3, <4>2, NoTxIsNone DEF NoTx
    <3> QED
      BY <2>7, <3>1, <3>2, <3>3, ZenonT(60) DEF Sizing
  <2>8. \A p \in Profiles : pc'[p] \in Sizing => own'[p] + job'[p].delta >= 0
    BY <1>1, <2>1, <2>7 DEF TypeOK
  <2>9. ASSUME NEW k \in Txs, txs'[k].state = "flying" PROVE FALSE
    <3>1. k # i /\ txs[k].state = "flying"
      BY <2>1, <2>9
    <3> QED
      BY <1>2, <2>1, <2>3, <3>1 DEF ClaimsInv, OneInFlight
  <2> QED
    BY <1>1, <2>1, <2>6, <2>8, <2>9
<1>11. ASSUME NEW i \in Txs, FailOnChain(i) \/ Expire(i)
       PROVE  /\ strays' = {}
              /\ \A p \in Profiles : pc'[p] \in {"waiting", "locked"} => pending'.by # p
              /\ \A p \in Profiles : pc'[p] \in Sizing => own'[p] + job'[p].delta >= 0
              /\ \A k \in Txs : txs'[k].state = "flying" => own'[txs'[k].by] + txs'[k].delta >= 0
  <2>1. /\ UNCHANGED <<pending, pc, job, own, strays>>
        /\ txs'[i].state \in {"failed", "dead"}
        /\ \A k \in Txs \ {i} : txs'[k] = txs[k]
    BY <1>11, DeadFacts
  <2> QED
    BY <1>1, <2>1
<1>12. CASE Age
  <2>1. strays' \in {strays, strays \cup {"outlived"}}
    BY <1>12 DEF Age
  <2>2. strays' \subseteq {"overspent"}
    BY DEF SpendInv
  <2>3. strays' = {}
    BY <1>1, <2>1, <2>2
  <2> QED
    BY <1>1, <1>12, <2>3 DEF Age
<1>13. ASSUME NEW d \in Donations, Donate(d)
       PROVE  /\ strays' = {}
              /\ \A p \in Profiles : pc'[p] \in {"waiting", "locked"} => pending'.by # p
              /\ \A p \in Profiles : pc'[p] \in Sizing => own'[p] + job'[p].delta >= 0
              /\ \A i \in Txs : txs'[i].state = "flying" => own'[txs'[i].by] + txs'[i].delta >= 0
  <2>1. /\ own' = [own EXCEPT ![Residual] = @ + d] /\ d \in Nat
        /\ UNCHANGED <<txs, pending, pc, job, strays>>
    BY <1>13, AmountsAssumption DEF Donate, database
  <2>2. \A p \in Profiles : own'[p] \in Int /\ own'[p] >= own[p]
    BY <1>3, <2>1 DEF TypeOK
  <2>3. \A p \in Profiles : pc[p] \in Sizing => own'[p] + job[p].delta >= 0
    BY <1>1, <1>3, <2>2
  <2>4. \A i \in Txs : txs[i].state = "flying" => txs[i].by \in Profiles /\ txs[i].delta \in Int
    BY DEF OwnInv, TypeOK
  <2>5. \A i \in Txs : txs[i].state = "flying" => own'[txs[i].by] + txs[i].delta >= 0
    BY <1>1, <1>3, <2>2, <2>4
  <2> QED
    BY <1>1, <2>1, <2>3, <2>5
<1> QED
  BY <1>4, <1>5, <1>6, <1>7, <1>8, <1>9, <1>10, <1>11, <1>12, <1>13, Kinds

\* At first nothing is sized, sent or landed.
LEMMA InitSpends == Init => SpendInv /\ SettledDivides
BY DEF Init, SpendInv, SettledDivides, Landed, Sizing, Txs

-----------------------------------------------------------------------------
(* The theorems.                                                           *)

\* The inductive invariant of the wallet, with the type of the reads.
WalletTyped == TypeOK /\ ViewsTyped

\* The invariant holds at first.
LEMMA InitWallet == Init => WalletTyped /\ WalletInv
BY InitTyped, InitViews, InitClaims, InitOwn, InitCovered, InitSpends DEF WalletTyped, WalletInv

\* Every step keeps it: one lemma per conjunct.
LEMMA NextWallet == WalletTyped /\ WalletInv /\ [Next]_vars => WalletTyped' /\ WalletInv'
<1> SUFFICES ASSUME WalletTyped, WalletInv, [Next]_vars
             PROVE  WalletTyped' /\ WalletInv'
  OBVIOUS
<1>1. /\ TypeOK /\ ViewsTyped /\ ClaimsInv /\ SettledDivides /\ OwnInv
      /\ Covered => CoverInv
      /\ \A p \in Profiles : ViewInv(p)
      /\ SpendInv
  BY DEF WalletTyped, WalletInv
<1>2. TypeOK'
  BY <1>1, NextTyped
<1>3. ClaimsInv'
  BY <1>1, NextClaims
<1>4. SettledDivides'
  BY <1>1, SettledNext
<1>5. OwnInv'
  BY <1>1, OwnNext
<1>6. Covered' => CoverInv'
  BY <1>1, <1>2, <1>3, <1>5, CoverNext
<1>7. ViewsTyped'
  BY <1>1, ViewsTypedNext
<1>8. \A p \in Profiles : ViewInv(p)'
  BY <1>1, <1>2, <1>5, ViewNext
<1>9. SpendInv'
  BY <1>1, SpendNext
<1> QED
  BY <1>2, <1>3, <1>4, <1>5, <1>6, <1>7, <1>8, <1>9 DEF WalletTyped, WalletInv

\* The inductive invariant of the whole wallet: the claims, the slots that
\* divide booked writes from unbooked ones, whose the balance is, what the
\* guarded reads show and what is sent on them.
THEOREM WalletHolds == Spec => []WalletInv
<1>1. Spec => [](WalletTyped /\ WalletInv)
  BY InitWallet, NextWallet, PTL DEF Spec
<1> QED
  BY <1>1, PTL

\* Every landed write up to the settled slot, or to the oldest slot an
\* endpoint answers from, is booked, and the pending one lies past the settled
\* slot: the next write's two reads differ by that write alone.
THEOREM SettledHolds == Spec => []SettledDivides
<1>1. WalletInv => SettledDivides
  BY DEF WalletInv
<1> QED
  BY <1>1, WalletHolds, PTL

\* A figure unsettled_guard lets through is the profile's own money, up to the
\* outside transfers since its balance was read: however the reads of its
\* parts were torn by other processes, lag and crashes.
THEOREM KnownViewHolds == Spec => []KnownViewExact
<1>1. WalletInv => KnownViewExact
  BY DEF WalletInv, ViewInv, KnownViewExact
<1> QED
  BY <1>1, WalletHolds, PTL

\* As long as every move is sized on such a figure, no profile ever spends
\* what another one owns.
THEOREM SpendsHolds == Spec => []SpendsOwnMoney
<1>1. WalletInv => SpendsOwnMoney
  <2>1. ASSUME WalletInv, strays \subseteq {"overspent"} PROVE Solvent
    <3>1. strays = {}
      BY <2>1 DEF WalletInv, SpendInv
    <3>2. Covered
      BY <3>1 DEF Covered, Accountable
    <3> QED
      BY <2>1, <3>2 DEF WalletInv, CoverInv
  <2> QED
    BY <2>1 DEF SpendsOwnMoney
<1> QED
  BY <1>1, WalletHolds, PTL

-----------------------------------------------------------------------------
(* The wallet implements the ledger of its profiles.                       *)

\* What the claims and the balance say of each profile is its own money.
LEMMA FundsAreOwn ==
  ASSUME TypeOK, ClaimsInv, OwnInv, Accountable
  PROVE  Funds = own
<1>1. IsFiniteSet(Claimers) /\ \A p \in Profiles : own[p] \in Int /\ claims[p] \in Int /\ overdrawn[p] \in Int
  BY OthersTyped DEF TypeOK
<1>2. ASSUME NEW p \in Claimers PROVE Claimed[p] = own[p]
  <2>1. Unbooked(p) \in Int
    BY OutstandingTyped, LandedTyped DEF Unbooked
  <2>2. claims[p] + Unbooked(p) = own[p] + overdrawn[p]
    BY DEF ClaimsInv, Exact
  <2> QED
    BY <1>1, <2>1, <2>2 DEF Claimed, Claimers
<1>3. DOMAIN Claimed = Claimers
  BY DEF Claimed
<1>4. SumFunction(Claimed) = Others
  BY <1>1, <1>2, <1>3, SumSame DEF SumFunction, Others
<1>5. bal[head] - SumFunction(Claimed) = own[Residual]
  BY <1>1, <1>4, OthersTyped, ProfilesAssumption DEF OwnInv
<1>6. \A p \in Profiles : (IF p = Residual THEN bal[head] - SumFunction(Claimed) ELSE Claimed[p]) = own[p]
  BY <1>2, <1>5 DEF Claimers
<1>7. own = [p \in Profiles |-> own[p]]
  BY DEF TypeOK
<1> QED
  BY <1>6, <1>7 DEF Funds

\* Of every step at most one profile's funds move, by what one write or one
\* outside transfer moves.
LEMMA OwnMoves ==
  ASSUME TypeOK, ClaimsInv, OwnInv, [Next]_vars
  PROVE  \/ own' = own
         \/ \E p \in Profiles, d \in Amounts : own' = [own EXCEPT ![p] = @ + d]
         \/ \E d \in Donations : own' = [own EXCEPT ![Residual] = @ + d]
<1>1. CASE UNCHANGED vars
  BY <1>1 DEF vars, history
<1>2. CASE \E p \in Profiles : Quiet(p) \/ Prepare(p) \/ Send(p) \/ Books(p) \/ Loses(p)
  <2>1. PICK p \in Profiles : Quiet(p) \/ Prepare(p) \/ Send(p) \/ Books(p) \/ Loses(p)
    BY <1>2
  <2>2. CASE Quiet(p)
    BY <2>2, QuietUnmoved DEF Unmoved
  <2>3. CASE Prepare(p) \/ Send(p)
    BY <2>3, PrepareFacts, SendFacts
  <2>4. CASE Books(p)
    BY <2>4, BooksFacts
  <2>5. CASE Loses(p)
    BY <2>5 DEF Loses, ReturnNothing, Crash
  <2> QED
    BY <2>1, <2>2, <2>3, <2>4, <2>5
<1>3. ASSUME NEW i \in Txs, Land(i)
      PROVE  \E p \in Profiles, d \in Amounts : own' = [own EXCEPT ![p] = @ + d]
  <2>1. txs[i].state = "flying" /\ own' = [own EXCEPT ![txs[i].by] = @ + txs[i].delta]
    BY <1>3, LandFacts
  <2>2. txs[i].by \in Profiles /\ txs[i].delta \in Amounts
    BY <2>1 DEF OwnInv
  <2> QED
    BY <2>1, <2>2
<1>4. ASSUME NEW i \in Txs, FailOnChain(i) \/ Expire(i)
      PROVE  own' = own
  BY <1>4, DeadFacts
<1>5. CASE Age
  BY <1>5 DEF Age
<1>6. ASSUME NEW d \in Donations, Donate(d)
      PROVE  own' = [own EXCEPT ![Residual] = @ + d]
  BY <1>6 DEF Donate
<1> QED
  BY <1>1, <1>2, <1>3, <1>4, <1>5, <1>6, Kinds

\* The wallet's funds, read from the database and the chain, move as the
\* ledger's: a write moves its own profile's in the one step in which it
\* lands, outside transfers the residual holder's, and no lag, crash or
\* booking moves anybody's.
THEOREM LedgerHolds == Spec => ImplementsLedger
<1>1. Init => Ledger!Init
  <2>1. Init => Accountable /\ own = InitFunds
    BY DEF Init, Accountable
  <2> QED
    BY <2>1, InitTyped, InitClaims, InitOwn, FundsAreOwn DEF Ledger!Init
<1>2. TypeOK /\ ClaimsInv /\ OwnInv /\ Accountable => Funds = own
  BY FundsAreOwn
<1>3. (TypeOK /\ ClaimsInv /\ OwnInv /\ Accountable => Funds = own)'
  BY <1>2, PTL
<1>4. ASSUME TypeOK, ClaimsInv, OwnInv, [Next]_vars, TypeOK', ClaimsInv', OwnInv', Accountable'
      PROVE  [Ledger!Next]_(Ledger!vars)
  <2>1. Funds = own
    BY <1>2, <1>4, StraysGrow
  <2>2. Funds' = own'
    BY <1>3, <1>4
  <2> QED
    BY <1>4, <2>1, <2>2, OwnMoves DEF Ledger!Next, Ledger!vars, Ledger!Write, Ledger!Receive
<1>5. TypeOK /\ WalletInv /\ [Next]_vars /\ TypeOK' /\ WalletInv'
        => [Accountable' => [Ledger!Next]_(Ledger!vars)]_vars
  BY <1>4 DEF WalletInv
<1> QED
  BY <1>1, <1>5, TypesHold, WalletHolds, PTL DEF Spec, ImplementsLedger
=============================================================================
