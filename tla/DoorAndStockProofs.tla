------------------------- MODULE DoorAndStockProofs --------------------------
(***************************************************************************)
(* Proofs about ExitDoor and about StockLedger, for any number of passes,  *)
(* codes, items, requests and workers.                                     *)
(*                                                                         *)
(* The door: when a code can be shared and when a pass can let two guests  *)
(* out.  The invariant is DoorTypeOK /\ DoorInv: a second exit needs two   *)
(* scans that met (ScansInv), a shared code needs two issues that met      *)
(* (CodesInv), and both rest on what the handlers hold (HandlersInv).      *)
(*                                                                         *)
(* The stock: when the ledger explains the shelf.  The invariant is        *)
(* ShelfTypeOK with WorkInv, LedgerInv and AloneInv: a handler commits     *)
(* what it has worked out from a level it read a while ago, which is right *)
(* while nobody else is at work on the item.  SumsInv is about what the    *)
(* rows add up to: each commit adds one that is newer than all the others  *)
(* of its item and moves the level by its delta, unless it sells below     *)
(* zero, and a count is where the sum starts afresh.                       *)
(***************************************************************************)
EXTENDS ExitDoor, StockLedger, Sums

DoorIInv == DoorTypeOK /\ DoorInv

LEMMA DoorStart == DoorInit => DoorIInv
<1> SUFFICES ASSUME DoorInit PROVE DoorIInv
  OBVIOUS
<1>1. DoorTypeOK
  BY DoorIds DEF DoorInit, DoorTypeOK, NoJob, Handler
<1>2. HandlersInv /\ ScansInv /\ CodesInv
  BY DEF DoorInit, NoJob, HandlersInv, ScansInv, Scans, CodesInv
<1>3. SharedCodeNeedsRace /\ AdmittedIsMarked /\ LockedOutOnlyByDeath
  BY DEF DoorInit, SharedCodeNeedsRace, Live, Issued, AdmittedIsMarked, LockedOutOnlyByDeath
<1> QED BY <1>1, <1>2, <1>3 DEF DoorIInv, DoorInv

\* What each step does to the handler that takes it.
LEMMA JobStep ==
  ASSUME DoorIInv, NEW w \in Workers, NEW h, job' = [job EXCEPT ![w] = h]
  PROVE  job'[w] = h /\ \A v \in Workers \ {w} : job'[v] = job[v]
BY DEF DoorIInv, DoorTypeOK

\* Passes only die: what is live after a step was so before, if it is no new one.
LEMMA LiveShrinks ==
  ASSUME DoorIInv, UNCHANGED <<code, expires>>, used \subseteq used',
         now' \in Nat, now <= now'
  PROVE  /\ \A p \in Passes : Live(p)' => Live(p)
         /\ \A k : Holders(k)' \subseteq Holders(k)
<1>1. \A p \in Passes : expires[p] \in Nat /\ now \in Nat
  BY DEF DoorIInv, DoorTypeOK
<1>2. ASSUME NEW p \in Passes, Live(p)' PROVE Live(p)
  BY <1>1, <1>2 DEF Live, Issued
<1>3. ASSUME NEW k PROVE {p \in Passes : Live(p)' /\ code'[p] = k} \subseteq Holders(k)
  BY <1>2 DEF Holders
<1> QED BY <1>2, <1>3 DEF Holders

\* Steps that give no code out.
LEMMA CodesKept ==
  ASSUME DoorIInv, UNCHANGED <<code, expires, raced>>, used \subseteq used',
         now' \in Nat, now <= now',
         \A w \in Workers : job'[w].at = "issuing" => job'[w] = job[w]
  PROVE  CodesInv' /\ SharedCodeNeedsRace'
<1>1. /\ \A p \in Passes : Live(p)' => Live(p)
      /\ \A k : Holders(k)' \subseteq Holders(k)
  BY LiveShrinks
<1>2. SharedCodeNeedsRace'
  BY <1>1 DEF DoorIInv, DoorInv, SharedCodeNeedsRace
<1>3. ASSUME NEW w \in Workers, job'[w].at = "issuing",
             job'[w].code \notin raced' \union LongCodes,
             NEW p \in Passes, Live(p)', code'[p] = job'[w].code
      PROVE  FALSE
  <2>1. Holders(job[w].code) = {} /\ job'[w] = job[w]
    BY <1>3 DEF DoorIInv, DoorInv, CodesInv
  <2>2. Live(p) /\ code[p] = job[w].code
    BY <1>1, <1>3, <2>1
  <2> QED BY <2>1, <2>2 DEF Holders
<1>4. CodesInv'
  BY <1>3 DEF CodesInv, Holders
<1> QED BY <1>2, <1>4

\* _create_exit_pass begins.
LEMMA IssueReadStep ==
  ASSUME DoorIInv, NEW w \in Workers, NEW p \in Passes, IssueRead(w, p)
  PROVE  DoorIInv'
<1>1. PICK k \in Drawn :
        /\ job[w] = NoJob
        /\ job' = [job EXCEPT ![w] = [at |-> "issuing", pass |-> p, code |-> k,
                                        until |-> now + Life]]
  BY DEF IssueRead, Begin, ExpiresAt
<1>2. /\ job'[w] = [at |-> "issuing", pass |-> p, code |-> k, until |-> now + Life]
      /\ \A v \in Workers \ {w} : job'[v] = job[v]
  BY <1>1, JobStep
<1>3. k \in Codes \union LongCodes /\ (k \notin LongCodes => Holders(k) = {})
  BY DEF Drawn, CodeIsFree
<1>4. /\ UNCHANGED <<rows, now, jobDeaths, history>>
      /\ code[p] = None /\ \A v \in Workers : job[v].pass # p
  BY DEF IssueRead
<1>5. DoorTypeOK'
  <2>1. job'[w] \in Handler
    BY <1>2, <1>3, DoorBounds DEF Handler, DoorIInv, DoorTypeOK
  <2> QED BY <1>1, <1>4, <2>1, <1>2 DEF DoorIInv, DoorTypeOK, rows, history
<1>6. HandlersInv'
  BY <1>2, <1>3, <1>4, DoorIds DEF DoorIInv, DoorInv, HandlersInv, rows
<1>7. ScansInv'
  BY <1>2, <1>4 DEF DoorIInv, DoorInv, ScansInv, Scans, history
<1>8. SharedCodeNeedsRace' /\ AdmittedIsMarked'
  BY <1>4 DEF DoorIInv, DoorInv, SharedCodeNeedsRace, AdmittedIsMarked, Live, Issued,
              rows, history
<1>9. LockedOutOnlyByDeath'
  BY <1>1, <1>2, <1>4 DEF DoorIInv, DoorInv, LockedOutOnlyByDeath, NoJob, rows, history
<1>10. CodesInv'
  BY <1>2, <1>3, <1>4 DEF DoorIInv, DoorInv, CodesInv, Holders, Live, Issued, rows, history
<1> QED BY <1>5, <1>6, <1>7, <1>8, <1>9, <1>10 DEF DoorIInv, DoorInv

\* The pass is there: its code is shared only with one given out meanwhile.
LEMMA IssueCommitStep ==
  ASSUME DoorIInv, NEW w \in Workers, IssueCommit(w)
  PROVE  DoorIInv'
<1>1. PICK p \in Passes, k \in Codes \union LongCodes, u \in Nat :
        /\ p = job[w].pass /\ k = job[w].code /\ u = job[w].until
        /\ code[p] = None
        /\ \A v \in Workers \ {w} : job[v].pass # p
  BY DEF IssueCommit, DoorIInv, DoorTypeOK, Handler, DoorInv, HandlersInv
<1>2. /\ job[w].at = "issuing"
      /\ code' = [code EXCEPT ![p] = k] /\ expires' = [expires EXCEPT ![p] = u]
      /\ job' = [job EXCEPT ![w] = NoJob]
      /\ UNCHANGED <<used, now, jobDeaths, admitted, turnedAway, overlapped>>
  BY <1>1 DEF IssueCommit, JobDone
<1>3. /\ raced \subseteq raced' /\ raced' \subseteq raced \union {k}
      /\ (\E v \in Workers \ {w} : job[v].at = "issuing" /\ job[v].code = k) => k \in raced'
  BY <1>1 DEF IssueCommit
<1>4. job'[w] = NoJob /\ \A v \in Workers \ {w} : job'[v] = job[v]
  BY <1>2, JobStep
<1>5. code'[p] = k /\ \A q \in Passes \ {p} : code'[q] = code[q] /\ expires'[q] = expires[q]
  BY <1>2 DEF DoorIInv, DoorTypeOK
<1>6. \A q \in Passes \ {p} : Live(q)' <=> Live(q)
  BY <1>2, <1>5 DEF Live, Issued
<1>7. DoorTypeOK'
  <2>1. NoJob \in Handler
    BY DEF NoJob, Handler
  <2> QED BY <1>1, <1>2, <1>3, <2>1 DEF DoorIInv, DoorTypeOK
<1>8. HandlersInv'
  BY <1>1, <1>2, <1>4, <1>5, DoorIds DEF DoorIInv, DoorInv, HandlersInv, NoJob
<1>9. ScansInv'
  BY <1>2, <1>4 DEF DoorIInv, DoorInv, ScansInv, Scans, NoJob
<1>10. SharedCodeNeedsRace'
  <2>1. ASSUME NEW q \in Passes, q # p, Live(q)', code'[q] = k,
               k \notin raced' \union LongCodes
        PROVE  FALSE
    <3>1. Holders(k) = {}
      BY <1>1, <1>2, <1>3, <2>1 DEF DoorIInv, DoorInv, CodesInv
    <3> QED BY <1>5, <1>6, <2>1, <3>1 DEF Holders
  <2>2. ASSUME NEW q \in Passes, NEW r \in Passes, q # p, r # p, q # r,
               Live(q)', Live(r)', code'[q] = code'[r]
        PROVE  code'[q] \in raced' \union LongCodes
    BY <1>3, <1>5, <1>6, <2>2 DEF DoorIInv, DoorInv, SharedCodeNeedsRace
  <2> QED BY <1>5, <2>1, <2>2 DEF SharedCodeNeedsRace
<1>11. AdmittedIsMarked' /\ LockedOutOnlyByDeath'
  BY <1>2, <1>4 DEF DoorIInv, DoorInv, AdmittedIsMarked, LockedOutOnlyByDeath
<1>12. CodesInv'
  <2>1. ASSUME NEW v \in Workers, job'[v].at = "issuing",
               job'[v].code \notin raced' \union LongCodes,
               NEW q \in Passes, Live(q)', code'[q] = job'[v].code
        PROVE  FALSE
    <3>1. v # w /\ job'[v] = job[v]
      BY <1>4, <2>1 DEF NoJob
    <3>2. job[v].code # k
      BY <1>3, <2>1, <3>1
    <3>3. q # p /\ Live(q) /\ code[q] = job[v].code
      BY <1>5, <1>6, <2>1, <3>1, <3>2
    <3>4. Holders(job[v].code) = {}
      BY <1>3, <2>1, <3>1 DEF DoorIInv, DoorInv, CodesInv
    <3> QED BY <3>3, <3>4 DEF Holders
  <2> QED BY <2>1 DEF CodesInv, Holders
<1> QED BY <1>7, <1>8, <1>9, <1>10, <1>11, <1>12 DEF DoorIInv, DoorInv

\* A scan: two that find one pass valid have met.
LEMMA ScanReadStep ==
  ASSUME DoorIInv, NEW w \in Workers, NEW p \in Passes, NEW typed \in BOOLEAN,
         ScanRead(w, p, typed)
  PROVE  DoorIInv'
<1>1. PICK q \in Matches(p, typed) :
        \/ /\ Status(q) = "valid"
           /\ Begin(w, [at |-> "marking", pass |-> q, code |-> None, until |-> 0])
           /\ overlapped' = IF \E v \in Workers : job[v].at = "marking" /\ job[v].pass = q
                            THEN overlapped \union {q} ELSE overlapped
           /\ UNCHANGED turnedAway
        \/ /\ turnedAway' \subseteq turnedAway \union {p}
           /\ UNCHANGED <<job, overlapped>>
  BY DEF ScanRead
<1>2. /\ p \in Issued
      /\ UNCHANGED <<rows, now, jobDeaths, admitted, raced>>
  BY DEF ScanRead
<1>3. q \in Passes /\ code[q] # None
  BY <1>2 DEF Matches, Issued
<1>4. CASE UNCHANGED <<job, overlapped>> /\ turnedAway' \subseteq turnedAway \union {p}
  <2>1. DoorTypeOK'
    BY <1>2, <1>4 DEF DoorIInv, DoorTypeOK, rows
  <2>2. HandlersInv' /\ ScansInv'
    BY <1>2, <1>4 DEF DoorIInv, DoorInv, HandlersInv, ScansInv, Scans, rows
  <2>3. CodesInv' /\ SharedCodeNeedsRace'
    BY <1>2, <1>4 DEF DoorIInv, DoorInv, CodesInv, SharedCodeNeedsRace, Holders, Live, Issued, rows
  <2>4. AdmittedIsMarked' /\ LockedOutOnlyByDeath'
    BY <1>2, <1>4 DEF DoorIInv, DoorInv, AdmittedIsMarked, LockedOutOnlyByDeath, rows
  <2> QED BY <2>1, <2>2, <2>3, <2>4 DEF DoorIInv, DoorInv
<1>5. CASE /\ Status(q) = "valid"
           /\ Begin(w, [at |-> "marking", pass |-> q, code |-> None, until |-> 0])
           /\ overlapped' = IF \E v \in Workers : job[v].at = "marking" /\ job[v].pass = q
                            THEN overlapped \union {q} ELSE overlapped
           /\ UNCHANGED turnedAway
  <2> DEFINE h == [at |-> "marking", pass |-> q, code |-> None, until |-> 0]
  <2>1. job[w] = NoJob /\ job' = [job EXCEPT ![w] = h]
    BY <1>5 DEF Begin
  <2>2. job'[w] = h /\ \A v \in Workers \ {w} : job'[v] = job[v]
    BY <2>1, JobStep
  <2>3. q \notin used
    BY <1>5 DEF Status
  <2>4. DoorTypeOK'
    BY <1>2, <1>3, <1>5, <2>1, <2>2 DEF DoorIInv, DoorTypeOK, Handler, rows
  <2>5. HandlersInv'
    BY <1>2, <1>3, <2>1, <2>2 DEF DoorIInv, DoorInv, HandlersInv, rows
  <2>6. ASSUME NEW r \in Passes \ overlapped'
        PROVE  /\ admitted'[r] <= 1
               /\ \A v \in Workers : Scans(v, r)' =>
                    admitted'[r] = 0 /\ \A u \in Workers \ {v} : ~Scans(u, r)'
    <3>1. r \notin overlapped /\ admitted'[r] = admitted[r]
      BY <1>2, <1>5, <2>6
    <3>2. CASE r # q
      BY <2>2, <3>1, <3>2 DEF DoorIInv, DoorInv, ScansInv, Scans
    <3>3. CASE r = q
      <4>1. admitted[q] = 0
        BY <1>3, <2>3 DEF DoorIInv, DoorInv, AdmittedIsMarked, DoorTypeOK
      <4>2. \A v \in Workers : ~Scans(v, q)
        BY <1>3, <1>5, <2>3, <2>6, <3>3 DEF Scans, DoorIInv, DoorInv, HandlersInv
      <4> QED BY <2>2, <3>1, <3>3, <4>1, <4>2 DEF Scans
    <3> QED BY <3>2, <3>3
  <2>7. ScansInv'
    BY <2>6 DEF ScansInv
  <2>8. /\ \A v \in Workers : job'[v].at = "issuing" => job'[v] = job[v]
        /\ UNCHANGED <<code, expires, raced, now>> /\ used \subseteq used'
        /\ now' \in Nat /\ now <= now'
    BY <1>2, <2>2 DEF rows, DoorIInv, DoorTypeOK
  <2>9. CodesInv' /\ SharedCodeNeedsRace'
    BY <2>8, CodesKept
  <2>10. AdmittedIsMarked' /\ LockedOutOnlyByDeath'
    BY <1>2, <2>1, <2>2 DEF DoorIInv, DoorInv, AdmittedIsMarked, LockedOutOnlyByDeath, rows, NoJob
  <2> QED BY <2>4, <2>5, <2>7, <2>9, <2>10 DEF DoorIInv, DoorInv
<1> QED BY <1>1, <1>4, <1>5

\* The mark, the answer, and a death on the way.
LEMMA HandlerEndStep ==
  ASSUME DoorIInv, NEW w \in Workers, ScanCommit(w) \/ ScanAnswer(w) \/ JobDies(w)
  PROVE  DoorIInv'
<1>0. job[w] \in Handler /\ NoJob \in Handler
  BY DEF DoorIInv, DoorTypeOK, NoJob, Handler
<1>1. CASE ScanCommit(w)
  <2>1. PICK q \in Passes : q = job[w].pass /\ code[q] # None
    BY <1>1 DEF ScanCommit, DoorIInv, DoorInv, HandlersInv
  <2>2. /\ job[w].at = "marking" /\ used' = used \union {q}
        /\ job' = [job EXCEPT ![w].at = "answering"]
        /\ UNCHANGED <<code, expires, now, jobDeaths, history>>
    BY <1>1, <2>1 DEF ScanCommit, Marked, Becomes
  <2>3. /\ job'[w].at = "answering" /\ job'[w].pass = q /\ job'[w] \in Handler
        /\ \A v \in Workers \ {w} : job'[v] = job[v]
    BY <1>0, <2>1, <2>2 DEF DoorIInv, DoorTypeOK, Handler
  <2>4. DoorTypeOK'
    BY <2>2, <2>3 DEF DoorIInv, DoorTypeOK, history
  <2>5. HandlersInv'
    BY <2>1, <2>2, <2>3 DEF DoorIInv, DoorInv, HandlersInv
  <2>6. ScansInv'
    <3>1. \A v \in Workers, p \in Passes : Scans(v, p)' <=> Scans(v, p)
      BY <2>1, <2>2, <2>3 DEF Scans
    <3> QED BY <2>2, <3>1 DEF DoorIInv, DoorInv, ScansInv, history
  <2>7. CodesInv' /\ SharedCodeNeedsRace'
    <3>1. /\ \A v \in Workers : job'[v].at = "issuing" => job'[v] = job[v]
          /\ now' \in Nat /\ now <= now'
      BY <2>2, <2>3 DEF DoorIInv, DoorTypeOK
    <3> QED BY <2>2, <3>1, CodesKept DEF history
  <2>8. AdmittedIsMarked' /\ LockedOutOnlyByDeath'
    BY <2>1, <2>2, <2>3 DEF DoorIInv, DoorInv, AdmittedIsMarked, LockedOutOnlyByDeath, history
  <2> QED BY <2>4, <2>5, <2>6, <2>7, <2>8 DEF DoorIInv, DoorInv
<1>2. CASE ScanAnswer(w)
  <2>1. PICK q \in Passes : q = job[w].pass /\ q \in used
    BY <1>2 DEF ScanAnswer, DoorIInv, DoorInv, HandlersInv
  <2>2. /\ job[w].at = "answering"
        /\ admitted' = [admitted EXCEPT ![q] = @ + 1]
        /\ job' = [job EXCEPT ![w] = NoJob]
        /\ UNCHANGED <<rows, now, jobDeaths, turnedAway, overlapped, raced>>
    BY <1>2, <2>1 DEF ScanAnswer, JobDone
  <2>3. job'[w] = NoJob /\ \A v \in Workers \ {w} : job'[v] = job[v]
    BY <2>2, JobStep
  <2>4. admitted'[q] = admitted[q] + 1 /\ \A r \in Passes \ {q} : admitted'[r] = admitted[r]
    BY <2>2 DEF DoorIInv, DoorTypeOK
  <2>5. DoorTypeOK'
    BY <1>0, <2>2 DEF DoorIInv, DoorTypeOK, rows
  <2>6. HandlersInv'
    BY <2>2, <2>3, DoorIds DEF DoorIInv, DoorInv, HandlersInv, NoJob, rows
  <2>7. ASSUME NEW r \in Passes \ overlapped'
        PROVE  /\ admitted'[r] <= 1
               /\ \A v \in Workers : Scans(v, r)' =>
                    admitted'[r] = 0 /\ \A u \in Workers \ {v} : ~Scans(u, r)'
    <3>1. \A v \in Workers : Scans(v, r)' => v # w /\ Scans(v, r)
      BY <2>3 DEF Scans, NoJob
    <3>2. CASE r # q
      BY <2>2, <2>4, <3>1, <3>2 DEF DoorIInv, DoorInv, ScansInv
    <3>3. CASE r = q
      <4>1. Scans(w, q)
        BY <2>1, <2>2 DEF Scans
      <4>2. admitted[q] = 0 /\ \A v \in Workers \ {w} : ~Scans(v, q)
        BY <2>2, <2>7, <3>3, <4>1 DEF DoorIInv, DoorInv, ScansInv
      <4> QED BY <2>4, <3>1, <3>3, <4>2
    <3> QED BY <3>2, <3>3
  <2>8. ScansInv'
    BY <2>7 DEF ScansInv
  <2>9. CodesInv' /\ SharedCodeNeedsRace'
    <3>1. /\ \A v \in Workers : job'[v].at = "issuing" => job'[v] = job[v]
          /\ now' \in Nat /\ now <= now'
      BY <2>2, <2>3 DEF DoorIInv, DoorTypeOK, NoJob
    <3> QED BY <2>2, <3>1, CodesKept DEF rows
  <2>10. AdmittedIsMarked' /\ LockedOutOnlyByDeath'
    <3>1. admitted'[q] > 0 /\ q \in used'
      BY <2>1, <2>2, <2>4 DEF DoorIInv, DoorTypeOK, rows
    <3> QED BY <2>1, <2>2, <2>3, <2>4, <3>1
            DEF DoorIInv, DoorInv, AdmittedIsMarked, LockedOutOnlyByDeath, rows
  <2> QED BY <2>5, <2>6, <2>8, <2>9, <2>10 DEF DoorIInv, DoorInv
<1>3. CASE JobDies(w)
  <2>1. /\ jobDeaths' = jobDeaths + 1 /\ job' = [job EXCEPT ![w] = NoJob]
        /\ UNCHANGED <<rows, now, history>>
    BY <1>3 DEF JobDies, JobDone
  <2>2. job'[w] = NoJob /\ \A v \in Workers \ {w} : job'[v] = job[v]
    BY <2>1, JobStep
  <2>3. DoorTypeOK'
    BY <1>0, <2>1 DEF DoorIInv, DoorTypeOK, rows, history
  <2>4. HandlersInv' /\ ScansInv'
    BY <2>1, <2>2, DoorIds
       DEF DoorIInv, DoorInv, HandlersInv, ScansInv, Scans, NoJob, rows, history
  <2>5. CodesInv' /\ SharedCodeNeedsRace'
    <3>1. /\ \A v \in Workers : job'[v].at = "issuing" => job'[v] = job[v]
          /\ now' \in Nat /\ now <= now'
      BY <2>1, <2>2 DEF DoorIInv, DoorTypeOK, NoJob
    <3> QED BY <2>1, <3>1, CodesKept DEF rows, history
  <2>6. AdmittedIsMarked' /\ LockedOutOnlyByDeath'
    BY <2>1, <2>2 DEF DoorIInv, DoorInv, DoorTypeOK, AdmittedIsMarked, LockedOutOnlyByDeath,
                      rows, history
  <2> QED BY <2>3, <2>4, <2>5, <2>6 DEF DoorIInv, DoorInv
<1> QED BY <1>1, <1>2, <1>3

LEMMA DoorStep == DoorIInv /\ [DoorNext]_doorVars => DoorIInv'
<1> SUFFICES ASSUME DoorIInv, [DoorNext]_doorVars PROVE DoorIInv'
  OBVIOUS
<1>1. CASE Tick
  <2>1. now' = now + 1 /\ UNCHANGED <<rows, job, jobDeaths, history>>
    BY <1>1 DEF Tick
  <2>2. DoorTypeOK'
    BY <2>1 DEF DoorIInv, DoorTypeOK, rows, history
  <2>3. HandlersInv' /\ ScansInv'
    BY <2>1 DEF DoorIInv, DoorInv, HandlersInv, ScansInv, Scans, rows, history
  <2>4. CodesInv' /\ SharedCodeNeedsRace'
    <3>1. now' \in Nat /\ now <= now'
      BY <2>1 DEF DoorIInv, DoorTypeOK
    <3> QED BY <2>1, <3>1, CodesKept DEF rows, history
  <2>5. AdmittedIsMarked' /\ LockedOutOnlyByDeath'
    BY <2>1 DEF DoorIInv, DoorInv, AdmittedIsMarked, LockedOutOnlyByDeath, rows, history
  <2> QED BY <2>2, <2>3, <2>4, <2>5 DEF DoorIInv, DoorInv
<1>2. CASE UNCHANGED doorVars
  <2>1. DoorTypeOK' /\ HandlersInv' /\ ScansInv'
    BY <1>2 DEF DoorIInv, DoorInv, DoorTypeOK, HandlersInv, ScansInv, Scans, doorVars, rows, history
  <2>2. CodesInv' /\ SharedCodeNeedsRace' /\ AdmittedIsMarked' /\ LockedOutOnlyByDeath'
    BY <1>2 DEF DoorIInv, DoorInv, CodesInv, SharedCodeNeedsRace, AdmittedIsMarked,
                LockedOutOnlyByDeath, Holders, Live, Issued, doorVars, rows, history
  <2> QED BY <2>1, <2>2 DEF DoorIInv, DoorInv
<1>3. ASSUME NEW w \in Workers, NEW p \in Passes, IssueFails(w, p) PROVE UNCHANGED doorVars
  BY <1>3 DEF IssueFails
<1> QED BY <1>1, <1>2, <1>3, IssueReadStep, IssueCommitStep, ScanReadStep,
           HandlerEndStep DEF DoorNext

\* Rows, handlers and records keep their types.
THEOREM DoorTypeCorrect == DoorSpec => []DoorTypeOK
<1>1. DoorIInv => DoorTypeOK
  BY DEF DoorIInv
<1> QED BY <1>1, DoorStart, DoorStep, PTL DEF DoorSpec

\* Two passes that are live together have one short code only if it was given
\* out by two handlers at once or is a long one.
THEOREM LiveCodesDiffer == DoorSpec => []SharedCodeNeedsRace
<1>1. DoorIInv => SharedCodeNeedsRace
  BY DEF DoorIInv, DoorInv
<1> QED BY <1>1, DoorStart, DoorStep, PTL DEF DoorSpec

\* One pass lets two guests out only if two scans of it were under way together.
THEOREM SecondExitNeedsTwoScans == DoorSpec => []DoubleExitNeedsOverlap
<1>1. DoorIInv => DoubleExitNeedsOverlap
  <2>1. \A p \in Passes : admitted[p] \in Nat => ~(admitted[p] > 1 /\ admitted[p] <= 1)
    OBVIOUS
  <2> QED BY <2>1 DEF DoorIInv, DoorTypeOK, DoorInv, ScansInv, DoubleExitNeedsOverlap
<1> QED BY <1>1, DoorStart, DoorStep, PTL DEF DoorSpec

\* Whoever is out has a pass that is marked, and a pass marked for nobody is
\* the work of a handler that died.
THEOREM MarksFitExits == DoorSpec => []MarksFit
<1>1. DoorIInv => MarksFit
  BY DEF DoorIInv, DoorInv, MarksFit
<1> QED BY <1>1, DoorStart, DoorStep, PTL DEF DoorSpec

-----------------------------------------------------------------------------
ShelfIInv == /\ StockConstants /\ ShelfTypeOK /\ WorkInv /\ LedgerInv /\ AloneInv
             /\ HistoryReads /\ RestoredOnce /\ VoidsStand

USE DEF Kinds, Reasons, OnLine

-----------------------------------------------------------------------------
\* What a request may be.
LEMMA RequestFacts ==
  ASSUME StockConstants, NEW r \in StockRequests
  PROVE  /\ Kind[r] \in Kinds /\ Reason[r] \in Reasons
         /\ Touches(r) \subseteq Items
         /\ \A i \in Touches(r) :
              Units[r][i] \in Int /\ (Kind[r] \in {"count", "edit"} => Units[r][i] >= 0)
         /\ Kind[r] \notin OnLine => Undoes[r] = Null
         /\ Null \notin Int /\ Null \notin StockRequests /\ r # Null
BY DEF StockConstants, Touches

\* A void or a tap is of one line, of which a void gives back all.
LEMMA VoidFacts ==
  ASSUME StockConstants, NEW r \in StockRequests, Kind[r] \in OnLine
  PROVE  \E i \in Items :
           /\ Touches(r) = {i} /\ Line(r) = <<Undoes[r], i>> /\ Undoes[r] \in StockRequests
           /\ i \in Touches(Undoes[r]) /\ Units[r][i] = Units[Undoes[r]][i]
<1>1. PICK i \in Touches(Undoes[r]) : Units[r] = [j \in {i} |-> Units[Undoes[r]][i]]
  BY DEF StockConstants
<1>2. Undoes[r] \in StockRequests
  BY DEF StockConstants
<1>3. i \in Items
  BY <1>1, <1>2, RequestFacts
<1>4. Touches(r) = {i} /\ Units[r][i] = Units[Undoes[r]][i]
  BY <1>1 DEF Touches
<1>5. Line(r) = <<Undoes[r], i>>
  BY <1>4 DEF Line
<1> QED BY <1>1, <1>2, <1>3, <1>4, <1>5

\* Voids and taps of one line touch one item, and nothing else has a line of a sale.
LEMMA SameLine ==
  ASSUME StockConstants, NEW r \in StockRequests, NEW q \in StockRequests, Kind[r] \in OnLine,
         Line(q) = Line(r)
  PROVE  Kind[q] \in OnLine /\ Touches(q) = Touches(r)
<1>1. PICK i \in Items : Touches(r) = {i} /\ Line(r) = <<Undoes[r], i>>
             /\ Undoes[r] \in StockRequests
  BY VoidFacts
<1>2. Undoes[q] = Undoes[r]
  BY <1>1 DEF Line
<1>3. Kind[q] \in OnLine
  BY <1>1, <1>2, RequestFacts
<1>4. PICK j \in Items : Touches(q) = {j} /\ Line(q) = <<Undoes[q], j>>
  BY <1>3, VoidFacts
<1> QED BY <1>1, <1>3, <1>4

\* Levels and balances are never negative.
LEMMA NumberFacts ==
  ASSUME StockConstants, NEW r \in StockRequests, NEW i \in Touches(r), NEW l \in Nat \union {Null}
  PROVE  /\ Delta(r, i, l) \in Int /\ After(r, i, l) \in Nat
         /\ Target(r, i, l) \in Nat \union {Null}
         /\ Target(r, i, l) = Null => l = Null
         /\ Moves(r, l) => Target(r, i, l) = After(r, i, l)
         /\ ~Moves(r, l) /\ Kind[r] # "edit" => Target(r, i, l) = l
         /\ Lacked(r, i, l) \in Nat
         /\ After(r, i, l) = Known(l) + Delta(r, i, l) + Lacked(r, i, l)
<1>1. Units[r][i] \in Int /\ Null \notin Int /\ Known(l) \in Nat
      /\ (Kind[r] = "edit" => Units[r][i] \in Nat)
  BY RequestFacts DEF Known
<1>2. Delta(r, i, l) \in Int
  BY <1>1 DEF Delta
<1>3. After(r, i, l) \in Nat
  BY <1>1, <1>2 DEF After, Floor
<1>0. /\ Lacked(r, i, l) \in Nat
      /\ After(r, i, l) = Known(l) + Delta(r, i, l) + Lacked(r, i, l)
  BY <1>1, <1>2 DEF After, Floor, Lacked
<1>4. CASE Kind[r] = "edit"
  BY <1>0, <1>1, <1>2, <1>3, <1>4 DEF Target, Moves
<1>5. CASE Kind[r] # "edit" /\ Moves(r, l)
  BY <1>0, <1>1, <1>2, <1>3, <1>5 DEF Target
<1>6. CASE Kind[r] # "edit" /\ ~Moves(r, l)
  BY <1>0, <1>1, <1>2, <1>3, <1>6 DEF Target
<1> QED BY <1>4, <1>5, <1>6

-----------------------------------------------------------------------------
LEMMA ShelfStart == StockConstants /\ ShelfInit => ShelfIInv
<1> SUFFICES ASSUME StockConstants, ShelfInit PROVE ShelfIInv
  OBVIOUS
<1>1. NoWork \in Work /\ NoWork.req = Null /\ NoWork.read = Opening
  BY DEF NoWork, Work, StockConstants
<1>2. ShelfTypeOK
  BY <1>1 DEF ShelfInit, ShelfTypeOK, StockConstants
<1>3. WorkInv /\ LedgerInv
  BY <1>1 DEF ShelfInit, WorkInv, LedgerInv
<1>4. AloneInv
  BY <1>1 DEF ShelfInit, AloneInv
<1>5. HistoryReads /\ RestoredOnce /\ VoidsStand
  BY DEF ShelfInit, HistoryReads, RestoredOnce, VoidsStand, Rows
<1> QED BY <1>2, <1>3, <1>4, <1>5 DEF ShelfIInv

\* Steps that store nothing, and change one handler.
LEMMA WorkStep ==
  ASSUME ShelfIInv, NEW w \in Workers, NEW h, work' = [work EXCEPT ![w] = h]
  PROVE  work'[w] = h /\ \A v \in Workers \ {w} : work'[v] = work[v]
BY DEF ShelfIInv, ShelfTypeOK

LEMMA NothingStored ==
  ASSUME ShelfIInv, UNCHANGED <<level, ledger, voided, revived>>, met \subseteq met',
         edited \subseteq edited', started' \in {started, started + 1}
  PROVE  HistoryReads' /\ RestoredOnce' /\ VoidsStand'
<1>1. \A i : Rows(i)' = Rows(i)
  BY DEF Rows
<1>2. HistoryReads' /\ RestoredOnce'
  BY <1>1 DEF ShelfIInv, HistoryReads, RestoredOnce, Line, Touches, IsVoid, Revival
<1>3. \A v \in revived : v.at <= started'
  <2>1. started \in Nat /\ \A v \in revived : v.at \in Nat /\ v.at <= started
    BY DEF ShelfIInv, ShelfTypeOK, VoidsStand
  <2> QED BY <2>1
<1>4. VoidsStand'
  BY <1>3 DEF ShelfIInv, VoidsStand, Line, Touches, IsVoid
<1> QED BY <1>2, <1>4

\* The transaction starts later than anything in the ledger.
LEMMA WorkBegins ==
  ASSUME ShelfIInv, NEW w \in Workers, NEW r \in StockRequests, BeginWork(w, r)
  PROVE  ShelfIInv'
<1> DEFINE h == [req |-> r, at |-> "begun", start |-> started + 1, read |-> Opening]
<1>1. /\ work[w] = NoWork /\ r \notin asked /\ Allowed(r) /\ asked' = asked \union {r}
      /\ started' = started + 1 /\ work' = [work EXCEPT ![w] = h]
      /\ met' = met \union {i \in Touches(r) : \E v \in Workers :
                              work[v].req # Null /\ i \in Touches(work[v].req)}
      /\ UNCHANGED <<level, ledger, sold, voided, edited, revived>>
  BY DEF BeginWork
<1>2. work'[w] = h /\ \A v \in Workers \ {w} : work'[v] = work[v]
  BY <1>1, WorkStep
<1>3. /\ h \in Work /\ h.req = r /\ h.at = "begun" /\ h.start = started + 1 /\ h.read = Opening
      /\ h # NoWork /\ r # Null /\ started \in Nat
  BY RequestFacts DEF ShelfIInv, ShelfTypeOK, StockConstants, Work, NoWork
<1> HIDE DEF h
<1>4. \A i : Rows(i)' = Rows(i)
  BY <1>1 DEF Rows
<1>5. ShelfTypeOK'
  BY <1>1, <1>3, RequestFacts DEF ShelfIInv, ShelfTypeOK
<1>6. WorkInv'
  <2>1. \A m \in ledger : m.req # r
    BY <1>1 DEF ShelfIInv, LedgerInv
  <2>2. \A v \in Workers \ {w} : work[v].req # r
          /\ (work[v].req # Null => work[v].start <= started + 1)
    BY <1>1, <1>3 DEF ShelfIInv, WorkInv, ShelfTypeOK, Work
  <2> QED BY <1>1, <1>2, <1>3, <2>1, <2>2 DEF ShelfIInv, WorkInv, Allowed
<1>7. LedgerInv'
  <2>1. \A m \in ledger : m.at <= started + 1
    BY <1>3 DEF ShelfIInv, LedgerInv, ShelfTypeOK, Movement
  <2> QED BY <1>1, <1>2, <1>3, <2>1 DEF ShelfIInv, LedgerInv, Line, Touches
<1>8. AloneInv'
  <2>1. ASSUME NEW i \in Items \ met', NEW v \in Workers, work[v].req # Null,
               i \in Touches(work[v].req)
        PROVE  i \notin Touches(r) /\ v # w
    BY <1>1, <2>1 DEF NoWork
  <2>2. \A i \in Items : \A m \in Rows(i) : m.at < started + 1
    BY <1>3 DEF ShelfIInv, LedgerInv, ShelfTypeOK, Movement, Rows
  <2>3. Kind[r] = "void" => Line(r) \notin voided
    BY <1>1 DEF Allowed
  <2>4. \A v \in revived : v.at < started + 1
    BY <1>3 DEF ShelfIInv, VoidsStand, ShelfTypeOK
  <2>5. ASSUME NEW i \in Items \ met', NEW v \in Workers, work'[v].req # Null,
               i \in Touches(work'[v].req)
        PROVE  /\ \A u \in Workers : work'[u].req # Null /\ i \in Touches(work'[u].req) => u = v
               /\ work'[v].at = "read" => work'[v].read[i] = level[i]
               /\ \A m \in Rows(i) : m.at < work'[v].start
               /\ \A x \in revived : x.line = Line(work'[v].req) => x.at < work'[v].start
               /\ Kind[work'[v].req] = "void" => Line(work'[v].req) \notin voided
    <3>1. CASE v = w
      BY <1>2, <1>3, <2>1, <2>2, <2>3, <2>4, <2>5, <3>1
    <3>2. CASE v # w
      <4>1. work'[v] = work[v] /\ i \notin Touches(r) /\ i \in Items \ met
        BY <1>1, <1>2, <2>1, <2>5, <3>2
      <4>2. \A u \in Workers : work'[u].req # Null /\ i \in Touches(work'[u].req) => u = v
        BY <1>2, <1>3, <2>5, <4>1 DEF ShelfIInv, AloneInv
      <4> QED BY <2>5, <4>1, <4>2 DEF ShelfIInv, AloneInv
    <3> QED BY <3>1, <3>2
  <2> QED BY <1>1, <1>4, <2>5 DEF AloneInv, Line, Touches
<1>9. HistoryReads' /\ RestoredOnce' /\ VoidsStand'
  BY <1>1, NothingStored
<1> QED BY <1>5, <1>6, <1>7, <1>8, <1>9 DEF ShelfIInv, StockConstants

\* What it reads is what is stored.
LEMMA ReadStep ==
  ASSUME ShelfIInv, NEW w \in Workers, Read(w)
  PROVE  ShelfIInv'
<1>1. PICK h : /\ h = [work[w] EXCEPT !.at = "read", !.read = level] /\ work[w].at = "begun"
               /\ work' = [work EXCEPT ![w] = h]
  BY DEF Read
<1>2. UNCHANGED <<level, ledger, sold, voided, asked, started, met, edited, revived>>
  BY DEF Read
<1>3. work'[w] = h /\ \A v \in Workers \ {w} : work'[v] = work[v]
  BY <1>1, WorkStep
<1>4. work[w] \in Work /\ level \in [Items -> Nat \union {Null}]
  BY DEF ShelfIInv, ShelfTypeOK
<1>5. /\ h \in Work /\ h.req = work[w].req /\ h.start = work[w].start
      /\ h.at = "read" /\ h.read = level
  BY <1>1, <1>4 DEF Work
<1>6. work[w].req # Null /\ h # NoWork
  <2>1. NoWork.at = "idle"
    BY DEF NoWork
  <2> QED BY <1>1, <1>5, <2>1 DEF ShelfIInv, WorkInv
<1>0. \A i : Rows(i)' = Rows(i)
  BY <1>2 DEF Rows
<1>7. ShelfTypeOK'
  BY <1>1, <1>2, <1>5 DEF ShelfIInv, ShelfTypeOK
<1>8. WorkInv'
  BY <1>2, <1>3, <1>5, <1>6 DEF ShelfIInv, WorkInv
<1>9. LedgerInv'
  BY <1>2, <1>3, <1>5 DEF ShelfIInv, LedgerInv, Line, Touches
<1>10. AloneInv'
  BY <1>0, <1>2, <1>3, <1>5, <1>6 DEF ShelfIInv, AloneInv
<1>11. HistoryReads' /\ RestoredOnce' /\ VoidsStand'
  BY <1>2, NothingStored
<1> QED BY <1>7, <1>8, <1>9, <1>10, <1>11 DEF ShelfIInv, StockConstants

\* Nothing of a handler that fails is kept.
LEMMA GivesUpStep ==
  ASSUME ShelfIInv, NEW w \in Workers, GivesUp(w)
  PROVE  ShelfIInv'
<1>1. work' = [work EXCEPT ![w] = NoWork]
  BY DEF GivesUp
<1>2. UNCHANGED <<level, ledger, sold, voided, asked, started, met, edited, revived>>
  BY DEF GivesUp
<1>3. work'[w] = NoWork /\ \A v \in Workers \ {w} : work'[v] = work[v]
  BY <1>1, WorkStep
<1>4. NoWork \in Work /\ NoWork.req = Null /\ NoWork.read = Opening
  BY DEF NoWork, Work, ShelfIInv, StockConstants
<1>0. \A i : Rows(i)' = Rows(i)
  BY <1>2 DEF Rows
<1>5. ShelfTypeOK'
  BY <1>1, <1>2, <1>4 DEF ShelfIInv, ShelfTypeOK
<1>6. WorkInv'
  BY <1>2, <1>3, <1>4 DEF ShelfIInv, WorkInv
<1>7. LedgerInv'
  BY <1>2, <1>3, <1>4 DEF ShelfIInv, LedgerInv, Line, Touches
<1>8. AloneInv'
  BY <1>0, <1>2, <1>3, <1>4 DEF ShelfIInv, AloneInv
<1>9. HistoryReads' /\ RestoredOnce' /\ VoidsStand'
  BY <1>2, NothingStored
<1> QED BY <1>5, <1>6, <1>7, <1>8, <1>9 DEF ShelfIInv, StockConstants

-----------------------------------------------------------------------------
\* What a commit makes of each item, and of the ledger.
LEMMA CommitStores ==
  ASSUME ShelfIInv, NEW w \in Workers, NEW r \in StockRequests, r = work[w].req, Commit(w)
  PROVE  /\ \A i \in Touches(r) :
              LET l == work[w].read[i] IN
              level'[i] = IF Target(r, i, l) # l THEN Target(r, i, l) ELSE level[i]
         /\ \A i \in Items \ Touches(r) : level'[i] = level[i]
         /\ level' \in [Items -> Nat \union {Null}]
         /\ \A i \in Items : level'[i] = Null => level[i] = Null \/ work[w].read[i] = Null
<1>1. level' = Written(r, work[w].read) /\ Touches(r) \subseteq Items
  BY RequestFacts DEF Commit, ShelfIInv
<1>2. work[w].read \in [Items -> Nat \union {Null}] /\ level \in [Items -> Nat \union {Null}]
  BY DEF ShelfIInv, ShelfTypeOK, Work
<1>3. \A i \in Items : level'[i] = IF i \in Touches(r)
        /\ Target(r, i, work[w].read[i]) # work[w].read[i]
                                  THEN Target(r, i, work[w].read[i]) ELSE level[i]
  BY <1>1 DEF Written
<1>4. \A i \in Touches(r) : /\ Target(r, i, work[w].read[i]) \in Nat \union {Null}
                           /\ Target(r, i, work[w].read[i]) = Null => work[w].read[i] = Null
  <2> TAKE i \in Touches(r)
  <2>1. work[w].read[i] \in Nat \union {Null}
    BY <1>1, <1>2
  <2> QED BY <2>1, NumberFacts DEF ShelfIInv
<1>5. level' \in [Items -> Nat \union {Null}]
  <2>1. ASSUME NEW i \in Items, i \in Touches(r),
               Target(r, i, work[w].read[i]) # work[w].read[i]
        PROVE  level'[i] \in Nat \union {Null}
    <3>1. level'[i] = Target(r, i, work[w].read[i])
      BY <1>3, <2>1
    <3>0. work[w].read[i] \in Nat \union {Null}
      BY <1>2
    <3>2. Target(r, i, work[w].read[i]) \in Nat \union {Null}
      BY <2>1, <3>0, NumberFacts DEF ShelfIInv
    <3> QED BY <3>1, <3>2
  <2>3. ASSUME NEW i \in Items, ~(i \in Touches(r)
                 /\ Target(r, i, work[w].read[i]) # work[w].read[i])
        PROVE  level'[i] \in Nat \union {Null}
    <3>1. level'[i] = level[i]
      BY <1>3, <2>3
    <3> QED BY <1>2, <3>1
  <2>2. level' = [i \in Items |-> level'[i]]
    BY <1>1 DEF Written
  <2> QED BY <2>1, <2>2, <2>3
<1> QED BY <1>1, <1>3, <1>4, <1>5

LEMMA CommitRecords ==
  ASSUME ShelfIInv, NEW w \in Workers, NEW r \in StockRequests, r = work[w].req, Commit(w)
  PROVE  /\ ledger \subseteq ledger' /\ ledger' \subseteq Movement
         /\ \A m \in ledger' \ ledger :
              /\ m.req = r /\ m.item \in Touches(r) /\ m.at = work[w].start
              /\ Moves(r, work[w].read[m.item])
              /\ m.delta = Delta(r, m.item, work[w].read[m.item])
              /\ m.balance = After(r, m.item, work[w].read[m.item])
              /\ m.lacked = Lacked(r, m.item, work[w].read[m.item])
         /\ \A m, n \in ledger' \ ledger : m.item = n.item => m = n
         /\ \A i \in Touches(r) : Moves(r, work[w].read[i]) =>
              \E m \in ledger' : m.req = r /\ m.item = i /\ m.delta = Delta(r, i, work[w].read[i])
<1> DEFINE read == work[w].read
           row(i) == [req |-> r, item |-> i, reason |-> Reason[r], at |-> work[w].start,
                      delta |-> Delta(r, i, read[i]), balance |-> After(r, i, read[i]),
                      lacked |-> Lacked(r, i, read[i])]
<1>1. ledger' = ledger \union {row(i) : i \in {j \in Touches(r) : Moves(r, read[j])}}
  BY DEF Commit, Movements
<1>2. \A i \in Touches(r) : row(i) \in Movement
  <2> TAKE i \in Touches(r)
  <2>1. i \in Items /\ read[i] \in Nat \union {Null} /\ work[w].start \in Nat
    BY RequestFacts DEF ShelfIInv, ShelfTypeOK, Work
  <2>2. /\ Delta(r, i, read[i]) \in Int /\ After(r, i, read[i]) \in Nat
        /\ Lacked(r, i, read[i]) \in Nat /\ Reason[r] \in Reasons
    BY <2>1, NumberFacts, RequestFacts DEF ShelfIInv
  <2> QED BY <2>1, <2>2 DEF Movement
<1>3. \A m \in ledger' \ ledger : m.item \in Touches(r) /\ Moves(r, read[m.item]) /\ m = row(m.item)
  BY <1>1
<1>4. ledger' \subseteq Movement
  BY <1>1, <1>2 DEF ShelfIInv, ShelfTypeOK
<1>5. \A i \in Touches(r) : Moves(r, read[i]) => row(i) \in ledger'
  BY <1>1
<1>6. \A m \in ledger' \ ledger :
        /\ m.req = r /\ m.at = work[w].start
        /\ m.delta = Delta(r, m.item, read[m.item]) /\ m.balance = After(r, m.item, read[m.item])
        /\ m.lacked = Lacked(r, m.item, read[m.item])
  BY <1>3
<1>7. \A m, n \in ledger' \ ledger : m.item = n.item => m = n
  BY <1>3
<1> QED BY <1>1, <1>3, <1>4, <1>5, <1>6, <1>7

\* The one commit.  On an item that nobody met the handler on, what it read is
\* what is stored, and what it records is the newest.
LEMMA CommitStep ==
  ASSUME ShelfIInv, NEW w \in Workers, Commit(w)
  PROVE  ShelfIInv'
<1> DEFINE r    == work[w].req
           read == work[w].read
<1>1. /\ work[w].at = "read" /\ work' = [work EXCEPT ![w] = NoWork]
      /\ sold' = IF Kind[r] = "sale" THEN sold \union {r} ELSE sold
      /\ voided' = VoidedAfter(r)
      /\ revived' = IF Kind[r] = "tap" /\ Line(r) \in voided
                    THEN revived \union {[line |-> Line(r), at |-> work[w].start]} ELSE revived
      /\ edited' = IF Kind[r] = "edit" THEN edited \union Touches(r) ELSE edited
      /\ UNCHANGED <<asked, started, met>>
  BY DEF Commit
<1>2. work'[w] = NoWork /\ \A v \in Workers \ {w} : work'[v] = work[v]
  BY <1>1, WorkStep
<1>3. /\ NoWork \in Work /\ NoWork.req = Null /\ NoWork.read = Opening
      /\ NoWork.at = "idle"
  BY DEF NoWork, Work, ShelfIInv, StockConstants
<1>4. r \in StockRequests /\ r # Null /\ r \in asked /\ work[w].start <= started /\ work[w] \in Work
  BY <1>1, <1>3 DEF ShelfIInv, WorkInv, ShelfTypeOK, Work
<1>5. StockConstants /\ Touches(r) \subseteq Items
  BY <1>4, RequestFacts DEF ShelfIInv
<1> HIDE DEF r, read
<1>6. /\ \A i \in Touches(r) :
           level'[i] = IF Target(r, i, read[i]) # read[i] THEN Target(r, i, read[i]) ELSE level[i]
      /\ \A i \in Items \ Touches(r) : level'[i] = level[i]
      /\ level' \in [Items -> Nat \union {Null}]
      /\ \A i \in Items : level'[i] = Null => level[i] = Null \/ read[i] = Null
  BY <1>4, CommitStores DEF r, read
<1>7. /\ ledger \subseteq ledger' /\ ledger' \subseteq Movement
      /\ \A m \in ledger' \ ledger :
           /\ m.req = r /\ m.item \in Touches(r) /\ m.at = work[w].start
           /\ Moves(r, read[m.item]) /\ m.delta = Delta(r, m.item, read[m.item])
           /\ m.balance = After(r, m.item, read[m.item])
           /\ m.lacked = Lacked(r, m.item, read[m.item])
      /\ \A m, n \in ledger' \ ledger : m.item = n.item => m = n
      /\ \A i \in Touches(r) : Moves(r, read[i]) =>
           \E m \in ledger' : m.req = r /\ m.item = i /\ m.delta = Delta(r, i, read[i])
  BY <1>4, CommitRecords DEF r, read
<1>8. \A m \in ledger : m.req # r
  BY <1>4 DEF ShelfIInv, WorkInv, r
<1>9. Kind[r] = "void" => Undoes[r] \in sold
  BY <1>4 DEF ShelfIInv, WorkInv, r
<1>10. \A i \in Items \ met : i \in Touches(r) =>
         /\ \A v \in Workers \ {w} : work[v].req = Null \/ i \notin Touches(work[v].req)
         /\ read[i] = level[i] /\ \A m \in Rows(i) : m.at < work[w].start
         /\ Kind[r] = "void" => Line(r) \notin voided
         /\ \A v \in revived : v.line = Line(r) => v.at < work[w].start
  BY <1>1, <1>4 DEF ShelfIInv, AloneInv, r, read
<1>11. \A i \in Touches(r) : read[i] \in Nat \union {Null}
  BY <1>4, <1>5 DEF Work, read
\* What it makes of the lines.
<1>0. /\ Kind[r] = "void" => Line(r) \in voided'
      /\ \A l \in voided' : l \in voided \/ (Kind[r] = "void" /\ l = Line(r))
      /\ \A l \in voided \ voided' :
           Kind[r] = "tap" /\ l = Line(r) /\ [line |-> l, at |-> work[w].start] \in revived'
      /\ revived \subseteq revived'
      /\ \A v \in revived' \ revived :
           Kind[r] = "tap" /\ v = [line |-> Line(r), at |-> work[w].start]
  <2>1. CASE Kind[r] = "void"
    BY <1>1, <2>1 DEF VoidedAfter
  <2>2. CASE Kind[r] = "tap"
    BY <1>1, <2>2 DEF VoidedAfter
  <2>3. CASE Kind[r] \notin OnLine
    BY <1>1, <2>3 DEF VoidedAfter
  <2> QED BY <2>1, <2>2, <2>3
<1>12. ShelfTypeOK'
  <2>1. Kind[r] \in OnLine => Line(r) \in StockRequests \X Items
    BY <1>4, <1>5, VoidFacts
  <2>2. voided' \subseteq StockRequests \X Items
    BY <1>0, <2>1 DEF ShelfIInv, ShelfTypeOK
  <2>3. revived' \subseteq [line : StockRequests \X Items, at : Nat]
    <3>1. work[w].start \in Nat
      BY <1>4 DEF Work
    <3>2. revived \subseteq [line : StockRequests \X Items, at : Nat]
      BY DEF ShelfIInv, ShelfTypeOK
    <3> QED BY <1>0, <2>1, <3>1, <3>2
  <2> QED BY <1>1, <1>3, <1>4, <1>5, <1>6, <1>7, <2>2, <2>3 DEF ShelfIInv, ShelfTypeOK
<1>13. WorkInv'
  <2>1. \A v \in Workers \ {w} : work[v].req # r
    BY <1>4 DEF ShelfIInv, WorkInv, r
  <2>2. \A v \in Workers \ {w} : work[v].req # Null => \A m \in ledger' : m.req # work[v].req
    BY <1>7, <2>1 DEF ShelfIInv, WorkInv
  <2> QED BY <1>1, <1>2, <1>3, <2>2 DEF ShelfIInv, WorkInv
<1>14. LedgerInv'
  <2>1. \A m \in ledger' :
          m.req \in asked /\ m.at <= started /\ m.item \in Touches(m.req)
    BY <1>1, <1>4, <1>7 DEF ShelfIInv, LedgerInv
  <2>2. \A m, n \in ledger' : n.req = m.req /\ n.item = m.item => n = m
    BY <1>7, <1>8 DEF ShelfIInv, LedgerInv
  <2>3. \A i \in Items : Opening[i] # Null =>
          level'[i] # Null /\ \A v \in Workers : work'[v].read[i] # Null
    BY <1>2, <1>3, <1>6 DEF ShelfIInv, LedgerInv, read
  <2>4. ASSUME NEW s \in sold', NEW i \in Touches(s), Opening[i] # Null
        PROVE  \E n \in ledger' : n.req = s /\ n.item = i /\ n.delta = -Units[s][i]
    <3>1. CASE s \in sold
      BY <1>7, <2>4, <3>1 DEF ShelfIInv, LedgerInv
    <3>2. CASE s = r /\ Kind[r] = "sale"
      <4>1. i \in Items /\ read[i] # Null
        BY <1>5, <2>4, <3>2 DEF ShelfIInv, LedgerInv, read
      <4>2. Moves(r, read[i]) /\ Delta(r, i, read[i]) = -Units[r][i]
        BY <3>2, <4>1 DEF Moves, Delta
      <4> QED BY <1>7, <2>4, <3>2, <4>2
    <3> QED BY <1>1, <3>1, <3>2
  <2>5. \A s \in sold' : Kind[s] = "sale"
    BY <1>1 DEF ShelfIInv, LedgerInv
  <2> QED BY <1>1, <2>1, <2>2, <2>3, <2>4, <2>5 DEF LedgerInv, Line, Touches
<1>16. AloneInv'
  <2>1. ASSUME NEW i \in Items \ met, NEW v \in Workers \ {w},
               work[v].req # Null, i \in Touches(work[v].req)
        PROVE  /\ \A u \in Workers : work'[u].req # Null /\ i \in Touches(work'[u].req) => u = v
               /\ work[v].at = "read" => work[v].read[i] = level'[i]
               /\ \A m \in ledger' : m.item = i => m.at < work[v].start
               /\ \A x \in revived' : x.line = Line(work[v].req) => x.at < work[v].start
               /\ Kind[work[v].req] = "void" => Line(work[v].req) \notin voided'
    <3>1. i \in Items \ Touches(r)
      BY <1>10, <2>1
    <3>2. \A u \in Workers : work'[u].req # Null /\ i \in Touches(work'[u].req) => u = v
      BY <1>2, <1>3, <2>1 DEF ShelfIInv, AloneInv
    <3>3. work[v].at = "read" => work[v].read[i] = level'[i]
      BY <1>6, <2>1, <3>1 DEF ShelfIInv, AloneInv
    <3>4. \A m \in ledger' : m.item = i => m \in ledger
      BY <1>7, <3>1
    <3>5. \A m \in ledger' : m.item = i => m.at < work[v].start
      BY <2>1, <3>4 DEF ShelfIInv, AloneInv, Rows
    <3>6. ASSUME Kind[r] \in OnLine, Line(work[v].req) = Line(r) PROVE FALSE
      <4>1. work[v].req \in StockRequests
        BY <2>1 DEF ShelfIInv, ShelfTypeOK, Work
      <4>2. Touches(work[v].req) = Touches(r)
        BY <1>4, <1>5, <3>6, <4>1, SameLine
      <4> QED BY <2>1, <3>1, <4>2
    <3>7. ASSUME Kind[work[v].req] = "void" PROVE Line(work[v].req) \notin voided'
      <4>1. Line(work[v].req) \notin voided
        BY <2>1, <3>7 DEF ShelfIInv, AloneInv
      <4> QED BY <1>0, <3>6, <4>1
    <3>8. ASSUME NEW x \in revived', x.line = Line(work[v].req) PROVE x.at < work[v].start
      <4>1. x \in revived
        BY <1>0, <3>6, <3>8
      <4> QED BY <2>1, <3>8, <4>1 DEF ShelfIInv, AloneInv
    <3> QED BY <3>2, <3>3, <3>5, <3>7, <3>8
  <2>2. \A i \in Items \ met, v \in Workers :
          work'[v].req # Null /\ i \in Touches(work'[v].req) =>
            /\ \A u \in Workers : work'[u].req # Null /\ i \in Touches(work'[u].req) => u = v
            /\ work'[v].at = "read" => work'[v].read[i] = level'[i]
            /\ \A m \in ledger' : m.item = i => m.at < work'[v].start
            /\ \A x \in revived' : x.line = Line(work'[v].req) => x.at < work'[v].start
            /\ Kind[work'[v].req] = "void" => Line(work'[v].req) \notin voided'
    <3> TAKE i \in Items \ met, v \in Workers
    <3> HAVE work'[v].req # Null /\ i \in Touches(work'[v].req)
    <3>1. v # w /\ work'[v] = work[v]
      BY <1>2, <1>3
    <3> QED BY <2>1, <3>1
  <2> QED BY <1>1, <2>2 DEF AloneInv, Rows, Line, Touches
<1>17. HistoryReads'
  <2> SUFFICES ASSUME NEW i \in Items \ met, i \notin edited', NEW m \in ledger', m.item = i,
                      \A n \in ledger' : n.item = i => n.at <= m.at
               PROVE  m.balance = level'[i]
    BY <1>1 DEF HistoryReads, Rows
  <2>1. edited \subseteq edited'
    BY <1>1
  <2>2. CASE i \notin Touches(r)
    <3>1. m \in ledger
      BY <1>7, <2>2
    <3> QED BY <1>6, <1>7, <2>1, <2>2, <3>1 DEF ShelfIInv, HistoryReads, Rows
  <2>3. CASE i \in Touches(r) /\ Moves(r, read[i])
    <3>1. PICK n \in ledger' : n.req = r /\ n.item = i
      BY <1>7, <2>3
    <3>2. n \in ledger' \ ledger /\ n.at = work[w].start
      BY <1>7, <1>8, <3>1
    <3>3. m \in ledger' \ ledger
      <4>1. m \in ledger => m.at < work[w].start /\ m.at \in Nat
        BY <1>10, <2>3 DEF Rows, ShelfIInv, ShelfTypeOK, Movement
      <4>2. work[w].start \in Nat /\ work[w].start <= m.at
        BY <1>4, <3>1, <3>2 DEF Work
      <4> QED BY <4>1, <4>2
    <3>4. m.balance = After(r, i, read[i])
      BY <1>7, <3>3
    <3>5. Target(r, i, read[i]) = After(r, i, read[i])
      BY <1>4, <1>5, <1>11, <2>3, NumberFacts
    <3>6. read[i] = level[i]
      BY <1>10, <2>3
    <3> QED BY <1>6, <2>3, <3>4, <3>5, <3>6
  <2>4. CASE i \in Touches(r) /\ ~Moves(r, read[i])
    <3>1. m \in ledger
      BY <1>7, <2>4
    <3>2. Kind[r] # "edit"
      BY <1>1, <2>4
    <3>3. Target(r, i, read[i]) = read[i]
      BY <1>4, <1>5, <1>11, <2>4, <3>2, NumberFacts
    <3>4. level'[i] = level[i]
      BY <1>6, <2>4, <3>3
    <3> QED BY <1>7, <2>1, <3>1, <3>4 DEF ShelfIInv, HistoryReads, Rows
  <2> QED BY <2>2, <2>3, <2>4
\* A void that is recorded now comes after a tap that is later than one recorded
\* before.
<1>19. ASSUME NEW m \in ledger, IsVoid(m), m.item \notin met, NEW n \in ledger' \ ledger,
              IsVoid(n), Line(n.req) = Line(m.req)
       PROVE  \E v \in revived : v.line = Line(m.req) /\ m.at < v.at /\ v.at < n.at
  <2>1. n.req = r /\ n.at = work[w].start /\ Kind[r] = "void"
    BY <1>7, <1>19 DEF IsVoid
  <2>2. m.req \in StockRequests /\ m.item \in Touches(m.req) /\ m.item \in Items
    BY DEF ShelfIInv, ShelfTypeOK, LedgerInv, Movement
  <2>3. Touches(m.req) = Touches(r)
    BY <1>4, <1>5, <1>19, <2>1, <2>2, SameLine
  <2>4. Line(r) \notin voided /\ \A v \in revived : v.line = Line(r) => v.at < work[w].start
    BY <1>10, <1>19, <2>1, <2>2, <2>3
  <2>5. \E v \in revived : v.line = Line(m.req) /\ m.at < v.at
    BY <1>19, <2>1, <2>4 DEF ShelfIInv, VoidsStand
  <2> QED BY <1>19, <2>1, <2>4, <2>5
<1>20. VoidsStand'
  <2>1. \A v \in revived' : v.at <= started
    BY <1>0, <1>4 DEF ShelfIInv, VoidsStand
  <2>2. ASSUME NEW m \in ledger', IsVoid(m), m.item \notin met
        PROVE  Line(m.req) \in voided' \/ \E v \in revived' : v.line = Line(m.req) /\ m.at < v.at
    <3>1. CASE m \notin ledger
      BY <1>0, <1>7, <2>2, <3>1 DEF IsVoid
    <3>2. CASE m \in ledger /\ Line(m.req) \in voided /\ Line(m.req) \notin voided'
      <4>1. /\ Kind[r] = "tap" /\ Line(m.req) = Line(r)
            /\ [line |-> Line(m.req), at |-> work[w].start] \in revived'
        BY <1>0, <3>2
      <4>2. m.req \in StockRequests /\ m.item \in Touches(m.req) /\ m.item \in Items
        BY <3>2 DEF ShelfIInv, ShelfTypeOK, LedgerInv, Movement
      <4>3. Touches(m.req) = Touches(r)
        BY <1>4, <1>5, <4>1, <4>2, SameLine
      <4>4. m.at < work[w].start
        BY <1>10, <2>2, <3>2, <4>2, <4>3 DEF Rows
      <4> QED BY <4>1, <4>4
    <3>3. CASE m \in ledger /\ (Line(m.req) \notin voided \/ Line(m.req) \in voided')
      BY <1>0, <2>2, <3>3 DEF ShelfIInv, VoidsStand
    <3> QED BY <3>1, <3>2, <3>3
  <2> QED BY <1>1, <2>1, <2>2 DEF VoidsStand, IsVoid, Line, Touches
<1>18. RestoredOnce'
  <2> SUFFICES ASSUME NEW m \in ledger', IsVoid(m), m.item \notin met
               PROVE  /\ \A n \in ledger' : IsVoid(n) /\ Line(n.req) = Line(m.req) /\ n # m =>
                           \/ \E v \in revived' : v.line = Line(m.req) /\ m.at < v.at /\ v.at < n.at
                           \/ \E v \in revived' : v.line = Line(m.req) /\ n.at < v.at /\ v.at < m.at
                      /\ \/ \E n \in ledger' : n.req = Undoes[m.req] /\ n.item = m.item
                              /\ n.delta = -m.delta
                         \/ Opening[m.item] = Null
    BY <1>1 DEF RestoredOnce, IsVoid, Revival, Line, Touches
  <2>0. m.reason = "void" /\ Kind[m.req] = "void"
    BY DEF IsVoid
  <2>1. \A n \in ledger' : n.req \in StockRequests /\ n.item \in Touches(n.req) /\ n.item \in Items
    BY <1>7, <1>14 DEF LedgerInv, Movement
  <2>2. ASSUME NEW n \in ledger', IsVoid(n), Line(n.req) = Line(m.req), n # m
        PROVE  \/ \E v \in revived' : v.line = Line(m.req) /\ m.at < v.at /\ v.at < n.at
               \/ \E v \in revived' : v.line = Line(m.req) /\ n.at < v.at /\ v.at < m.at
    <3>1. Touches(n.req) = Touches(m.req)
      BY <1>5, <2>0, <2>1, <2>2, SameLine
    <3>2. n.item = m.item
      BY <1>5, <2>0, <2>1, <3>1, VoidFacts
    <3>3. CASE m \in ledger /\ n \notin ledger
      BY <1>0, <1>19, <2>2, <3>3
    <3>4. CASE m \notin ledger /\ n \in ledger
      BY <1>0, <1>19, <2>2, <3>2, <3>4
    <3>5. CASE m \notin ledger /\ n \notin ledger
      BY <1>7, <2>2, <3>2, <3>5
    <3>6. CASE m \in ledger /\ n \in ledger
      BY <1>0, <2>2, <3>6 DEF ShelfIInv, RestoredOnce, Revival
    <3> QED BY <3>3, <3>4, <3>5, <3>6
  <2>3. ASSUME Opening[m.item] # Null
        PROVE  \E n \in ledger' : n.req = Undoes[m.req] /\ n.item = m.item /\ n.delta = -m.delta
    <3>1. CASE m \in ledger
      BY <1>7, <2>3, <3>1 DEF ShelfIInv, RestoredOnce
    <3>2. CASE m \notin ledger
      <4>1. m.req = r /\ m.item \in Touches(r) /\ m.delta = Delta(r, m.item, read[m.item])
        BY <1>7, <3>2
      <4>2. PICK i \in Items : Touches(r) = {i} /\ i \in Touches(Undoes[r])
                               /\ Units[r][i] = Units[Undoes[r]][i]
        BY <1>4, <1>5, <2>0, <4>1, VoidFacts
      <4>3. m.item = i /\ m.delta = Units[Undoes[r]][i]
        BY <2>0, <4>1, <4>2 DEF Delta
      <4>4. PICK n \in ledger : n.req = Undoes[r] /\ n.item = i /\ n.delta = -Units[Undoes[r]][i]
        BY <1>9, <2>0, <2>3, <4>1, <4>2, <4>3 DEF ShelfIInv, LedgerInv
      <4> QED BY <1>7, <4>1, <4>3, <4>4
    <3> QED BY <3>1, <3>2
  <2> QED BY <2>2, <2>3
<1> QED BY <1>5, <1>12, <1>13, <1>14, <1>16, <1>17, <1>18, <1>20 DEF ShelfIInv, StockConstants

LEMMA ShelfStep == ShelfIInv /\ [ShelfNext]_shelfVars => ShelfIInv'
<1> SUFFICES ASSUME ShelfIInv, [ShelfNext]_shelfVars PROVE ShelfIInv'
  OBVIOUS
<1>1. ASSUME NEW w \in Workers, Read(w) PROVE ShelfIInv'
  BY <1>1, ReadStep
<1>2. ASSUME NEW w \in Workers, Commit(w) PROVE ShelfIInv'
  BY <1>2, CommitStep
<1>3. ASSUME NEW w \in Workers, GivesUp(w) PROVE ShelfIInv'
  BY <1>3, GivesUpStep
<1>4. ASSUME NEW w \in Workers, NEW r \in StockRequests, BeginWork(w, r) PROVE ShelfIInv'
  BY <1>4, WorkBegins
<1>5. CASE UNCHANGED shelfVars
  <2>1. UNCHANGED <<level, ledger, sold, voided, asked, work, started, met, edited, revived>>
    BY <1>5 DEF shelfVars
  <2>2. \A i : Rows(i)' = Rows(i)
    BY <2>1 DEF Rows
  <2>3. ShelfTypeOK'
    BY <2>1 DEF ShelfIInv, ShelfTypeOK
  <2>4. WorkInv'
    BY <2>1 DEF ShelfIInv, WorkInv
  <2>5. LedgerInv'
    BY <2>1 DEF ShelfIInv, LedgerInv, Line, Touches
  <2>6. AloneInv'
    BY <2>1, <2>2 DEF ShelfIInv, AloneInv, Line, Touches
  <2>7. HistoryReads' /\ RestoredOnce' /\ VoidsStand'
    BY <2>1, NothingStored
  <2> QED BY <2>3, <2>4, <2>5, <2>6, <2>7 DEF ShelfIInv, StockConstants
<1> QED BY <1>1, <1>2, <1>3, <1>4, <1>5 DEF ShelfNext

-----------------------------------------------------------------------------
\* What the rows of the ledger add up to: nothing, and each its
\* delta and what was not there of it.
Deltas == [m \in Movement |-> m.delta + m.lacked]

LEMMA ExplainedIsSum ==
  ASSUME NEW S, IsFiniteSet(S), S \subseteq Movement
  PROVE  Explained(S) = Sum(Deltas, S)
<1> DEFINE A(g) == g = [s \in SUBSET S |->
                          IF s = {} THEN 0 ELSE First(s).delta + First(s).lacked + g[s \ {First(s)}]]
<1>1. Explained(S) = (CHOOSE g : A(g))[S]
  BY DEF Explained, MapThenSumSet, MapThenFoldSet, First
<1>2. ASSUME NEW g PROVE A(g) <=> Adds(g, Deltas, S)
  <2>1. \A s \in SUBSET S : s # {} => Deltas[First(s)] = First(s).delta + First(s).lacked
    <3> TAKE s \in SUBSET S
    <3>1. s # {} => First(s) \in Movement
      BY FirstIn
    <3> QED BY <3>1 DEF Deltas
  <2>2. [s \in SUBSET S |-> IF s = {} THEN 0 ELSE First(s).delta + First(s).lacked + g[s \ {First(s)}]]
        = [s \in SUBSET S |-> IF s = {} THEN 0 ELSE Deltas[First(s)] + g[s \ {First(s)}]]
    BY <2>1
  <2> QED BY <2>2 DEF Adds
<1> HIDE DEF A
<1>3. A(CHOOSE g : A(g))
  BY <1>2, AdderExists
<1>4. Adds(CHOOSE g : A(g), Deltas, S)
  BY <1>2, <1>3
<1>5. Adds(Adder(Deltas, S), Deltas, S)
  BY AdderExists DEF Adder
<1>6. (CHOOSE g : A(g)) = Adder(Deltas, S)
  BY <1>4, <1>5, AdderUnique
<1> QED BY <1>1, <1>6, SumIs

LEMMA ExplainedFacts ==
  ASSUME NEW S, IsFiniteSet(S), S \subseteq Movement
  PROVE  /\ Explained(S) \in Int /\ Explained({}) = 0
         /\ \A m \in Movement \ S : Explained(S \union {m}) = Explained(S) + (m.delta + m.lacked)
<1>1. \A m \in Movement : Deltas[m] = m.delta + m.lacked /\ m.delta + m.lacked \in Int
  BY DEF Deltas, Movement
<1>2. Explained(S) \in Int
  BY <1>1, ExplainedIsSum, SumIsInt
<1>3. Explained({}) = 0
  BY ExplainedIsSum, SumEmpty, FS_EmptySet
<1>4. ASSUME NEW m \in Movement \ S
      PROVE  Explained(S \union {m}) = Explained(S) + (m.delta + m.lacked)
  <2>1. IsFiniteSet(S \union {m}) /\ S \union {m} \subseteq Movement
    BY FS_AddElement
  <2>2. \A y \in S \union {m} : Deltas[y] \in Int
    BY <1>1
  <2>3. Sum(Deltas, S \union {m}) = Sum(Deltas, S) + Deltas[m]
    BY <2>2, SumAdd
  <2> QED BY <1>1, <2>1, <2>3, ExplainedIsSum
<1> QED BY <1>2, <1>3, <1>4

-----------------------------------------------------------------------------
\* The sums hold because an item's rows grow by one that is newer than all of
\* them and moves the level by its delta.
SumsInv == /\ \A i \in Items : IsFiniteSet(Rows(i))
           /\ DriftNeedsCause /\ CountsInv

LEMMA RowsGrow ==
  ASSUME ShelfIInv, NEW w \in Workers, Commit(w), NEW i \in Items
  PROVE  Rows(i)' = Rows(i) \/ \E m : Rows(i)' = Rows(i) \union {m}
<1>1. work[w].req \in StockRequests
  BY DEF Commit, ShelfIInv, WorkInv, ShelfTypeOK, Work, NoWork
<1>2. ledger \subseteq ledger' /\ \A m, n \in ledger' \ ledger : m.item = n.item => m = n
  BY <1>1, CommitRecords
<1> QED BY <1>2 DEF Rows

LEMMA CommitOnShelf ==
  ASSUME ShelfIInv, NEW w \in Workers, Commit(w), NEW i \in Items \ met, i \notin edited'
  PROVE  \/ Rows(i)' = Rows(i) /\ level'[i] = level[i]
         \/ \E m \in ledger' :
              /\ m \notin ledger /\ m \in Movement /\ m.item = i
              /\ Rows(i)' = Rows(i) \union {m}
              /\ \A n \in Rows(i) : n.at < m.at
              /\ Known(level'[i]) = Known(level[i]) + (m.delta + m.lacked)
              /\ Kind[m.req] = "count" => Known(level'[i]) = Units[m.req][i]
<1> DEFINE r    == work[w].req
           read == work[w].read
<1>1. r \in StockRequests /\ r # Null /\ StockConstants /\ work[w] \in Work
  BY DEF Commit, ShelfIInv, WorkInv, ShelfTypeOK, Work, NoWork
<1>2. Kind[r] = "edit" => i \notin Touches(r)
  BY DEF Commit
<1> HIDE DEF r, read
<1>3. /\ i \in Touches(r) =>
           level'[i] = IF Target(r, i, read[i]) # read[i] THEN Target(r, i, read[i]) ELSE level[i]
      /\ i \notin Touches(r) => level'[i] = level[i]
      /\ level' \in [Items -> Nat \union {Null}]
  BY <1>1, CommitStores DEF r, read
<1>4. /\ ledger \subseteq ledger' /\ ledger' \subseteq Movement
      /\ \A m \in ledger' \ ledger :
           /\ m.req = r /\ m.item \in Touches(r) /\ m.at = work[w].start
           /\ Moves(r, read[m.item]) /\ m.delta = Delta(r, m.item, read[m.item])
           /\ m.balance = After(r, m.item, read[m.item])
           /\ m.lacked = Lacked(r, m.item, read[m.item])
      /\ \A m, n \in ledger' \ ledger : m.item = n.item => m = n
      /\ \A j \in Touches(r) : Moves(r, read[j]) => \E m \in ledger' : m.req = r /\ m.item = j
  BY <1>1, CommitRecords DEF r, read
<1>5. \A m \in ledger : m.req # r
  BY <1>1 DEF ShelfIInv, WorkInv, r
<1>6. i \in Touches(r) => read[i] = level[i] /\ \A m \in Rows(i) : m.at < work[w].start
  BY <1>1 DEF ShelfIInv, AloneInv, r, read, Commit
<1>7. level[i] \in Nat \union {Null}
  BY DEF ShelfIInv, ShelfTypeOK
<1>8. CASE ~(i \in Touches(r) /\ Moves(r, read[i]))
  <2>1. Rows(i)' = Rows(i)
    BY <1>4, <1>8 DEF Rows
  <2>2. ASSUME i \in Touches(r) PROVE level'[i] = level[i]
    <3>1. Target(r, i, read[i]) = read[i]
      BY <1>1, <1>2, <1>6, <1>7, <1>8, <2>2, NumberFacts
    <3> QED BY <1>3, <2>2, <3>1
  <2> QED BY <1>3, <2>1, <2>2
<1>9. CASE i \in Touches(r) /\ Moves(r, read[i])
  <2>1. PICK m \in ledger' : m.req = r /\ m.item = i
    BY <1>4, <1>9
  <2>2. m \in ledger' \ ledger /\ m \in Movement
    BY <1>4, <1>5, <2>1
  <2>3. Rows(i)' = Rows(i) \union {m}
    BY <1>4, <2>1, <2>2 DEF Rows
  <2>4. \A n \in Rows(i) : n.at < m.at
    BY <1>4, <1>6, <1>9, <2>2
  <2>5. /\ m.delta = Delta(r, i, level[i]) /\ m.balance = After(r, i, level[i])
        /\ m.lacked = Lacked(r, i, level[i]) /\ m.delta \in Int /\ m.lacked \in Nat
    BY <1>4, <1>6, <1>9, <2>1, <2>2 DEF Movement
  <2>6. Known(level'[i]) = m.balance
    <3>1. Target(r, i, level[i]) = After(r, i, level[i]) /\ After(r, i, level[i]) \in Nat
      BY <1>1, <1>6, <1>7, <1>9, NumberFacts
    <3>2. level'[i] = After(r, i, level[i])
      BY <1>3, <1>6, <1>9, <3>1
    <3>3. Null \notin Int
      BY <1>1 DEF StockConstants
    <3> QED BY <2>5, <3>1, <3>2, <3>3 DEF Known
  <2>7. Known(level[i]) \in Nat
    BY <1>7 DEF Known
  <2>8. m.balance = IF Known(level[i]) + m.delta < 0 THEN 0 ELSE Known(level[i]) + m.delta
    BY <2>5 DEF After, Floor
  <2>9. Known(level'[i]) = Known(level[i]) + (m.delta + m.lacked)
    <3>1. After(r, i, level[i]) = Known(level[i]) + Delta(r, i, level[i]) + Lacked(r, i, level[i])
      BY <1>1, <1>7, <1>9, NumberFacts
    <3> QED BY <2>5, <2>6, <2>7, <3>1
  <2>10. ASSUME Kind[r] = "count" PROVE Known(level'[i]) = Units[r][i]
    <3>1. m.delta = Units[r][i] - Known(level[i])
      BY <2>5, <2>10 DEF Delta
    <3>2. Units[r][i] \in Int /\ Units[r][i] >= 0
      BY <1>1, <1>9, <2>10, RequestFacts
    <3> QED BY <2>6, <2>7, <2>8, <3>1, <3>2
  <2> QED BY <2>1, <2>2, <2>3, <2>4, <2>9, <2>10
<1> QED BY <1>8, <1>9

\* A row more adds its delta to every sum it is part of.
LEMMA SinceGrows ==
  ASSUME ShelfIInv, NEW i \in Items, NEW m \in Movement, m \notin ledger, IsFiniteSet(Rows(i)),
         Rows(i)' = Rows(i) \union {m}
  PROVE  /\ Explained(Rows(i)') = Explained(Rows(i)) + (m.delta + m.lacked)
         /\ \A t \in Nat : m.at > t =>
              /\ Since(i, t)' = Since(i, t) \union {m}
              /\ Explained(Since(i, t)') = Explained(Since(i, t)) + (m.delta + m.lacked)
<1>1. Rows(i) \subseteq Movement /\ m \notin Rows(i)
  BY DEF ShelfIInv, ShelfTypeOK, Rows
<1>2. Explained(Rows(i)') = Explained(Rows(i)) + (m.delta + m.lacked)
  BY <1>1, ExplainedFacts
<1>3. ASSUME NEW t \in Nat, m.at > t
      PROVE  /\ Since(i, t)' = Since(i, t) \union {m}
             /\ Explained(Since(i, t)') = Explained(Since(i, t)) + (m.delta + m.lacked)
  <2>1. Since(i, t)' = Since(i, t) \union {m}
    BY <1>3 DEF Since
  <2>2. IsFiniteSet(Since(i, t)) /\ Since(i, t) \subseteq Movement /\ m \notin Since(i, t)
    BY <1>1, FS_Subset DEF Since
  <2> QED BY <2>1, <2>2, ExplainedFacts
<1> QED BY <1>2, <1>3

LEMMA CommitSums ==
  ASSUME ShelfIInv, SumsInv, NEW w \in Workers, Commit(w)
  PROVE  SumsInv'
<1>1. UNCHANGED met /\ edited \subseteq edited'
  BY DEF Commit
<1>2. \A i \in Items : IsFiniteSet(Rows(i)')
  <2> TAKE i \in Items
  <2> QED BY RowsGrow, FS_AddElement DEF SumsInv
<1>3. \A i \in Items \ met : Known(level[i]) \in Nat /\ Known(Opening[i]) \in Nat
  BY DEF ShelfIInv, ShelfTypeOK, StockConstants, Known
<1>4. ASSUME NEW i \in Items \ met, i \notin edited'
      PROVE  Known(level'[i]) = Known(Opening[i]) + Explained(Rows(i)')
  <2>1. CASE Rows(i)' = Rows(i) /\ level'[i] = level[i]
    BY <1>1, <1>4, <2>1 DEF SumsInv, DriftNeedsCause
  <2>2. ASSUME NEW m \in ledger', m \notin ledger, m \in Movement,
               Rows(i)' = Rows(i) \union {m},
               Known(level'[i]) = Known(level[i]) + (m.delta + m.lacked)
        PROVE  Known(level'[i]) = Known(Opening[i]) + Explained(Rows(i)')
    <3>2. Known(level[i]) = Known(Opening[i]) + Explained(Rows(i))
      BY <1>1, <1>4 DEF SumsInv, DriftNeedsCause
    <3>1. m.delta \in Int /\ m.lacked \in Int
      BY <2>2 DEF Movement
    <3>3. Explained(Rows(i)') = Explained(Rows(i)) + (m.delta + m.lacked)
      BY <2>2, SinceGrows DEF SumsInv
    <3>4. Explained(Rows(i)) \in Int
      BY ExplainedFacts DEF SumsInv, ShelfIInv, ShelfTypeOK, Rows
    <3> QED BY <1>3, <2>2, <3>1, <3>2, <3>3, <3>4
  <2> QED BY <1>4, <2>1, <2>2, CommitOnShelf
<1>5. ASSUME NEW m \in ledger', Kind[m.req] = "count", m.item \notin met, m.item \notin edited'
      PROVE  Known(level'[m.item]) = Units[m.req][m.item] + Explained(Since(m.item, m.at)')
  <2> DEFINE i == m.item
             t == m.at
  <2>1. ledger' \subseteq Movement
    <3>1. work[w].req \in StockRequests
      BY DEF Commit, ShelfIInv, WorkInv, ShelfTypeOK, Work, NoWork
    <3> QED BY <3>1, CommitRecords
  <2>2. i \in Items /\ t \in Nat /\ m.req \in StockRequests
    BY <2>1 DEF Movement
  <2>3. m \in ledger => i \in Touches(m.req)
    BY DEF ShelfIInv, LedgerInv
  <2>4. m \in ledger => Known(level[i]) = Units[m.req][i] + Explained(Since(i, t))
    BY <1>1, <1>5 DEF SumsInv, CountsInv
  <2>5. m \in ledger => m \in Rows(i)
    BY DEF Rows
  <2>0. m \in Rows(i)'
    BY DEF Rows
  <2> HIDE DEF i, t
  <2>6. CASE Rows(i)' = Rows(i) /\ level'[i] = level[i]
    <3>1. Since(i, t)' = Since(i, t)
      BY <2>6 DEF Since
    <3>2. m \in ledger
      BY <2>0, <2>6 DEF Rows
    <3> QED BY <2>4, <2>6, <3>1, <3>2 DEF i, t
  <2>7. ASSUME NEW n \in ledger', n \notin ledger, n \in Movement,
               Rows(i)' = Rows(i) \union {n}, \A q \in Rows(i) : q.at < n.at,
               Known(level'[i]) = Known(level[i]) + (n.delta + n.lacked),
               Kind[n.req] = "count" => Known(level'[i]) = Units[n.req][i]
        PROVE  Known(level'[m.item]) = Units[m.req][m.item] + Explained(Since(m.item, m.at)')
    <3>1. CASE m \in ledger
      <4>1. n.at > t
        BY <2>2, <2>5, <2>7, <3>1 DEF t, Movement
      <4>2. Since(i, t)' = Since(i, t) \union {n}
            /\ Explained(Since(i, t)') = Explained(Since(i, t)) + (n.delta + n.lacked)
            /\ n.delta \in Int /\ n.lacked \in Int
        BY <2>2, <2>7, <4>1, SinceGrows DEF SumsInv, Movement
      <4>4. Known(level[i]) = Units[m.req][i] + Explained(Since(i, t))
        BY <2>4, <3>1
      <4>5. IsFiniteSet(Since(i, t)) /\ Since(i, t) \subseteq Movement
        BY <2>2, FS_Subset DEF SumsInv, Since, Rows, ShelfIInv, ShelfTypeOK
      <4>6. Explained(Since(i, t)) \in Int
        BY <4>5, ExplainedFacts
      <4>7. Units[m.req][i] \in Int
        BY <2>2, <2>3, <3>1, RequestFacts DEF ShelfIInv, i
      <4>9. Known(level'[i]) = Units[m.req][i] + Explained(Since(i, t)')
        BY <2>7, <4>2, <4>4, <4>6, <4>7
      <4> QED BY <4>9 DEF i, t
    <3>2. CASE m \notin ledger
      <4>1. m = n
        BY <2>0, <2>7, <3>2 DEF Rows
      <4>2. Since(i, t)' = {}
        <5>1. \A q \in Rows(i) : q.at \in Nat /\ q.at < t
          BY <2>7, <4>1 DEF t, Rows, ShelfIInv, ShelfTypeOK, Movement
        <5> QED BY <2>2, <2>7, <4>1, <5>1 DEF Since, t
      <4>3. Explained(Since(i, t)') = 0
        BY <4>2, ExplainedFacts, FS_EmptySet
      <4>4. Known(level'[i]) = Units[m.req][i]
        BY <1>5, <2>7, <4>1
      <4>5. Known(level'[i]) \in Int
        <5>1. work[w].req \in StockRequests
          BY DEF Commit, ShelfIInv, WorkInv, ShelfTypeOK, Work, NoWork
        <5>2. level' \in [Items -> Nat \union {Null}]
          BY <5>1, CommitStores
        <5> QED BY <2>2, <5>2 DEF Known
      <4>6. Known(level'[i]) = Units[m.req][i] + Explained(Since(i, t)')
        BY <4>3, <4>4, <4>5
      <4> QED BY <4>6 DEF i, t
    <3> QED BY <3>1, <3>2
  <2>8. i \in Items \ met /\ i \notin edited'
    BY <1>5, <2>2 DEF i
  <2> QED BY <2>6, <2>7, <2>8, CommitOnShelf
<1>6. DriftNeedsCause'
  BY <1>1, <1>4 DEF DriftNeedsCause
<1>7. CountsInv'
  BY <1>1, <1>5 DEF CountsInv
<1> QED BY <1>2, <1>6, <1>7 DEF SumsInv

LEMMA SumsStart == StockConstants /\ ShelfInit => SumsInv
<1> SUFFICES ASSUME StockConstants, ShelfInit PROVE SumsInv
  OBVIOUS
<1>1. \A i : Rows(i) = {}
  BY DEF ShelfInit, Rows
<1>2. \A i \in Items : Known(Opening[i]) \in Int /\ level[i] = Opening[i]
  BY DEF ShelfInit, StockConstants, Known
<1>3. IsFiniteSet({}) /\ Explained({}) = 0
  BY ExplainedFacts, FS_EmptySet
<1>4. DriftNeedsCause
  <2> SUFFICES ASSUME NEW i \in Items
               PROVE  Known(level[i]) = Known(Opening[i]) + Explained(Rows(i))
    BY DEF DriftNeedsCause
  <2>1. Explained(Rows(i)) = 0
    BY <1>1, <1>3
  <2> QED BY <1>2, <2>1
<1>5. CountsInv
  BY DEF ShelfInit, CountsInv
<1> QED BY <1>1, <1>3, <1>4, <1>5 DEF SumsInv

LEMMA SumsKept ==
  ASSUME SumsInv, UNCHANGED <<level, ledger>>, met \subseteq met', edited \subseteq edited'
  PROVE  SumsInv'
<1>1. \A i : Rows(i)' = Rows(i)
  BY DEF Rows
<1>2. \A i, t : Since(i, t)' = Since(i, t)
  BY <1>1 DEF Since
<1>3. DriftNeedsCause'
  BY <1>1 DEF SumsInv, DriftNeedsCause
<1>4. CountsInv'
  BY <1>2 DEF SumsInv, CountsInv
<1> QED BY <1>1, <1>3, <1>4 DEF SumsInv

LEMMA SumsStep == ShelfIInv /\ SumsInv /\ [ShelfNext]_shelfVars => SumsInv'
<1> SUFFICES ASSUME ShelfIInv, SumsInv, [ShelfNext]_shelfVars PROVE SumsInv'
  OBVIOUS
<1>1. CASE \E w \in Workers : Commit(w)
  BY <1>1, CommitSums
<1>2. CASE \E w \in Workers : Read(w) \/ GivesUp(w) \/ \E r \in StockRequests : BeginWork(w, r)
  <2>1. UNCHANGED <<level, ledger, edited>> /\ met \subseteq met'
    BY <1>2 DEF Read, GivesUp, BeginWork
  <2> QED BY <2>1, SumsKept
<1>3. CASE UNCHANGED shelfVars
  BY <1>3, SumsKept DEF shelfVars
<1> QED BY <1>1, <1>2, <1>3 DEF ShelfNext

-----------------------------------------------------------------------------
LEMMA ShelfHolds == ASSUME StockConstants PROVE ShelfSpec => []ShelfIInv
<1>1. ShelfInit => ShelfIInv
  BY ShelfStart
<1> QED BY <1>1, ShelfStep, PTL DEF ShelfSpec

\* Levels and balances stay whole numbers, never negative, and an item that is
\* not tracked stays NULL (models/menu.py, models/stock_movement.py).
THEOREM StockTypeCorrect == ASSUME StockConstants PROVE ShelfSpec => []ShelfTypeOK
<1>1. ShelfIInv => ShelfTypeOK
  BY DEF ShelfIInv
<1> QED BY <1>1, ShelfHolds, PTL

\* The newest movement of an item carries the level on the shelf, "so history
\* reads without replaying the ledger" (models/stock_movement.py), unless two
\* handlers met on the item or the level was typed into the menu: each handler
\* works its balance out from the level it read (stock_service.py:30-73).
THEOREM HistoryAlwaysReads == ASSUME StockConstants PROVE ShelfSpec => []HistoryReads
<1>1. ShelfIInv => HistoryReads
  BY DEF ShelfIInv
<1> QED BY <1>1, ShelfHolds, PTL

\* A void gives back what the sale of its line took, and a second void of that
\* line does so only after a tap that revived it in between, unless two people
\* were at it together (orders.py:211-256).
THEOREM VoidsRestoreOnce == ASSUME StockConstants PROVE ShelfSpec => []RestoredOnce
<1>1. ShelfIInv => RestoredOnce
  BY DEF ShelfIInv
<1> QED BY <1>1, ShelfHolds, PTL

\* The ledger explains the shelf: a level is what the menu said plus all of the
\* ledger and what the log said was not there, "so the discrepancy stays
\* visible" (stock_service.py:45-75), its newest row carries the level and a
\* void gives back what its sale took, unless two handlers met on the item or
\* the level was typed into the menu.
THEOREM LedgerAlwaysExplains == ASSUME StockConstants PROVE ShelfSpec => []LedgerExplains
<1>1. ShelfInit => ShelfIInv /\ SumsInv
  BY ShelfStart, SumsStart
<1>2. (ShelfIInv /\ SumsInv) /\ [ShelfNext]_shelfVars => (ShelfIInv /\ SumsInv)'
  BY ShelfStep, SumsStep
<1>3. ShelfIInv /\ SumsInv => LedgerExplains
  BY DEF ShelfIInv, SumsInv, LedgerExplains
<1> QED BY <1>1, <1>2, <1>3, PTL DEF ShelfSpec

\* The period of the report starts at the last count and leaves nothing out
\* (routers/stock.py): the count and the movements after it add up to the level,
\* with the same two exceptions.
THEOREM PeriodAlwaysAdds == ASSUME StockConstants PROVE ShelfSpec => []PeriodAdds
<1>1. ShelfInit => ShelfIInv /\ SumsInv
  BY ShelfStart, SumsStart
<1>2. (ShelfIInv /\ SumsInv) /\ [ShelfNext]_shelfVars => (ShelfIInv /\ SumsInv)'
  BY ShelfStep, SumsStep
<1>3. ShelfIInv /\ SumsInv => PeriodAdds
  BY DEF SumsInv, CountsInv, PeriodAdds
<1> QED BY <1>1, <1>2, <1>3, PTL DEF ShelfSpec
=============================================================================
