----------------------------- MODULE Trades_proofs -----------------------------
(* Theorems of what trades and what it is written to.  Those of the runtime  *)
(* are in PaperRuntime_proofs and are cited here; the others are proved      *)
(* below under the names Trades has for them.                                *)
EXTENDS Trades, DataTheorems, Sequences

(* The parts count with FiniteSets, as the lemmas below do. *)
LEMMA SameSets == \A S : Rt!IsFiniteSet(S) <=> IsFiniteSet(S)
BY DEF Rt!IsFiniteSet, IsFiniteSet

LEMMA SameCount ==
  \A S : De!Cardinality(S) = Cardinality(S) /\ Cy!Cardinality(S) = Cardinality(S)
BY DEF De!Cardinality, Cy!Cardinality, Cardinality

LEMMA LeCount == \A S : Le!Cardinality(S) = Cardinality(S)
BY DEF Le!Cardinality, Cardinality

LEMMA LedgerGiven == Le!LedgerAssumption
BY PartsAssumption

LEMMA ExchangeGiven == Ex!ExchangeAssumption
BY PartsAssumption

-----------------------------------------------------------------------------
(* The calls of run_once and of process, for any number of them. *)

CallTypes ==
  /\ at \in [Cy!Callers -> Cy!Places]
  /\ snap \in [Cy!Callers -> Snapshots \union {None}]
  /\ ending \in [Cy!Callers -> Cy!Endings \union {None}]
  /\ terminal \in [Snapshots -> Cy!Endings \union {None}]
  /\ told \in [Snapshots -> SUBSET Cy!Endings]
  /\ fills \in [Snapshots -> SUBSET Loops]
  /\ results \in [Snapshots -> Nat]

-----------------------------------------------------------------------------
(* The runner: who asks holds the lock of its symbol, so that nobody else    *)
(* completes its snapshot before it does.                                    *)
RunnerInv ==
  /\ \A r \in Runs : at[r] = "asking" => snap[r] \in Snapshots \ completed
  /\ \A q, r \in Runs :
       at[q] = "asking" /\ at[r] = "asking" /\ SymbolOf[snap[q]] = SymbolOf[snap[r]] => q = r
  /\ \A s \in Snapshots : results[s] <= 1 /\ (results[s] # 0 => s \in completed)

(* The loop: a call that has claimed its cycle and not ended is the only one *)
(* that writes about it, and where it is says what the ledger has.           *)
Owning == {"asking", "placing", "intent", "submitted", "filled", "verifying", "protection",
           "reconciled", "telling", "setting"}

Entered == {"EXECUTED", "DEGRADED"}

OwnersAreOne ==
  /\ \A c \in Loops : at[c] \in Owning => snap[c] \in Snapshots /\ snap[c] \in claimed
  /\ \A c, d \in Loops :
       at[c] \in Owning /\ at[d] \in Owning /\ snap[c] = snap[d] => c = d

UnclaimedIsBlank ==
  \A s \in Snapshots : s \notin claimed => told[s] = {} /\ fills[s] = {} /\ terminal[s] = None

OwnerTell(c) ==
  /\ at[c] \in Owning => terminal[snap[c]] = None
  /\ at[c] \in Owning \ {"setting"} => told[snap[c]] = {}
  /\ at[c] \in {"asking", "placing", "intent", "submitted", "filled"} => fills[snap[c]] = {}
  /\ at[c] = "verifying" => fills[snap[c]] = {c}
  /\ at[c] \in {"protection", "reconciled"} => ending[c] \in Entered /\ fills[snap[c]] = {c}
  /\ at[c] \in {"telling", "setting"} =>
       /\ ending[c] \in Cy!Endings
       /\ fills[snap[c]] = IF ending[c] \in Entered THEN {c} ELSE {}
  /\ at[c] = "setting" => told[snap[c]] = {ending[c]}

OwnerTells == \A c \in Loops : OwnerTell(c)

CycleStory(s) ==
  /\ fills[s] = {} \/ \E c \in Loops : fills[s] = {c}
  /\ told[s] = {} \/ \E e \in Cy!Endings : told[s] = {e} /\ (e \in Entered <=> fills[s] # {})
  /\ terminal[s] # None => terminal[s] \in told[s]

CycleStories == \A s \in Snapshots : CycleStory(s)

CycleInv == CallTypes /\ RunnerInv /\ OwnersAreOne /\ UnclaimedIsBlank /\ OwnerTells /\ CycleStories

LEMMA CallTypeStep ==
  ASSUME Cy!CycleAssumption, CycleInv, [Cy!Next]_(Cy!vars)
  PROVE  CallTypes'
<1> USE DEF CallTypes, Cy!Callers, Cy!Places, Cy!To, CycleInv
<1>1. ASSUME NEW r \in Runs, NEW s \in Snapshots, Cy!RunOnce(r, s) PROVE CallTypes'
  BY <1>1 DEF Cy!RunOnce, Cy!ledger
<1>2. ASSUME NEW r \in Runs, Cy!RunReturns(r) PROVE CallTypes'
  <2>1. snap[r] \in Snapshots
    BY <1>2 DEF Cy!RunReturns, RunnerInv
  <2> QED BY <1>2, <2>1 DEF Cy!RunReturns, Cy!ledger
<1>3. ASSUME NEW c \in Loops, NEW s \in Snapshots, Cy!Claim(c, s) PROVE CallTypes'
  BY <1>3 DEF Cy!Claim, Cy!Endings
<1>4. ASSUME NEW c \in Loops, Cy!Answer(c) PROVE CallTypes'
  BY <1>4 DEF Cy!Answer, Cy!Endings, Cy!ledger
<1>5. ASSUME NEW c \in Loops, Cy!Place(c) PROVE CallTypes'
  BY <1>5 DEF Cy!Place, Cy!ledger
<1>6. ASSUME NEW c \in Loops, Cy!LogFill(c) PROVE CallTypes'
  BY <1>6 DEF Cy!LogFill
<1>12. ASSUME NEW c \in Loops, Cy!LogEvent(c) \/ Cy!WriteFails(c) PROVE CallTypes'
  BY <1>12 DEF Cy!LogEvent, Cy!WriteFails, Cy!NextWrite, Cy!ledger
<1>7. ASSUME NEW c \in Loops, Cy!Verify(c) PROVE CallTypes'
  BY <1>7 DEF Cy!Verify, Cy!Endings, Cy!ledger
<1>8. ASSUME NEW c \in Loops, Cy!Tell(c) PROVE CallTypes'
  <2>1. snap[c] \in Snapshots /\ ending[c] \in Cy!Endings
    BY <1>8 DEF Cy!Tell, OwnersAreOne, OwnerTells, OwnerTell, Owning
  <2> QED BY <1>8, <2>1 DEF Cy!Tell
<1>9. ASSUME NEW c \in Loops, Cy!SetTerminal(c) PROVE CallTypes'
  <2>1. snap[c] \in Snapshots /\ ending[c] \in Cy!Endings
    BY <1>9 DEF Cy!SetTerminal, OwnersAreOne, OwnerTells, OwnerTell, Owning
  <2> QED BY <1>9, <2>1 DEF Cy!SetTerminal
<1>10. CASE Cy!Restart
  BY <1>10 DEF Cy!Restart, Cy!ledger
<1>11. CASE UNCHANGED Cy!vars
  BY <1>11 DEF Cy!vars, Cy!ledger
<1> QED BY <1>1, <1>2, <1>3, <1>4, <1>5, <1>6, <1>7, <1>8, <1>9, <1>10, <1>11, <1>12 DEF Cy!Next

LEMMA RunnerStep ==
  ASSUME Cy!CycleAssumption, CallTypes, RunnerInv, [Cy!Next]_(Cy!vars)
  PROVE  RunnerInv'
<1> USE DEF Cy!CycleAssumption, CallTypes, Cy!Callers, Cy!To
<1>1. ASSUME NEW r \in Runs, NEW s \in Snapshots, Cy!RunOnce(r, s) PROVE RunnerInv'
  <2>1. /\ UNCHANGED <<completed, results>>
        /\ snap' = [snap EXCEPT ![r] = s]
        /\ at' = [at EXCEPT ![r] = IF Cy!Locked(SymbolOf[s]) \/ s \in completed
                                   THEN "done" ELSE "asking"]
    BY <1>1 DEF Cy!RunOnce
  <2>2. CASE Cy!Locked(SymbolOf[s]) \/ s \in completed
    BY <2>1, <2>2 DEF RunnerInv
  <2>3. CASE ~Cy!Locked(SymbolOf[s]) /\ s \notin completed
    <3>1. \A q \in Runs : at[q] = "asking" => SymbolOf[snap[q]] # SymbolOf[s]
      BY <2>3 DEF Cy!Locked
    <3> QED BY <2>1, <2>3, <3>1 DEF RunnerInv
  <2> QED BY <2>2, <2>3
<1>2. ASSUME NEW r \in Runs, Cy!RunReturns(r) PROVE RunnerInv'
  <2>1. /\ at[r] = "asking" /\ snap[r] \in Snapshots \ completed /\ results[snap[r]] = 0
        /\ \A q \in Runs \ {r} : at[q] = "asking" => snap[q] # snap[r]
    BY <1>2 DEF Cy!RunReturns, RunnerInv
  <2>2. UNCHANGED snap /\ \A q \in Runs : at'[q] = "asking" => q # r /\ at[q] = "asking"
    BY <1>2 DEF Cy!RunReturns
  <2>3. CASE UNCHANGED <<completed, results>>
    BY <2>1, <2>2, <2>3 DEF RunnerInv
  <2>4. CASE /\ completed' = completed \union {snap[r]}
             /\ results' = [results EXCEPT ![snap[r]] = @ + 1]
    BY <2>1, <2>2, <2>4 DEF RunnerInv
  <2> QED BY <1>2, <2>3, <2>4 DEF Cy!RunReturns
<1>3. ASSUME UNCHANGED <<completed, results>>,
             \A r \in Runs : at'[r] = at[r] /\ snap'[r] = snap[r]
      PROVE  RunnerInv'
  BY <1>3 DEF RunnerInv
<1>4. ASSUME NEW c \in Loops,
             \/ \E s \in Snapshots : Cy!Claim(c, s)
             \/ Cy!Answer(c) \/ Cy!Place(c) \/ Cy!LogFill(c) \/ Cy!Verify(c) \/ Cy!Tell(c) \/ Cy!SetTerminal(c)
             \/ Cy!LogEvent(c) \/ Cy!WriteFails(c)
      PROVE  RunnerInv'
  <2>1. UNCHANGED <<completed, results>>
    BY <1>4 DEF Cy!Claim, Cy!Answer, Cy!Place, Cy!LogFill, Cy!Verify, Cy!Tell, Cy!SetTerminal,
                Cy!LogEvent, Cy!WriteFails
  <2>2. \A r \in Runs : at'[r] = at[r] /\ snap'[r] = snap[r]
    BY <1>4 DEF Cy!Claim, Cy!Answer, Cy!Place, Cy!LogFill, Cy!Verify, Cy!Tell, Cy!SetTerminal,
                Cy!LogEvent, Cy!WriteFails
  <2> QED BY <1>3, <2>1, <2>2
<1>5. CASE Cy!Restart
  BY <1>5 DEF Cy!Restart, RunnerInv
<1>6. CASE UNCHANGED Cy!vars
  BY <1>3, <1>6 DEF Cy!vars
<1> QED BY <1>1, <1>2, <1>4, <1>5, <1>6 DEF Cy!Next

-----------------------------------------------------------------------------
CycleLedgerInv == OwnersAreOne /\ UnclaimedIsBlank /\ OwnerTells /\ CycleStories

(* Steps that leave the ledger, and keep or end what its writers do. *)
LEMMA SilentStep ==
  ASSUME CycleLedgerInv, UNCHANGED Cy!ledger,
         \A c \in Loops : at'[c] \in Owning =>
           at'[c] = at[c] /\ snap'[c] = snap[c] /\ ending'[c] = ending[c]
  PROVE  CycleLedgerInv'
<1>1. UNCHANGED <<claimed, terminal, told, fills>>
  BY DEF Cy!ledger
<1>2. OwnersAreOne'
  BY <1>1 DEF CycleLedgerInv, OwnersAreOne
<1>3. UnclaimedIsBlank' /\ CycleStories'
  BY <1>1 DEF CycleLedgerInv, UnclaimedIsBlank, CycleStories, CycleStory
<1>4. ASSUME NEW c \in Loops PROVE OwnerTell(c)'
  <2>1. CASE at'[c] \in Owning
    BY <1>1, <2>1 DEF CycleLedgerInv, OwnerTells, OwnerTell
  <2>2. CASE at'[c] \notin Owning
    BY <2>2 DEF OwnerTell, Owning
  <2> QED BY <2>1, <2>2
<1> QED BY <1>2, <1>3, <1>4 DEF CycleLedgerInv, OwnerTells

(* A step of one owner that stays one: the others have other cycles. *)
LEMMA OwnersStay ==
  ASSUME CallTypes, OwnersAreOne, NEW c \in Loops, at[c] \in Owning, UNCHANGED <<snap, claimed>>,
         \A d \in Loops \ {c} : at'[d] = at[d]
  PROVE  /\ OwnersAreOne'
         /\ snap[c] \in Snapshots /\ snap[c] \in claimed
         /\ \A d \in Loops \ {c} : at'[d] \in Owning =>
              at[d] \in Owning /\ snap[d] # snap[c] /\ snap[d] \in Snapshots
BY DEF OwnersAreOne

LEMMA ClaimStep ==
  ASSUME Cy!CycleAssumption, CallTypes, CycleLedgerInv, NEW c \in Loops, NEW s \in Snapshots, Cy!Claim(c, s)
  PROVE  CycleLedgerInv'
<1> USE DEF CallTypes, Cy!Callers, Cy!To, Owning
<1>1. /\ snap' = [snap EXCEPT ![c] = s]
      /\ at[c] = "idle"
      /\ claimed' = claimed \union {s}
      /\ UNCHANGED <<terminal, told, fills>>
      /\ \A d \in Loops \ {c} : at'[d] = at[d] /\ snap'[d] = snap[d] /\ ending'[d] = ending[d]
      /\ snap'[c] = s
  BY DEF Cy!Claim
<1>2. CASE s \in claimed
  <2>1. at'[c] = "done" /\ claimed' = claimed
    BY <1>1, <1>2 DEF Cy!Claim
  <2> QED BY <1>1, <2>1, SilentStep DEF Cy!ledger
<1>3. CASE s \notin claimed
  <2>1. at'[c] = "asking" \/ (at'[c] = "telling" /\ ending'[c] = "PARKED")
    BY <1>3 DEF Cy!Claim
  <2>2. told[s] = {} /\ fills[s] = {} /\ terminal[s] = None
    BY <1>3 DEF CycleLedgerInv, UnclaimedIsBlank
  <2>3. \A d \in Loops \ {c} : at[d] \in Owning => snap[d] # s
    BY <1>3 DEF CycleLedgerInv, OwnersAreOne
  <2>4. OwnersAreOne'
    BY <1>1, <2>1, <2>3 DEF CycleLedgerInv, OwnersAreOne
  <2>5. UnclaimedIsBlank' /\ CycleStories'
    BY <1>1 DEF CycleLedgerInv, UnclaimedIsBlank, CycleStories, CycleStory
  <2>6. ASSUME NEW d \in Loops PROVE OwnerTell(d)'
    <3>1. CASE d = c
      BY <1>1, <2>1, <2>2, <3>1 DEF OwnerTell, Cy!Endings, Entered
    <3>2. CASE d # c
      <4>1. OwnerTell(d)
        BY DEF CycleLedgerInv, OwnerTells
      <4>2. /\ at'[d] = at[d] /\ snap'[d] = snap[d] /\ ending'[d] = ending[d]
            /\ terminal' = terminal /\ told' = told /\ fills' = fills
        BY <1>1, <3>2
      <4> QED BY <4>1, <4>2 DEF OwnerTell
    <3> QED BY <3>1, <3>2
  <2> QED BY <2>4, <2>5, <2>6 DEF CycleLedgerInv, OwnerTells
<1> QED BY <1>2, <1>3

(* What one owner writes about its cycle, where the others stand as before. *)
LEMMA OwnerWrites ==
  ASSUME CallTypes, CycleLedgerInv, NEW c \in Loops, at[c] \in Owning, UNCHANGED <<snap, claimed>>,
         \A d \in Loops \ {c} : at'[d] = at[d] /\ ending'[d] = ending[d],
         \A s \in Snapshots \ {snap[c]} :
           terminal'[s] = terminal[s] /\ told'[s] = told[s] /\ fills'[s] = fills[s],
         OwnerTell(c)', CycleStory(snap[c])'
  PROVE  CycleLedgerInv'
<1>1. /\ OwnersAreOne'
      /\ snap[c] \in Snapshots /\ snap[c] \in claimed
      /\ \A d \in Loops \ {c} : at'[d] \in Owning =>
           at[d] \in Owning /\ snap[d] # snap[c] /\ snap[d] \in Snapshots
  BY OwnersStay DEF CycleLedgerInv
<1>2. UnclaimedIsBlank'
  BY <1>1 DEF CycleLedgerInv, UnclaimedIsBlank
<1>3. ASSUME NEW s \in Snapshots PROVE CycleStory(s)'
  <2>1. CASE s = snap[c]
    BY <2>1
  <2>2. CASE s # snap[c]
    <3>1. CycleStory(s)
      BY DEF CycleLedgerInv, CycleStories
    <3>2. terminal'[s] = terminal[s] /\ told'[s] = told[s] /\ fills'[s] = fills[s]
      BY <2>2
    <3> QED BY <3>1, <3>2 DEF CycleStory
  <2> QED BY <2>1, <2>2
<1>4. ASSUME NEW d \in Loops PROVE OwnerTell(d)'
  <2>1. CASE d = c
    BY <2>1
  <2>2. CASE d # c /\ at'[d] \in Owning
    <3>1. OwnerTell(d)
      BY DEF CycleLedgerInv, OwnerTells
    <3>2. snap[d] # snap[c] /\ snap[d] \in Snapshots
      BY <1>1, <2>2
    <3>3. /\ at'[d] = at[d] /\ snap'[d] = snap[d] /\ ending'[d] = ending[d]
          /\ terminal'[snap[d]] = terminal[snap[d]]
          /\ told'[snap[d]] = told[snap[d]] /\ fills'[snap[d]] = fills[snap[d]]
      BY <2>2, <3>2
    <3> QED BY <3>1, <3>3 DEF OwnerTell
  <2>3. CASE at'[d] \notin Owning
    BY <2>3 DEF OwnerTell, Owning
  <2> QED BY <2>1, <2>2, <2>3
<1> QED BY <1>1, <1>2, <1>3, <1>4 DEF CycleLedgerInv, OwnerTells, CycleStories

LEMMA CycleWriteStep ==
  ASSUME Cy!CycleAssumption, CallTypes, CycleLedgerInv, NEW c \in Loops,
         \/ Cy!Answer(c) \/ Cy!Place(c) \/ Cy!LogFill(c) \/ Cy!Verify(c) \/ Cy!Tell(c)
         \/ Cy!SetTerminal(c) \/ Cy!LogEvent(c) \/ Cy!WriteFails(c)
  PROVE  CycleLedgerInv'
<1> USE DEF Cy!CycleAssumption, CallTypes, Cy!Callers, Cy!To
<1>1. /\ at[c] \in Owning
      /\ UNCHANGED <<snap, claimed>>
      /\ \A d \in Loops \ {c} : at'[d] = at[d] /\ ending'[d] = ending[d]
  BY DEF Cy!Answer, Cy!Place, Cy!LogFill, Cy!Verify, Cy!Tell, Cy!SetTerminal, Cy!LogEvent,
         Cy!WriteFails, Cy!NextWrite, Owning, Cy!ledger
<1>2. /\ OwnerTell(c) /\ snap[c] \in Snapshots
      /\ CycleStory(snap[c])
  BY <1>1 DEF CycleLedgerInv, OwnerTells, OwnersAreOne, CycleStories
<1>3. CASE Cy!Answer(c) \/ Cy!Place(c)
  <2>1. UNCHANGED Cy!ledger
    BY <1>3 DEF Cy!Answer, Cy!Place
  <2>2. OwnerTell(c)'
    <3>1. /\ at[c] \in {"asking", "placing"}
          /\ \/ at'[c] \in {"placing", "intent", "raised"}
             \/ at'[c] = "telling" /\ ending'[c] \in {"HELD", "REJECTED"}
      BY <1>3 DEF Cy!Answer, Cy!Place
    <3> QED BY <1>1, <1>2, <2>1, <3>1 DEF OwnerTell, Owning, Cy!ledger, Entered, Cy!Endings
  <2>3. CycleStory(snap[c])'
    BY <1>1, <1>2, <2>1 DEF CycleStory, Cy!ledger
  <2> QED BY <1>1, <2>1, <2>2, <2>3, OwnerWrites DEF Cy!ledger
<1>4. CASE Cy!LogFill(c)
  <2>1. /\ at[c] = "filled" /\ at'[c] = "verifying"
        /\ fills' = [fills EXCEPT ![snap[c]] = @ \union {c}]
        /\ UNCHANGED <<terminal, told>>
    BY <1>4 DEF Cy!LogFill
  <2>2. terminal[snap[c]] = None /\ told[snap[c]] = {} /\ fills[snap[c]] = {}
    BY <1>2, <2>1 DEF OwnerTell, Owning
  <2>3. fills'[snap[c]] = {c}
    BY <1>2, <2>1, <2>2
  <2>4. OwnerTell(c)'
    BY <1>1, <2>1, <2>2, <2>3 DEF OwnerTell
  <2>5. CycleStory(snap[c])'
    BY <1>1, <2>1, <2>2, <2>3 DEF CycleStory
  <2> QED BY <1>1, <2>1, <2>4, <2>5, OwnerWrites
<1>5. CASE Cy!Verify(c)
  <2>1. UNCHANGED Cy!ledger
    BY <1>5 DEF Cy!Verify
  <2>2. OwnerTell(c)'
    <3>1. /\ at[c] = "verifying"
          /\ at'[c] = "raised" \/ (at'[c] = "protection" /\ ending'[c] \in Entered)
      BY <1>5 DEF Cy!Verify, Entered
    <3> QED BY <1>1, <1>2, <2>1, <3>1 DEF OwnerTell, Owning, Cy!ledger, Entered, Cy!Endings
  <2>3. CycleStory(snap[c])'
    BY <1>1, <1>2, <2>1 DEF CycleStory, Cy!ledger
  <2> QED BY <1>1, <2>1, <2>2, <2>3, OwnerWrites DEF Cy!ledger
<1>6. CASE Cy!Tell(c)
  <2>1. /\ at[c] = "telling" /\ at'[c] = "setting"
        /\ told' = [told EXCEPT ![snap[c]] = @ \union {ending[c]}]
        /\ UNCHANGED <<ending, terminal, fills>>
    BY <1>6 DEF Cy!Tell
  <2>2. /\ terminal[snap[c]] = None /\ told[snap[c]] = {} /\ ending[c] \in Cy!Endings
        /\ fills[snap[c]] = IF ending[c] \in Entered THEN {c} ELSE {}
    BY <1>2, <2>1 DEF OwnerTell, Owning
  <2>3. told'[snap[c]] = {ending[c]}
    BY <1>2, <2>1, <2>2
  <2>4. OwnerTell(c)'
    BY <1>1, <2>1, <2>2, <2>3 DEF OwnerTell
  <2>5. CycleStory(snap[c])'
    BY <1>1, <2>1, <2>2, <2>3 DEF CycleStory
  <2> QED BY <1>1, <2>1, <2>4, <2>5, OwnerWrites
<1>7. CASE Cy!SetTerminal(c)
  <2>1. /\ at[c] = "setting" /\ at'[c] = "done"
        /\ terminal' = [terminal EXCEPT ![snap[c]] = ending[c]]
        /\ UNCHANGED <<ending, told, fills>>
    BY <1>7 DEF Cy!SetTerminal
  <2>2. told[snap[c]] = {ending[c]}
    BY <1>2, <2>1 DEF OwnerTell
  <2>3. terminal'[snap[c]] = ending[c]
    BY <1>2, <2>1
  <2>4. OwnerTell(c)'
    BY <2>1 DEF OwnerTell, Owning
  <2>5. CycleStory(snap[c])'
    BY <1>1, <1>2, <2>1, <2>2, <2>3 DEF CycleStory
  <2> QED BY <1>1, <2>1, <2>4, <2>5, OwnerWrites
<1>8. CASE Cy!LogEvent(c) \/ Cy!WriteFails(c)
  <2>1. UNCHANGED Cy!ledger /\ ending' = ending
    BY <1>8 DEF Cy!LogEvent, Cy!WriteFails
  <2>2. \/ at'[c] = "raised"
        \/ at[c] = "intent" /\ at'[c] = "submitted"
        \/ at[c] = "submitted" /\ at'[c] = "filled"
        \/ at[c] = "protection" /\ at'[c] = "reconciled"
        \/ at[c] = "reconciled" /\ at'[c] = "telling"
    BY <1>8 DEF Cy!LogEvent, Cy!WriteFails, Cy!NextWrite
  <2>3. OwnerTell(c)'
    BY <1>1, <1>2, <2>1, <2>2 DEF OwnerTell, Owning, Cy!ledger, Entered, Cy!Endings
  <2>4. CycleStory(snap[c])'
    BY <1>1, <1>2, <2>1 DEF CycleStory, Cy!ledger
  <2> QED BY <1>1, <2>1, <2>3, <2>4, OwnerWrites DEF Cy!ledger
<1> QED BY <1>3, <1>4, <1>5, <1>6, <1>7, <1>8

LEMMA CycleLedgerStep ==
  ASSUME Cy!CycleAssumption, CallTypes, CycleLedgerInv, [Cy!Next]_(Cy!vars)
  PROVE  CycleLedgerInv'
<1> USE DEF Cy!CycleAssumption, CallTypes, Cy!Callers, Cy!To
<1>1. ASSUME NEW r \in Runs, (\E s \in Snapshots : Cy!RunOnce(r, s)) \/ Cy!RunReturns(r)
      PROVE  CycleLedgerInv'
  <2>1. /\ UNCHANGED Cy!ledger
        /\ \A c \in Loops : at'[c] = at[c] /\ snap'[c] = snap[c] /\ ending'[c] = ending[c]
    BY <1>1 DEF Cy!RunOnce, Cy!RunReturns
  <2> QED BY <2>1, SilentStep
<1>2. CASE Cy!Restart
  <2>1. /\ UNCHANGED Cy!ledger /\ UNCHANGED <<snap, ending>>
        /\ \A c \in Loops : at'[c] \in {"idle", "done", "raised"}
    BY <1>2 DEF Cy!Restart
  <2> QED BY <2>1, SilentStep DEF Owning
<1>3. CASE UNCHANGED Cy!vars
  BY <1>3, SilentStep DEF Cy!vars
<1> QED BY <1>1, <1>2, <1>3, ClaimStep, CycleWriteStep DEF Cy!Next

-----------------------------------------------------------------------------
LEMMA CycleInvHolds == ASSUME Cy!CycleAssumption PROVE Cy!Spec => []CycleInv
<1>1. Cy!Init => CycleInv
  <2> SUFFICES ASSUME Cy!Init PROVE CycleInv
    OBVIOUS
  <2>1. CallTypes
    BY DEF Cy!Init, CallTypes, Cy!Places
  <2>2. RunnerInv
    BY DEF Cy!Init, RunnerInv, Cy!Callers
  <2>3. \A c \in Loops : at[c] = "idle"
    BY DEF Cy!Init, Cy!Callers
  <2>4. OwnersAreOne /\ OwnerTells
    BY <2>3 DEF OwnersAreOne, OwnerTells, OwnerTell, Owning
  <2>5. UnclaimedIsBlank /\ CycleStories
    BY DEF Cy!Init, UnclaimedIsBlank, CycleStories, CycleStory
  <2> QED BY <2>1, <2>2, <2>4, <2>5 DEF CycleInv
<1>2. CycleInv /\ [Cy!Next]_(Cy!vars) => CycleInv'
  BY CallTypeStep, RunnerStep, CycleLedgerStep DEF CycleInv, CycleLedgerInv
<1> QED BY <1>1, <1>2, PTL DEF Cy!Spec

(* The variables stay in their types. *)
THEOREM CycleTypes == ASSUME Cy!CycleAssumption PROVE Cy!Spec => []Cy!TypeOK
<1> DEFINE Rest ==
      /\ turn \in Cy!Callers \union {None}
      /\ completed \subseteq Snapshots /\ claimed \subseteq Snapshots
      /\ position \in [Symbols -> Int] /\ protected \in [Symbols -> BOOLEAN]
<1>1. Cy!Init => Rest
  BY DEF Cy!Init
<1>2. ASSUME CycleInv, Rest, [Cy!Next]_(Cy!vars) PROVE Rest'
  <2> USE DEF CallTypes, Cy!Callers, Cy!To
  <2>1. CallTypes
    BY <1>2 DEF CycleInv
  <2>2. ASSUME NEW r \in Runs, (\E s \in Snapshots : Cy!RunOnce(r, s)) \/ Cy!RunReturns(r) PROVE Rest'
    <3>1. ASSUME Cy!RunReturns(r) PROVE snap[r] \in Snapshots
      BY <1>2, <3>1 DEF CycleInv, RunnerInv, Cy!RunReturns
    <3> QED BY <1>2, <2>2, <3>1 DEF Cy!RunOnce, Cy!RunReturns, Cy!ledger, Cy!venue
  <2>3. ASSUME NEW c \in Loops, (\E s \in Snapshots : Cy!Claim(c, s)) \/ Cy!Answer(c) PROVE Rest'
    BY <1>2, <2>3 DEF Cy!Claim, Cy!Answer, Cy!ledger, Cy!venue
  <2>4. ASSUME NEW c \in Loops,
               \/ Cy!LogFill(c) \/ Cy!Tell(c) \/ Cy!SetTerminal(c)
               \/ Cy!LogEvent(c) \/ Cy!WriteFails(c)
        PROVE  Rest'
    BY <1>2, <2>4 DEF Cy!LogFill, Cy!Tell, Cy!SetTerminal, Cy!LogEvent, Cy!WriteFails, Cy!ledger,
                      Cy!venue
  <2>5. ASSUME NEW c \in Loops, Cy!Place(c) PROVE Rest'
    <3>1. PICK q \in {-2, -1, 1, 2} :
            /\ position' = [position EXCEPT ![SymbolOf[snap[c]]] = @ + q]
            /\ protected' = [protected EXCEPT ![SymbolOf[snap[c]]] =
                               @ /\ position[SymbolOf[snap[c]]] * (position[SymbolOf[snap[c]]] + q) > 0]
      BY <2>5 DEF Cy!Place
    <3>2. position' \in [Symbols -> Int]
      <4> DEFINE y == SymbolOf[snap[c]]
      <4>1. q \in Int
        BY <3>1
      <4>2. position' = [x \in Symbols |-> IF x = y THEN position[x] + q ELSE position[x]]
        BY <1>2, <3>1
      <4>3. ASSUME NEW x \in Symbols
            PROVE  (IF x = y THEN position[x] + q ELSE position[x]) \in Int
        BY <1>2, <4>1
      <4> QED BY <4>2, <4>3
    <3>3. protected' \in [Symbols -> BOOLEAN]
      BY <1>2, <3>1, Zenon
    <3> QED BY <1>2, <2>5, <3>2, <3>3 DEF Cy!Place, Cy!ledger
  <2>6. ASSUME NEW c \in Loops, Cy!Verify(c) PROVE Rest'
    BY <1>2, <2>6 DEF Cy!Verify, Cy!ledger
  <2>7. CASE Cy!Restart
    BY <1>2, <2>7 DEF Cy!Restart, Cy!ledger
  <2>8. CASE UNCHANGED Cy!vars
    BY <1>2, <2>8 DEF Cy!vars, Cy!ledger, Cy!venue
  <2> QED BY <1>2, <2>2, <2>3, <2>4, <2>5, <2>6, <2>7, <2>8 DEF Cy!Next
<1>3. CycleInv /\ Rest => Cy!TypeOK
  BY DEF CycleInv, CallTypes, Cy!TypeOK
<1> QED BY <1>1, <1>2, <1>3, CycleInvHolds, PTL DEF Cy!Spec

(* One process asks the provider at most once per symbol at a time, and for  *)
(* a snapshot it takes one result, in any interleaving of its callers.       *)
THEOREM RunnersAskOnce == ASSUME Cy!CycleAssumption PROVE Cy!Spec => []Cy!RunnerAsksOnce
<1>1. CycleInv => Cy!RunnerAsksOnce
  BY DEF CycleInv, RunnerInv, Cy!RunnerAsksOnce
<1> QED BY <1>1, CycleInvHolds, PTL

(* The ledger tells of one ending and one fill of a cycle, its row says what *)
(* was told, and only what was entered has a fill, in any interleaving and   *)
(* over any crashes between two writes.                                      *)
THEOREM OneStory == ASSUME Cy!CycleAssumption PROVE Cy!Spec => []Cy!LedgerTellsOneStory
<1>1. ASSUME NEW s \in Snapshots, CycleStory(s)
      PROVE  /\ Cardinality(told[s]) <= 1 /\ Cardinality(fills[s]) <= 1
             /\ terminal[s] # None => terminal[s] \in told[s]
             /\ told[s] \cap {"EXECUTED", "DEGRADED"} # {} <=> told[s] # {} /\ fills[s] # {}
  <2>1. ASSUME NEW S, S = {} \/ \E x : S = {x} PROVE Cardinality(S) <= 1
    <3>1. CASE S = {}
      BY <3>1, FS_EmptySet
    <3>2. CASE \E x : S = {x}
      <4>1. Cardinality(S) = 1
        BY <3>2, FS_Singleton
      <4> QED BY <4>1
    <3> QED BY <2>1, <3>1, <3>2
  <2>2. Cardinality(told[s]) <= 1
    <3>1. told[s] = {} \/ \E x : told[s] = {x}
      BY <1>1 DEF CycleStory
    <3> QED BY <2>1, <3>1
  <2>3. Cardinality(fills[s]) <= 1
    <3>1. fills[s] = {} \/ \E x : fills[s] = {x}
      BY <1>1 DEF CycleStory
    <3> QED BY <2>1, <3>1
  <2>4. told[s] \cap {"EXECUTED", "DEGRADED"} # {} <=> told[s] # {} /\ fills[s] # {}
    BY <1>1 DEF CycleStory, Entered
  <2> QED BY <1>1, <2>2, <2>3, <2>4 DEF CycleStory
<1>2. CycleInv => Cy!LedgerTellsOneStory
  BY <1>1, SameCount DEF CycleInv, CycleStories, Cy!LedgerTellsOneStory
<1> QED BY <1>2, CycleInvHolds, PTL

-----------------------------------------------------------------------------
(* The demo venue, for any orders, any number of executions and any venue    *)
(* that forgets none of its orders.                                          *)

KnownThere(i) == atVenue[i] # "unknown"

Placed == {"order", "fills", "positions"}

(* The identifier of a request is that of its order alone, also in the       *)
(* executions before this one: this is what keeps the venue at one order.    *)
OneName == \A i \in De!Oids : KnownThere(i) => i.nonce = De!AnyNonce

Told(o) == \E n \in DOMAIN reports : reports[n].order = o

(* What execute has in hand while it waits for a reply. *)
InHand ==
  /\ request \in De!Steps
  /\ request # "idle" => asked \in Orders /\ oid = [order |-> asked, nonce |-> De!AnyNonce]
  /\ request \in Placed => KnownThere(oid)
  /\ request \in {"fills", "positions"} => (protection = TRUE => asked \in WithLevels)
  /\ request \in Placed => ~Told(asked)

(* What was reported. *)
ReportIsTrue(r) ==
  /\ KnownThere([order |-> r.order, nonce |-> De!AnyNonce])
  /\ r.disposition = "EXECUTED_PROTECTED" => r.order \in WithLevels

ReportsAreTrue ==
  /\ \A n \in DOMAIN reports : ReportIsTrue(reports[n])
  /\ \A n, k \in DOMAIN reports : reports[k].order = reports[n].order => k = n

DemoInv ==
  /\ De!TypeOK
  /\ OneName /\ InHand /\ ReportsAreTrue

LEMMA NameIs ==
  ASSUME De!VenueAssumption, NEW o \in Orders
  PROVE  /\ De!AnyNonce \in Nonces
         /\ [order |-> o, nonce |-> De!AnyNonce] \in De!Oids
BY DEF De!VenueAssumption, De!AnyNonce, De!Oids

(* The venue may get an order under the name in hand, or lose one from its   *)
(* book; it never forgets one.                                               *)
LEMMA VenueMoves ==
  ASSUME De!VenueAssumption, DemoInv, [De!Next]_(De!vars)
  PROVE  /\ atVenue' \in [De!Oids -> {"unknown", "live", "gone"}]
         /\ \A i \in De!Oids : KnownThere(i) => KnownThere(i)'
         /\ \A i \in De!Oids : KnownThere(i)' => KnownThere(i) \/ (request = "submit" /\ confirmed /\ i = oid)
<1> USE DEF DemoInv, De!TypeOK, KnownThere
<1>1. CASE UNCHANGED atVenue
  BY <1>1
<1>2. CASE request = "submit" /\ confirmed /\ atVenue' = [atVenue EXCEPT ![oid] = "live"]
  BY <1>2
<1>3. ASSUME NEW o \in De!Oids, atVenue[o] = "live", atVenue' = [atVenue EXCEPT ![o] = "gone"]
      PROVE  /\ atVenue' \in [De!Oids -> {"unknown", "live", "gone"}]
             /\ \A i \in De!Oids : KnownThere(i) => KnownThere(i)'
             /\ \A i \in De!Oids : KnownThere(i)' => KnownThere(i)
  BY <1>3
<1>4. CASE De!Submit
  BY <1>1, <1>2, <1>4 DEF De!Submit
<1>5. CASE De!Venue
  BY <1>3, <1>5 DEF De!Venue
<1>6. CASE (\E o \in Orders : De!Execute(o)) \/ De!ReadOrder \/ De!ReadFills \/ De!ReadPositions
           \/ De!Operator \/ UNCHANGED De!vars
  BY <1>1, <1>6 DEF De!Execute, De!ReadOrder, De!ReadFills, De!ReadPositions, De!Operator, De!vars
<1> QED BY <1>4, <1>5, <1>6 DEF De!Next

(* What a test of membership or a plain FALSE reads back is a truth value. *)
LEMMA ReadBackIsTruth ==
  ASSUME NEW S, NEW x, NEW p, NEW n, p \in {FALSE, (x \in S)}
  PROVE  p \in BOOLEAN \union {n}
<1>1. CASE p = FALSE
  BY <1>1, Zenon
<1>2. CASE p = (x \in S)
  BY <1>2, SMT
<1> QED BY <1>1, <1>2, Zenon

LEMMA DemoTypeStep ==
  ASSUME De!VenueAssumption, DemoInv, [De!Next]_(De!vars)
  PROVE  De!TypeOK'
<1>1. De!TypeOK /\ atVenue' \in [De!Oids -> {"unknown", "live", "gone"}]
  BY VenueMoves DEF DemoInv
<1> USE DEF De!TypeOK, De!Steps
<1>2. CASE De!Raises
  BY <1>1, <1>2 DEF De!Raises
<1>3. ASSUME NEW o \in Orders, De!Execute(o)
      PROVE  De!TypeOK'
  <2>1. /\ oid' = [order |-> o, nonce |-> De!AnyNonce] /\ asked' = o /\ request' = "submit"
        /\ protection' = None /\ runs < MaxRuns /\ runs' = runs + 1
        /\ UNCHANGED <<confirmed, reports>>
    BY <1>3 DEF De!Execute, De!ClientOrderId
  <2>2. oid' \in De!Oids
    BY <2>1, NameIs
  <2>3. runs' \in 0..MaxRuns
    BY <1>1, <2>1 DEF De!VenueAssumption
  <2> QED BY <1>1, <2>1, <2>2, <2>3
<1>4. CASE (De!Submit \/ De!ReadFills) /\ ~De!Raises
  <2>1. request' \in De!Steps /\ UNCHANGED <<confirmed, asked, oid, protection, runs, reports>>
    BY <1>4, Zenon DEF De!Submit, De!ReadFills
  <2> QED BY <1>1, <2>1
<1>5. CASE De!ReadOrder /\ ~De!Raises
  <2>1. /\ request' = "fills" /\ protection' \in {FALSE, (asked \in WithLevels)}
        /\ UNCHANGED <<confirmed, asked, oid, runs, reports>>
    BY <1>5, Zenon DEF De!ReadOrder
  <2> HIDE DEF De!TypeOK
  <2>2. protection' \in BOOLEAN \union {None}
    BY <2>1, ReadBackIsTruth
  <2>3. request' \in De!Steps
    BY <2>1
  <2> QED BY <1>1, <2>1, <2>2, <2>3 DEF De!TypeOK
<1>6. CASE De!ReadPositions /\ ~De!Raises
  <2> DEFINE verdict == IF protection THEN "EXECUTED_PROTECTED" ELSE "PARKED_PROTECTION_MISSING"
  <2>1. /\ request = "positions" /\ request' = "idle"
        /\ UNCHANGED <<confirmed, asked, oid, protection, runs>>
        /\ reports' = Append(reports, [order |-> asked, disposition |-> verdict])
    BY <1>6, Zenon DEF De!ReadPositions
  <2>2. asked \in Orders
    BY <2>1 DEF DemoInv, InHand
  <2>3. verdict \in De!Dispositions
    BY DEF De!Dispositions
  <2>4. [order |-> asked, disposition |-> verdict] \in [order : Orders, disposition : De!Dispositions]
    BY <2>2, <2>3
  <2>5. reports' \in Seq([order : Orders, disposition : De!Dispositions])
    BY <1>1, <2>1, <2>4
  <2> QED BY <1>1, <2>1, <2>5
<1>7. CASE De!Venue \/ De!Operator \/ UNCHANGED De!vars
  BY <1>1, <1>7 DEF De!Venue, De!Operator, De!vars
<1> QED BY <1>2, <1>3, <1>4, <1>5, <1>6, <1>7 DEF De!Next

LEMMA HandStep ==
  ASSUME De!VenueAssumption, DemoInv, [De!Next]_(De!vars)
  PROVE  InHand'
<1> USE DEF De!Steps, Placed
<1>0. InHand /\ \A i \in De!Oids : KnownThere(i) => KnownThere(i)'
  BY VenueMoves DEF DemoInv
<1>10. ASSUME UNCHANGED reports, NEW o PROVE Told(o)' <=> Told(o)
  BY <1>10 DEF Told
<1>11. ASSUME NEW o \in Orders, Told(o) PROVE KnownThere([order |-> o, nonce |-> De!AnyNonce])
  BY <1>11, Zenon DEF Told, DemoInv, ReportsAreTrue, ReportIsTrue
<1>1. request # "idle" => oid \in De!Oids
  BY <1>0, NameIs DEF InHand
<1>2. CASE De!Raises
  BY <1>2 DEF InHand, De!Raises
<1>3. CASE UNCHANGED <<request, asked, oid, protection, reports>>
  BY <1>0, <1>1, <1>3, <1>10 DEF InHand, KnownThere
<1>4. ASSUME NEW o \in Orders, De!Execute(o)
      PROVE  InHand'
  BY <1>4 DEF De!Execute, InHand, De!ClientOrderId
<1>5. CASE De!Submit /\ ~De!Raises
  <2>1. /\ request = "submit" /\ request' = "order" /\ UNCHANGED <<asked, oid, reports>>
        /\ atVenue[oid] = "unknown" /\ atVenue' = [atVenue EXCEPT ![oid] = "live"]
    BY <1>5, Zenon DEF De!Submit
  <2>2. KnownThere(oid)'
    BY <1>1, <2>1 DEF DemoInv, De!TypeOK, KnownThere
  <2>3. ~Told(asked)
    BY <1>0, <1>11, <2>1 DEF InHand, KnownThere
  <2> QED BY <1>0, <1>10, <2>1, <2>2, <2>3 DEF InHand
<1>6. CASE De!ReadOrder /\ ~De!Raises
  <2>1. /\ request = "order" /\ request' = "fills" /\ UNCHANGED <<asked, oid, reports>>
        /\ protection' \in {FALSE, (asked \in WithLevels)}
    BY <1>6, Zenon DEF De!ReadOrder
  <2>2. KnownThere(oid)'
    BY <1>0, <1>1, <2>1 DEF InHand, KnownThere
  <2> QED BY <1>0, <1>10, <2>1, <2>2 DEF InHand
<1>7. CASE De!ReadFills /\ ~De!Raises
  <2>1. /\ request = "fills" /\ request' = "positions"
        /\ UNCHANGED <<asked, oid, protection, reports>>
    BY <1>7, Zenon DEF De!ReadFills
  <2>2. KnownThere(oid)'
    BY <1>0, <1>1, <2>1 DEF InHand, KnownThere
  <2> QED BY <1>0, <1>10, <2>1, <2>2 DEF InHand
<1>8. CASE De!ReadPositions /\ ~De!Raises
  <2>1. request' = "idle"
    BY <1>8, Zenon DEF De!ReadPositions
  <2> QED BY <2>1 DEF InHand
<1>9. CASE De!Venue \/ De!Operator \/ UNCHANGED De!vars
  BY <1>3, <1>9 DEF De!Venue, De!Operator, De!vars
<1> QED BY <1>2, <1>4, <1>5, <1>6, <1>7, <1>8, <1>9 DEF De!Next

LEMMA ElementOf == ASSUME NEW S, NEW q \in Seq(S), NEW n \in DOMAIN q PROVE q[n] \in S
OBVIOUS

LEMMA ReportStep ==
  ASSUME De!VenueAssumption, DemoInv, [De!Next]_(De!vars)
  PROVE  ReportsAreTrue'
<1>1. \A i \in De!Oids : KnownThere(i) => KnownThere(i)'
  BY VenueMoves
<1>5. reports \in Seq([order : Orders, disposition : De!Dispositions])
  BY DEF DemoInv, De!TypeOK
<1>6. ASSUME NEW n \in DOMAIN reports PROVE ReportIsTrue(reports[n]) /\ reports[n].order \in Orders
  <2>1. ReportIsTrue(reports[n])
    BY <1>6, Zenon DEF DemoInv, ReportsAreTrue
  <2>2. reports[n] \in [order : Orders, disposition : De!Dispositions]
    BY <1>5, <1>6, ElementOf
  <2> QED BY <2>1, <2>2
<1>7. ASSUME NEW n \in DOMAIN reports, reports'[n] = reports[n] PROVE ReportIsTrue(reports[n])'
  <2>1. KnownThere([order |-> reports[n].order, nonce |-> De!AnyNonce])'
    <3>1. PICK o \in Orders : o = reports[n].order
      BY <1>6
    <3>2. KnownThere([order |-> o, nonce |-> De!AnyNonce])
      BY <1>6, <3>1 DEF ReportIsTrue
    <3>3. KnownThere([order |-> o, nonce |-> De!AnyNonce])'
      BY <1>1, <3>2, NameIs
    <3> QED BY <1>7, <3>1, <3>3 DEF KnownThere
  <2> QED BY <1>6, <1>7, <2>1 DEF ReportIsTrue
<1>2. CASE UNCHANGED reports
  BY <1>2, <1>7 DEF DemoInv, ReportsAreTrue
<1>3. CASE De!ReadPositions /\ ~De!Raises
  <2> DEFINE verdict == IF protection THEN "EXECUTED_PROTECTED" ELSE "PARKED_PROTECTION_MISSING"
             said == [order |-> asked, disposition |-> verdict]
  <2>1. request = "positions" /\ reports' = Append(reports, said)
    BY <1>3, Zenon DEF De!ReadPositions
  <2>2. /\ KnownThere([order |-> asked, nonce |-> De!AnyNonce]) /\ asked \in Orders
        /\ protection = TRUE => asked \in WithLevels
        /\ protection \in BOOLEAN \union {None}
        /\ ~Told(asked)
    BY <2>1, Zenon DEF DemoInv, InHand, Placed, De!TypeOK
  <2>3. verdict = "EXECUTED_PROTECTED" => asked \in WithLevels
    BY <1>3, <2>2 DEF De!ReadPositions
  <2>4. verdict \in De!Dispositions
    BY DEF De!Dispositions
  <2>5. said \in [order : Orders, disposition : De!Dispositions]
    BY <2>2, <2>4
  <2>6. /\ DOMAIN reports' = 1..(Len(reports) + 1) /\ DOMAIN reports = 1..Len(reports)
        /\ Len(reports) \in Nat
        /\ \A n \in DOMAIN reports : reports'[n] = reports[n]
        /\ reports'[Len(reports) + 1] = said
    BY <1>5, <2>1, <2>5
  <2>14. PICK v : v = verdict
    BY Zenon
  <2>7. PICK r : r = said /\ r.order = asked
    <3>1. [order |-> asked, disposition |-> v].order = asked
      OBVIOUS
    <3> QED BY <2>14, <3>1, Zenon
  <2>12. ReportIsTrue(r)'
    <3>1. PICK o \in Orders : o = asked
      BY <2>2
    <3>2. KnownThere([order |-> o, nonce |-> De!AnyNonce])'
      BY <1>1, <2>2, <3>1, NameIs
    <3>3. r.disposition = verdict /\ r.order = o
      BY <2>7, <3>1
    <3>4. r.disposition = "EXECUTED_PROTECTED" => r.order \in WithLevels
      BY <2>3, <2>7, <3>3
    <3> QED BY <3>2, <3>3, <3>4 DEF ReportIsTrue
  <2>8. \A n \in DOMAIN reports' : n \in DOMAIN reports \/ n = Len(reports) + 1
    BY <2>6
  <2>9. \A n \in DOMAIN reports : reports'[n].order # asked
    BY <2>2, <2>6 DEF Told
  <2>13. reports'[Len(reports) + 1] = r
    BY <2>6, <2>7
  <2>10. ASSUME NEW n \in DOMAIN reports' PROVE ReportIsTrue(reports[n])'
    <3>1. CASE n \in DOMAIN reports
      BY <1>7, <2>6, <3>1
    <3>2. CASE n = Len(reports) + 1
      BY <2>12, <2>13, <3>2 DEF ReportIsTrue
    <3> QED BY <2>8, <3>1, <3>2
  <2>11. \A n, k \in DOMAIN reports' : reports'[k].order = reports'[n].order => k = n
    BY <2>6, <2>7, <2>8, <2>9, <2>13 DEF DemoInv, ReportsAreTrue
  <2> QED BY <2>10, <2>11 DEF ReportsAreTrue
<1>4. CASE (\E o \in Orders : De!Execute(o)) \/ De!Submit \/ De!ReadOrder \/ De!ReadFills
           \/ (De!ReadPositions /\ De!Raises) \/ De!Venue \/ De!Operator \/ UNCHANGED De!vars
  BY <1>2, <1>4 DEF De!Execute, De!Submit, De!ReadOrder, De!ReadFills, De!Raises, De!Venue, De!Operator, De!vars
<1> QED BY <1>3, <1>4 DEF De!Next

LEMMA DemoInvHolds == De!VenueAssumption => (De!Spec => []DemoInv)
<1> SUFFICES ASSUME De!VenueAssumption PROVE De!Spec => []DemoInv
  OBVIOUS
<1>1. De!Init => DemoInv
  BY DEF De!VenueAssumption, De!TypeOK, De!Init, DemoInv, OneName, InHand, ReportsAreTrue, KnownThere, De!Steps, Placed
<1>2. ASSUME DemoInv, [De!Next]_(De!vars) PROVE DemoInv'
  <2>1. OneName'
    <3>1. \A i \in De!Oids : KnownThere(i)' => KnownThere(i) \/ (request = "submit" /\ i = oid)
      BY <1>2, VenueMoves
    <3>2. ASSUME NEW i \in De!Oids, KnownThere(i)' PROVE i.nonce = De!AnyNonce
      <4>1. CASE KnownThere(i)
        BY <1>2, <4>1 DEF DemoInv, OneName
      <4>2. CASE request = "submit" /\ i = oid
        <5>1. oid = [order |-> asked, nonce |-> De!AnyNonce]
          BY <1>2, <4>2 DEF DemoInv, InHand
        <5> QED BY <4>2, <5>1
      <4> QED BY <3>1, <3>2, <4>1, <4>2
    <3> QED BY <3>2 DEF OneName
  <2> QED BY <1>2, <2>1, DemoTypeStep, HandStep, ReportStep DEF DemoInv
<1> QED BY <1>1, <1>2, PTL DEF De!Spec

-----------------------------------------------------------------------------
(* However often an order is executed again, and whichever request or reply  *)
(* was lost, the venue has it once, and it is reported once, after it was    *)
(* placed and as protected only if it carries levels.                        *)
LEMMA OneOrder == ASSUME De!VenueAssumption PROVE De!Spec => []De!OneOrderPerRequest
<1>1. ASSUME DemoInv, NEW o \in Orders
      PROVE  De!Cardinality(De!PlacedFor(o)) <= 1
  <2> DEFINE S == De!PlacedFor(o)
             name == [order |-> o, nonce |-> De!AnyNonce]
  <2>1. S \subseteq {name}
    BY <1>1 DEF DemoInv, OneName, KnownThere, De!Oids, De!PlacedFor
  <2>2. IsFiniteSet({name}) /\ Cardinality({name}) = 1
    BY FS_Singleton
  <2>3. Cardinality(S) <= Cardinality({name})
    BY <2>1, <2>2, FS_Subset
  <2> QED BY <2>2, <2>3, SameCount
<1>2. ASSUME DemoInv, NEW n \in DOMAIN reports
      PROVE  /\ De!PlacedFor(reports[n].order) # {}
             /\ reports[n].disposition = "EXECUTED_PROTECTED" => reports[n].order \in WithLevels
             /\ \A k \in DOMAIN reports : reports[k].order = reports[n].order => k = n
  <2>1. reports[n].order \in Orders
    <3>1. reports \in Seq([order : Orders, disposition : De!Dispositions])
      BY <1>2 DEF DemoInv, De!TypeOK
    <3>2. reports[n] \in [order : Orders, disposition : De!Dispositions]
      BY <1>2, <3>1, ElementOf
    <3> QED BY <3>2
  <2>2. ReportIsTrue(reports[n])
    BY <1>2 DEF DemoInv, ReportsAreTrue
  <2>3. [order |-> reports[n].order, nonce |-> De!AnyNonce] \in De!PlacedFor(reports[n].order)
    BY <2>1, <2>2, NameIs DEF ReportIsTrue, KnownThere, De!PlacedFor
  <2> QED BY <1>2, <2>2, <2>3 DEF DemoInv, ReportsAreTrue, ReportIsTrue
<1>3. DemoInv => De!OneOrderPerRequest
  BY <1>1, <1>2, Zenon DEF De!OneOrderPerRequest
<1> QED BY <1>3, DemoInvHolds, PTL

(* An order that was placed by an execution that ended in an error is not    *)
(* reported by executing it again: the venue refuses the name it knows.      *)
LEMMA LostIsNotFound ==
  ASSUME De!VenueAssumption, DemoInv, [De!Next]_(De!vars)
  PROVE  De!LostStaysLost
<1>1. ASSUME NEW o \in Orders, De!Lost(o)
      PROVE  De!Lost(o)'
  <2> DEFINE name == [order |-> o, nonce |-> De!AnyNonce]
  <2>1. name \in De!Oids /\ name.order = o
    BY NameIs
  <2>2. KnownThere(name)
    <3>1. PICK i \in De!Oids : i.order = o /\ atVenue[i] # "unknown"
      BY <1>1 DEF De!Lost, De!PlacedFor
    <3>2. i.nonce = De!AnyNonce
      BY <1>1, <3>1 DEF DemoInv, OneName, KnownThere
    <3>3. i = name
      BY <3>1, <3>2 DEF De!Oids
    <3> QED BY <3>1, <3>3 DEF KnownThere
  <2>3. (De!PlacedFor(o) # {})'
    <3>1. KnownThere(name)'
      BY <1>1, <2>1, <2>2, VenueMoves
    <3> QED BY <2>1, <3>1 DEF KnownThere, De!PlacedFor
  <2>4. request \in {"idle", "submit"} \/ asked # o
    BY <1>1 DEF De!Lost
  <2>5. request' \in {"idle", "submit"} \/ asked' # o
    <3>1. ASSUME De!Submit, ~De!Raises PROVE asked # o /\ asked' = asked
      <4>1. atVenue[oid] = "unknown" /\ request = "submit" /\ asked' = asked
        BY <3>1, Zenon DEF De!Submit
      <4>2. oid = [order |-> asked, nonce |-> De!AnyNonce]
        BY <1>1, <4>1 DEF DemoInv, InHand
      <4> QED BY <2>2, <4>1, <4>2 DEF KnownThere
    <3>2. ASSUME (De!ReadOrder \/ De!ReadFills) /\ ~De!Raises PROVE asked # o /\ asked' = asked
      <4>1. request \notin {"idle", "submit"} /\ asked' = asked
        BY <3>2, Zenon DEF De!ReadOrder, De!ReadFills
      <4> QED BY <2>4, <4>1
    <3> QED
      BY <1>1, <2>4, <3>1, <3>2
      DEF De!Next, De!Execute, De!ReadPositions, De!Raises, De!Venue, De!Operator, De!vars
  <2>6. \A n \in DOMAIN reports' : reports'[n].order # o
    <3>1. \A n \in DOMAIN reports : reports[n].order # o
      BY <1>1 DEF De!Lost
    <3>2. CASE UNCHANGED reports
      BY <3>1, <3>2
    <3>3. ASSUME De!ReadPositions, ~De!Raises PROVE \A n \in DOMAIN reports' : reports'[n].order # o
      <4> DEFINE verdict == IF protection THEN "EXECUTED_PROTECTED" ELSE "PARKED_PROTECTION_MISSING"
                 said == [order |-> asked, disposition |-> verdict]
      <4>1. request = "positions" /\ reports' = Append(reports, said)
        BY <3>3, Zenon DEF De!ReadPositions
      <4>2. asked # o
        BY <2>4, <4>1
      <4>7. PICK v : v = verdict
        BY Zenon
      <4>3. PICK r : r = said /\ r.order = asked
        <5>1. [order |-> asked, disposition |-> v].order = asked
          OBVIOUS
        <5> QED BY <4>7, <5>1, Zenon
      <4>4. reports \in Seq([order : Orders, disposition : De!Dispositions])
        BY <1>1 DEF DemoInv, De!TypeOK
      <4>5. /\ DOMAIN reports' = 1..(Len(reports) + 1) /\ DOMAIN reports = 1..Len(reports)
            /\ Len(reports) \in Nat
            /\ \A n \in DOMAIN reports : reports'[n] = reports[n]
            /\ reports'[Len(reports) + 1] = r
        <5>1. reports' = Append(reports, r)
          BY <4>1, <4>3
        <5> HIDE DEF said
        <5> QED BY <4>4, <5>1
      <4>6. \A n \in DOMAIN reports' : n \in DOMAIN reports \/ n = Len(reports) + 1
        BY <4>5
      <4> QED BY <3>1, <4>2, <4>3, <4>5, <4>6
    <3> QED
      BY <1>1, <3>2, <3>3 DEF De!Next, De!Execute, De!Submit, De!ReadOrder, De!ReadFills,
         De!ReadPositions, De!Raises, De!Venue, De!Operator, De!vars
  <2> QED BY <2>3, <2>5, <2>6 DEF De!Lost
<1> QED BY <1>1 DEF De!LostStaysLost

-----------------------------------------------------------------------------
(* The rules that size an order. *)

LEMMA RulesGiven == Ru!RulesAssumption /\ IsFiniteSet(RuleSymbols)
BY PartsAssumption

LEMMA Amounts ==
  /\ {MaxLeverage, MinNotional, MaxPositionNotional, MaxTotalNotional, AvailableEquity,
      RequestedRisk, Step, SemanticLimits.leverage} \subseteq Nat \ {0}
  /\ {MaxSpread, MaxAge, SemanticLimits.spread, SemanticLimits.age, SemanticLimits.most} \subseteq Nat
  /\ Prices \subseteq Nat \ {0} /\ None \notin Int
BY RulesGiven DEF Ru!RulesAssumption

LEMMA MinIs ==
  ASSUME NEW S, IsFiniteSet(S), S # {}, \A x \in S : x \in Int
  PROVE  Ru!Min(S) \in S /\ \A x \in S : Ru!Min(S) <= x
BY Extremes DEF Ru!Min

(* What a decision that is entered names. *)
LEMMA EntryNames ==
  ASSUME NEW d \in Ru!Decisions, Ru!Parsed(d), d.action = "ENTER"
  PROVE  /\ d.entry \in Nat \ {0} /\ d.stop \in Nat \ {0} /\ d.target \in Nat \ {0}
         /\ d.notional \in Nat \ {0} /\ d.side \in {"BUY", "SELL"} /\ d.symbol \in RuleSymbols
         /\ d.leverage \in Int
         /\ Ru!Ordered(d) => Ru!Magnitude(d.entry - d.stop) \in Nat \ {0}
<1>1. /\ d.entry \in Prices \union {None} /\ d.stop \in Prices /\ d.target \in Prices \union {None}
      /\ d.notional \in {MinNotional, MaxPositionNotional} /\ d.side \in {"BUY", "SELL", "NONE"}
      /\ d.symbol \in RuleSymbols /\ d.leverage \in Ru!AtAndAbove({MaxLeverage, SemanticLimits.leverage})
  BY DEF Ru!Decisions, Ru!Maybe
<1>2. d.side # "NONE" /\ d.entry # None /\ d.stop # None /\ d.target # None
  BY DEF Ru!Parsed
<1>3. d.entry \in Nat \ {0} /\ d.stop \in Nat \ {0} /\ d.target \in Nat \ {0}
  BY <1>1, <1>2, Amounts
<1>4. Ru!Ordered(d) => d.entry # d.stop
  BY <1>3 DEF Ru!Ordered
<1> QED BY <1>1, <1>2, <1>3, <1>4, Amounts DEF Ru!Magnitude, Ru!AtAndAbove

(* What a size may be: steps within the room, no more than the risk asks for *)
(* or the minimum.                                                           *)
LEMMA Sized ==
  ASSUME NEW d \in Ru!Decisions, Ru!Parsed(d), d.action = "ENTER", Ru!Ordered(d),
         NEW gross \in Int, NEW q, q = Ru!SizeForRisk(d, gross), q # None
  PROVE  /\ q \in Nat \ {0} /\ q % Step = 0
         /\ q * d.entry >= MinNotional
         /\ q * d.entry <= MaxPositionNotional /\ q * d.entry <= d.notional
         /\ q * d.entry <= AvailableEquity /\ q * d.entry <= MaxTotalNotional - gross
         /\ \/ q * Ru!Magnitude(d.entry - d.stop) <= RequestedRisk
            \/ q * d.entry <= MinNotional
<1>1. PICK price \in Nat \ {0} : price = d.entry
  BY EntryNames
<1>2. PICK away \in Nat \ {0} : away = Ru!Magnitude(d.entry - d.stop)
  BY EntryNames
<1>3. PICK room \in Int : /\ room = Ru!Room(d, gross)
                          /\ room <= MaxPositionNotional /\ room <= d.notional
                          /\ room <= MaxTotalNotional - gross /\ room <= AvailableEquity
  <2> DEFINE S == {MaxPositionNotional, d.notional, MaxTotalNotional - gross, AvailableEquity}
  <2>1. \A x \in S : x \in Int
    BY EntryNames, Amounts
  <2>2. IsFiniteSet(S) /\ S # {}
    <3>1. IsFiniteSet({MaxPositionNotional})
      BY FS_Singleton
    <3>2. IsFiniteSet({MaxPositionNotional} \union {d.notional})
      BY <3>1, FS_AddElement
    <3>3. IsFiniteSet({MaxPositionNotional} \union {d.notional} \union {MaxTotalNotional - gross})
      BY <3>2, FS_AddElement
    <3>4. IsFiniteSet({MaxPositionNotional} \union {d.notional} \union {MaxTotalNotional - gross}
                        \union {AvailableEquity})
      BY <3>3, FS_AddElement
    <3>5. S = {MaxPositionNotional} \union {d.notional} \union {MaxTotalNotional - gross}
                \union {AvailableEquity}
      OBVIOUS
    <3> QED BY <3>4, <3>5, Zenon
  <2>3. Ru!Min(S) \in S /\ \A x \in S : Ru!Min(S) <= x
    <3> HIDE DEF S
    <3> QED BY <2>1, <2>2, MinIs
  <2> QED BY <2>1, <2>3 DEF Ru!Room
<1>4. Step \in Nat \ {0} /\ RequestedRisk \in Nat /\ MinNotional \in Nat
  BY Amounts
<1>5. ASSUME NEW amount \in Int, NEW unit \in Nat \ {0}
      PROVE  \E k \in Int : /\ (amount \div (unit * Step)) * Step = k * Step
                            /\ k * Step * unit <= amount
  <2>1. unit * Step \in Nat \ {0}
    BY <1>4
  <2>2. PICK k \in Int : k = amount \div (unit * Step) /\ k * (unit * Step) <= amount
    BY <2>1, DivIs
  <2>3. k * (unit * Step) = k * Step * unit
    BY <1>4
  <2> QED BY <2>2, <2>3
<1>6. PICK risky \in Int : /\ (RequestedRisk \div (away * Step)) * Step = risky * Step
                           /\ risky * Step * away <= RequestedRisk
  <2>1. RequestedRisk \in Int
    BY <1>4
  <2> QED BY <1>5, <2>1, Zenon
<1>7. PICK least \in Int : /\ Ru!Floored(MinNotional, price) = least * Step
                           /\ least * Step * price <= MinNotional
  <2>1. MinNotional \in Int
    BY <1>4
  <2> QED BY <1>5, <2>1, Zenon DEF Ru!Floored
<1>8. PICK most \in Int : /\ Ru!Floored(room, price) = most * Step
                          /\ most * Step * price <= room
  BY <1>5 DEF Ru!Floored
<1>9. /\ q = Ru!Lesser(Ru!Greater(risky * Step, least * Step), most * Step)
      /\ q > 0 /\ q * price >= MinNotional
  <2>1. PICK n : n = Ru!Lesser(Ru!Greater(risky * Step, least * Step), most * Step)
    OBVIOUS
  <2>2. n \in Int
    BY <1>4, <2>1 DEF Ru!Lesser, Ru!Greater
  <2>3. Ru!SizeForRisk(d, gross) =
          IF \/ Ru!Lesser(MaxPositionNotional, d.notional) < MinNotional
             \/ room <= 0 \/ n <= 0 \/ n * price < MinNotional
          THEN None ELSE n
    BY <1>1, <1>2, <1>3, <1>6, <1>7, <1>8, <2>1, Zenon DEF Ru!SizeForRisk
  <2>4. q = n /\ ~(n <= 0) /\ ~(n * price < MinNotional)
    BY <2>3, Zenon
  <2>5. n * price \in Int
    BY <2>2
  <2> QED BY <1>4, <2>1, <2>2, <2>4, <2>5
<1>10. PICK k \in {risky, least, most} : q = k * Step
  BY <1>9 DEF Ru!Lesser, Ru!Greater
<1>11. q \in Nat \ {0} /\ q % Step = 0
  <2>1. (k * Step) % Step = 0
    BY <1>4, <1>6, <1>7, <1>8, Z3
  <2> QED BY <1>4, <1>6, <1>7, <1>8, <1>9, <1>10, <2>1
<1>12. q * price <= room
  <2>1. q <= most * Step /\ most * Step \in Int
    BY <1>4, <1>9 DEF Ru!Lesser, Ru!Greater
  <2>2. q * price <= most * Step * price
    BY <1>11, <2>1
  <2> QED BY <1>4, <1>8, <1>11, <2>2
<1>13. q * away <= RequestedRisk \/ q * price <= MinNotional
  <2>1. CASE q <= risky * Step
    <3>1. q * away <= risky * Step * away
      BY <1>4, <1>11, <2>1
    <3> QED BY <1>4, <1>6, <1>11, <3>1
  <2>2. CASE q <= least * Step
    <3>1. q * price <= least * Step * price
      BY <1>4, <1>11, <2>2
    <3> QED BY <1>4, <1>7, <1>11, <3>1
  <2>3. risky * Step \in Int /\ least * Step \in Int /\ most * Step \in Int
    BY <1>4
  <2> QED BY <1>9, <2>1, <2>2, <2>3 DEF Ru!Lesser, Ru!Greater
<1>14. q * price \in Int
  BY <1>11
<1> QED BY <1>1, <1>2, <1>3, <1>9, <1>11, <1>12, <1>13, <1>14, EntryNames, Amounts

LEMMA GrossIs == Ru!Gross = Sum(value, RuleSymbols)
BY Zenon DEF Ru!Gross, Ru!MapThenSumSet, Ru!MapThenFoldSet, Sum, MapThenSumSet, MapThenFoldSet

LEMMA GrossInt ==
  ASSUME Ru!TypeOK
  PROVE  Ru!Gross \in Int
<1>1. value \in [RuleSymbols -> Int] /\ RuleSymbols \in SUBSET RuleSymbols
  BY DEF Ru!TypeOK
<1> QED BY <1>1, SumRules, GrossIs, RulesGiven

(* A part of a value, taken out of it. *)
LEMMA PartOf ==
  ASSUME NEW v \in Nat \ {0}, NEW a \in Nat \ {0}, NEW b \in Nat \ {0}, a <= b
  PROVE  /\ (v * a) \div b \in 0..v
         /\ (v * a) \div b = v <=> a = b
<1>1. PICK k \in Int : k = (v * a) \div b /\ k * b <= v * a /\ v * a < k * b + b
  BY DivIs
<1>2. v * a <= v * b /\ 0 < v * a
  OBVIOUS
<1>3. k <= v /\ k >= 0
  <2>1. ASSUME k >= v + 1 PROVE FALSE
    <3>1. k * b >= (v + 1) * b
      BY <1>1, <2>1
    <3> QED BY <1>1, <1>2, <3>1
  <2>2. ASSUME k <= -1 PROVE FALSE
    <3>1. k * b <= (-1) * b
      BY <1>1, <2>2
    <3> QED BY <1>1, <1>2, <3>1
  <2> QED BY <1>1, <2>1, <2>2
<1>4. a = b => k = v
  <2>1. ASSUME a = b, k <= v - 1 PROVE FALSE
    <3>1. k * b <= (v - 1) * b
      BY <1>1, <2>1
    <3> QED BY <1>1, <2>1, <3>1
  <2> QED BY <1>1, <1>3, <2>1
<1>5. k = v => a = b
  <2>1. ASSUME k = v, a <= b - 1 PROVE FALSE
    <3>1. v * a <= v * (b - 1) /\ v * (b - 1) < v * b
      BY <2>1
    <3> QED BY <1>1, <2>1, <3>1
  <2> QED BY <2>1
<1> QED BY <1>1, <1>3, <1>4, <1>5

(* The book with one position's size and value replaced. *)
LEMMA GrossMoves ==
  ASSUME Ru!TypeOK, NEW s \in RuleSymbols, NEW v \in Nat, value' = [value EXCEPT ![s] = v]
  PROVE  Ru!Gross' = Ru!Gross - value[s] + v
<1>1. Sum([value EXCEPT ![s] = v], RuleSymbols) = Sum(value, RuleSymbols) - value[s] + v
  <2>1. value \in [RuleSymbols -> Int] /\ v \in Int
    BY DEF Ru!TypeOK
  <2>2. \A w \in [RuleSymbols -> Int], x \in RuleSymbols, n_2 \in Int :
          Sum([w EXCEPT ![x] = n_2], RuleSymbols) = Sum(w, RuleSymbols) - w[x] + n_2
    BY SumChange, RulesGiven, ZenonT(40)
  <2> QED BY <2>1, <2>2, Zenon
<1>2. Ru!Gross' = Sum(value', RuleSymbols)
  BY Zenon DEF Ru!Gross, Ru!MapThenSumSet, Ru!MapThenFoldSet, Sum, MapThenSumSet, MapThenFoldSet
<1> QED BY <1>1, <1>2, GrossIs

LEMMA LeaveStep ==
  ASSUME Ru!TypeOK, Ru!GrossStaysBounded, NEW s \in RuleSymbols, Ru!Leave(s)
  PROVE  Ru!TypeOK' /\ Ru!GrossStaysBounded'
<1>1. /\ size' = [size EXCEPT ![s] = 0] /\ value' = [value EXCEPT ![s] = 0]
      /\ excess' = excess
  BY DEF Ru!Leave
<1>2. Ru!TypeOK'
  BY <1>1 DEF Ru!TypeOK
<1>3. Ru!Gross' = Ru!Gross - value[s] + 0
  BY <1>1, GrossMoves
<1>4. Ru!Gross \in Int /\ value[s] \in Nat /\ MaxTotalNotional \in Int /\ excess \in Int
  BY GrossInt, Amounts DEF Ru!TypeOK
<1> QED BY <1>1, <1>2, <1>3, <1>4 DEF Ru!GrossStaysBounded

LEMMA DecideStep ==
  ASSUME Ru!TypeOK, NEW d \in Ru!Entries, NEW m \in Ru!Markets, Ru!Decide(d, m)
  PROVE  Ru!TypeOK' /\ Ru!GrossStaysBounded'
<1>1. d \in Ru!Decisions
  BY DEF Ru!Entries
<1>2. PICK s \in RuleSymbols : s = d.symbol
  BY <1>1 DEF Ru!Decisions
<1>3. Ru!Parsed(d) /\ d.action = "ENTER" /\ Ru!EngineRejects(d, m, FALSE) = {}
  BY <1>1 DEF Ru!Decide
<1>4. Ru!Ordered(d)
  <2>1. ~Ru!Ordered(d) => "LEVELS_INVALID" \in Ru!EngineRejects(d, m, FALSE)
    BY <1>3 DEF Ru!EngineRejects
  <2> QED BY <1>3, <2>1
<1>5. PICK n : n = Ru!SizeForRisk(d, Ru!Gross)
  OBVIOUS
<1>6. PICK entry \in Nat \ {0} : entry = d.entry
  BY <1>1, <1>3, EntryNames
<1>7. n \in Nat \ {0} /\ n * entry <= MaxTotalNotional - Ru!Gross
  BY <1>1, <1>3, <1>4, <1>5, <1>6, Sized, GrossInt DEF Ru!Decide
<1>18. PICK price \in Prices : /\ Ru!Filled(s, Ru!Sign(d.side) * n, price)
                              /\ excess' = n * (price - entry)
  BY <1>2, <1>5, <1>6, Zenon DEF Ru!Decide
<1>19. PICK p \in Nat \ {0} : p = price
  BY Amounts
<1>8. PICK q \in {n, -n} : Ru!Filled(s, q, p)
  <2>1. Ru!Filled(s, Ru!Sign(d.side) * n, p)
    BY <1>18, <1>19
  <2>2. Ru!Sign(d.side) * n \in {n, -n}
    BY <1>7 DEF Ru!Sign
  <2> QED BY <2>1, <2>2
<1>9. Ru!Magnitude(q) = n /\ q \in Int /\ q # 0
  BY <1>7, <1>8 DEF Ru!Magnitude
<1>10. PICK now, v : now = size'[s] /\ v = value'[s]
  OBVIOUS
<1>11. /\ size' = [size EXCEPT ![s] = now] /\ value' = [value EXCEPT ![s] = v]
       /\ now = size[s] + q
       /\ v = IF size[s] = 0 \/ (size[s] > 0) = (q > 0) THEN value[s] + n * p
              ELSE IF n <= Ru!Magnitude(size[s])
                   THEN value[s] - (value[s] * n) \div Ru!Magnitude(size[s])
                   ELSE Ru!Magnitude(now) * p
  BY <1>8, <1>9, <1>10 DEF Ru!Filled, Ru!TypeOK
<1>12. PICK before \in Int, worth \in Nat :
         before = size[s] /\ worth = value[s] /\ (before = 0 <=> worth = 0)
  BY DEF Ru!TypeOK
<1>13. now \in Int /\ v \in Nat /\ (now = 0 <=> v = 0) /\ v <= worth + n * p
  <2>0. n * p \in Nat \ {0}
    BY <1>7
  <2>1. CASE before = 0 \/ (before > 0) = (q > 0)
    <3>1. v = worth + n * p /\ now = before + q
      BY <1>11, <1>12, <2>1
    <3> QED BY <1>9, <1>12, <2>0, <2>1, <3>1
  <2>2. CASE before # 0 /\ (before > 0) # (q > 0) /\ n <= Ru!Magnitude(before)
    <3>1. PICK b \in Nat \ {0} : b = Ru!Magnitude(before)
      BY <1>12, <2>2 DEF Ru!Magnitude
    <3>2. v = worth - (worth * n) \div b /\ now = before + q
      BY <1>11, <1>12, <2>2, <3>1
    <3>3. worth \in Nat \ {0} /\ n <= b
      BY <1>12, <2>2, <3>1
    <3>4. (worth * n) \div b \in 0..worth /\ ((worth * n) \div b = worth <=> n = b)
      <4>2. PICK a \in Nat \ {0} : a = n
        BY <1>7
      <4>3. PICK w \in Nat \ {0} : w = worth
        BY <3>3
      <4>4. PICK c \in Nat \ {0} : c = b
        BY <3>1
      <4>5. a <= c
        BY <3>3, <4>2, <4>4
      <4>6. (w * a) \div c \in 0..w /\ ((w * a) \div c = w <=> a = c)
        BY <4>5, PartOf, Zenon
      <4> QED BY <4>2, <4>3, <4>4, <4>6, Zenon
    <3>5. now = 0 <=> n = b
      <4>1. (q > 0 /\ q = n) \/ (q < 0 /\ q = -n)
        BY <1>7, <1>8
      <4>2. (before > 0 /\ b = before) \/ (before < 0 /\ b = -before)
        BY <1>12, <2>2, <3>1 DEF Ru!Magnitude
      <4>3. now = before + q
        BY <3>2
      <4>4. CASE before > 0 /\ b = before
        <5>1. q = -n
          BY <1>7, <1>9, <2>2, <4>1, <4>4
        <5> QED BY <1>7, <4>3, <4>4, <5>1
      <4>5. CASE before < 0 /\ b = -before
        <5>1. q = n
          BY <1>7, <1>9, <2>2, <4>1, <4>5
        <5> QED BY <1>7, <4>3, <4>5, <5>1
      <4> QED BY <4>2, <4>4, <4>5
    <3>6. PICK k \in 0..worth : k = (worth * n) \div b
      BY <3>4
    <3> QED BY <1>9, <1>12, <2>0, <3>2, <3>4, <3>5, <3>6
  <2>3. CASE before # 0 /\ (before > 0) # (q > 0) /\ ~(n <= Ru!Magnitude(before))
    <3>1. v = Ru!Magnitude(now) * p /\ now = before + q
      BY <1>11, <1>12, <2>3
    <3>2. Ru!Magnitude(now) \in Nat \ {0} /\ Ru!Magnitude(now) <= n /\ now # 0 /\ now \in Int
      BY <1>7, <1>8, <1>12, <2>3, <3>1 DEF Ru!Magnitude
    <3>3. PICK k \in Nat \ {0} : k = Ru!Magnitude(now) /\ k <= n
      BY <3>2
    <3>4. k * p \in Nat \ {0} /\ k * p <= n * p
      BY <1>7, <3>3
    <3> QED BY <1>12, <2>0, <3>1, <3>2, <3>3, <3>4
  <2> QED BY <2>1, <2>2, <2>3
<1>20. PICK more \in Int : more = excess' /\ n * p = n * entry + more
  BY <1>6, <1>7, <1>18, <1>19
<1>14. Ru!TypeOK'
  BY <1>11, <1>13, <1>20 DEF Ru!TypeOK
<1>15. Ru!Gross' = Ru!Gross - worth + v
  BY <1>11, <1>12, <1>13, GrossMoves
<1>16. Ru!Gross \in Int /\ n * p \in Int /\ n * entry \in Int /\ MaxTotalNotional \in Int
  BY <1>6, <1>7, GrossInt, Amounts
<1>17. Ru!GrossStaysBounded'
  <2>1. PICK g \in Int, x \in Int, y \in Int, most \in Int :
          g = Ru!Gross /\ x = n * p /\ y = n * entry /\ most = MaxTotalNotional
    BY <1>16
  <2>2. y <= most - g /\ x = y + more /\ v <= worth + x
    BY <1>7, <1>13, <1>20, <2>1
  <2>3. g - worth + v <= most + more
    BY <1>12, <1>13, <2>1, <2>2
  <2>4. Ru!Gross' = g - worth + v /\ excess' = more
    BY <1>15, <1>20, <2>1
  <2> QED BY <2>1, <2>3, <2>4 DEF Ru!GrossStaysBounded
<1> QED BY <1>14, <1>17

LEMMA BookStep ==
  ASSUME Ru!TypeOK, Ru!GrossStaysBounded, Ru!Next
  PROVE  Ru!TypeOK' /\ Ru!GrossStaysBounded'
BY DecideStep, LeaveStep DEF Ru!Next

(* An entry that the semantic gate lets pass has, of validate_decision's     *)
(* codes, only those whose limit is narrower there.                          *)
LEMMA SemanticStep == Ru!GatesDifferInLimits
<1> SUFFICES ASSUME NEW d \in Ru!Entries, NEW m \in Ru!Markets, NEW open \in SUBSET RuleSymbols,
                    Ru!SemanticRejects(d, m, {}, open) = {},
                    NEW c \in Ru!EngineRejects(d, m, FALSE)
             PROVE  c \in Ru!WiderLimits
  BY DEF Ru!GatesDifferInLimits
<1>1. d \in Ru!Decisions /\ Ru!Parsed(d) /\ d.action = "ENTER"
  BY DEF Ru!Entries
<1>2. d.side # "NONE" /\ None \notin Ru!Levels(d)
  BY <1>1 DEF Ru!Parsed, Ru!Levels
<1>3. /\ d.symbol \in SemanticLimits.symbols /\ m.symbol = d.symbol
      /\ ~(m.age > SemanticLimits.age) /\ ~(m.spread > SemanticLimits.spread)
      /\ ~(d.leverage > SemanticLimits.leverage) /\ ~(d.notional > SemanticLimits.most)
      /\ Ru!Ordered(d)
  BY <1>1, <1>2 DEF Ru!SemanticRejects
<1>4. m.age \in Int /\ m.spread \in Int /\ d.leverage \in Int /\ d.notional \in Int
  <2>1. m.age \in Int /\ m.spread \in Int
    BY Amounts DEF Ru!Markets, Ru!AtAndAbove
  <2> QED BY <1>1, <2>1, EntryNames
<1>5. /\ c \in {"SYMBOL_NOT_ALLOWED", "STALE_MARKET_DATA", "SPREAD_TOO_WIDE", "LEVERAGE_LIMIT",
               "NOTIONAL_LIMIT"}
      /\ c = "SYMBOL_NOT_ALLOWED" => d.symbol \notin AllowSymbols
      /\ c = "STALE_MARKET_DATA" => m.age > MaxAge
      /\ c = "SPREAD_TOO_WIDE" => m.spread > MaxSpread
      /\ c = "LEVERAGE_LIMIT" => d.leverage > MaxLeverage
      /\ c = "NOTIONAL_LIMIT" => d.notional > MaxPositionNotional
  BY <1>1, <1>2, <1>3 DEF Ru!EngineRejects
<1>6. /\ SemanticLimits.age \in Int /\ SemanticLimits.spread \in Int /\ SemanticLimits.leverage \in Int
      /\ SemanticLimits.most \in Int
      /\ MaxAge \in Int /\ MaxSpread \in Int /\ MaxLeverage \in Int /\ MaxPositionNotional \in Int
  BY Amounts
<1>7. /\ c = "SYMBOL_NOT_ALLOWED" => ~(SemanticLimits.symbols \subseteq AllowSymbols)
      /\ c = "STALE_MARKET_DATA" => SemanticLimits.age > MaxAge
      /\ c = "SPREAD_TOO_WIDE" => SemanticLimits.spread > MaxSpread
      /\ c = "LEVERAGE_LIMIT" => SemanticLimits.leverage > MaxLeverage
      /\ c = "NOTIONAL_LIMIT" => SemanticLimits.most > MaxPositionNotional
  BY <1>3, <1>4, <1>5, <1>6
<1> QED BY <1>5, <1>7, Zenon DEF Ru!WiderLimits

LEMMA RiskStep ==
  ASSUME Ru!TypeOK
  PROVE  Ru!SizedRiskIsBounded
<1> SUFFICES ASSUME NEW d \in Ru!Entries, NEW q, q = Ru!SizeForRisk(d, Ru!Gross),
                    Ru!Ordered(d), q # None
             PROVE  /\ q % Step = 0
                    /\ q * d.entry >= MinNotional
                    /\ q * d.entry <= Ru!Min({MaxPositionNotional, d.notional, AvailableEquity})
                    /\ \/ q * Ru!Magnitude(d.entry - d.stop) <= RequestedRisk
                       \/ q * d.entry <= MinNotional
  BY DEF Ru!SizedRiskIsBounded
<1>1. d \in Ru!Decisions /\ Ru!Parsed(d) /\ d.action = "ENTER"
  BY DEF Ru!Entries
<1>2. /\ q % Step = 0
      /\ q * d.entry >= MinNotional
      /\ q * d.entry <= MaxPositionNotional /\ q * d.entry <= d.notional
      /\ q * d.entry <= AvailableEquity
      /\ \/ q * Ru!Magnitude(d.entry - d.stop) <= RequestedRisk
         \/ q * d.entry <= MinNotional
  BY <1>1, Sized, GrossInt
<1>3. Ru!Min({MaxPositionNotional, d.notional, AvailableEquity})
        \in {MaxPositionNotional, d.notional, AvailableEquity}
  <2> DEFINE S == {MaxPositionNotional, d.notional, AvailableEquity}
  <2>1. (\A x \in S : x \in Int) /\ S # {}
    BY <1>1, EntryNames, Amounts
  <2>2. IsFiniteSet(S)
    <3>1. IsFiniteSet({MaxPositionNotional})
      BY FS_Singleton
    <3>2. IsFiniteSet({MaxPositionNotional} \union {d.notional})
      BY <3>1, FS_AddElement
    <3>3. IsFiniteSet({MaxPositionNotional} \union {d.notional} \union {AvailableEquity})
      BY <3>2, FS_AddElement
    <3>4. S = {MaxPositionNotional} \union {d.notional} \union {AvailableEquity}
      OBVIOUS
    <3> QED BY <3>3, <3>4, Zenon
  <2> HIDE DEF S
  <2> QED BY <2>1, <2>2, MinIs, Zenon DEF S
<1> QED BY <1>2, <1>3

RulesInv == Ru!TypeOK /\ Ru!GrossStaysBounded
LEMMA RulesInit == Ru!Init => RulesInv
<1> SUFFICES ASSUME Ru!Init PROVE RulesInv
  OBVIOUS
<1>1. Ru!TypeOK
  BY DEF Ru!Init, Ru!TypeOK
<1>2. \A s \in RuleSymbols : value[s] = 0
  BY DEF Ru!Init
<1>3. value \in [RuleSymbols -> Int]
  BY <1>1 DEF Ru!TypeOK
<1> DEFINE Good == {T \in SUBSET RuleSymbols : Sum(value, T) = 0}
<1>4. ASSUME NEW T \in SUBSET RuleSymbols, T # {}, \A x \in T : T \ {x} \in Good PROVE T \in Good
  <2>1. PICK x \in T : TRUE
    BY <1>4
  <2>2. Sum(value, T) = value[x] + Sum(value, T \ {x})
    BY <1>3, SumRules, RulesGiven
  <2> QED BY <1>2, <1>4, <2>2
<1>5. {} \in Good
  BY <1>3, SumRules, RulesGiven
<1>6. SUBSET RuleSymbols \subseteq Good
  <2> HIDE DEF Good
  <2> QED BY <1>4, <1>5, SetInduction, RulesGiven
<1>7. excess = 0
  BY DEF Ru!Init
<1> QED BY <1>1, <1>6, <1>7, GrossIs, Amounts DEF RulesInv, Ru!GrossStaysBounded

-----------------------------------------------------------------------------
(* The ledger: what is logged and kept, and that an event has at most one    *)
(* row, in the table it says.                                                *)
LoggedEvents ==
  [payload : Payloads, cycle : Cycles, run : LedgerRuns, projected : Tables \union {None}]
KeptRows ==
  [key : Keys, status : {"OPEN", "CLOSED", None}, run : LedgerRuns, event : Nat]

LedgerTypes ==
  /\ run \in LedgerRuns
  /\ cycles \in [Cycles -> {"absent", "claimed"} \union Le!Statuses]
  /\ events \in Seq(LoggedEvents)
  /\ rows \in [Tables -> Seq(KeptRows)]

RowsHaveEvents ==
  \A t \in Tables : \A k \in 1..Len(rows[t]) :
    /\ rows[t][k].event <= Len(events)
    /\ rows[t][k].event # 0 => events[rows[t][k].event].projected = t

RowOf(i, t, k) == \A j \in 1..Len(rows[t]) : rows[t][j].event = i <=> j = k

EventsHaveRows ==
  \A i \in 1..Len(events) : \A t \in Tables :
    events[i].projected = t /\ t # None => \E k \in 1..Len(rows[t]) : RowOf(i, t, k)

LedgerInv == LedgerTypes /\ RowsHaveEvents /\ EventsHaveRows

(* The types, one row at a time. *)
LEMMA RowsTyped ==
  ASSUME LedgerTypes
  PROVE  /\ Len(events) \in Nat /\ DOMAIN events = 1..Len(events)
         /\ \A i \in 1..Len(events) : events[i] \in LoggedEvents
         /\ \A t \in Tables : /\ rows[t] \in Seq(KeptRows) /\ Len(rows[t]) \in Nat
                             /\ DOMAIN rows[t] = 1..Len(rows[t])
                             /\ \A k \in 1..Len(rows[t]) :
                                  rows[t][k] \in KeptRows /\ rows[t][k].event \in Nat
<1>1. \A q \in Seq(KeptRows) : Len(q) \in Nat /\ DOMAIN q = 1..Len(q) /\ \A k \in 1..Len(q) : q[k] \in KeptRows
  OBVIOUS
<1>2. \A r \in KeptRows : r.event \in Nat
  BY DEF KeptRows
<1>3. \A t \in Tables : rows[t] \in Seq(KeptRows)
  BY DEF LedgerTypes
<1>4. /\ Len(events) \in Nat /\ DOMAIN events = 1..Len(events)
      /\ \A i \in 1..Len(events) : events[i] \in LoggedEvents
  BY DEF LedgerTypes
<1> QED BY <1>1, <1>2, <1>3, <1>4

LEMMA LedgerInit == Le!Init => LedgerInv
<1> SUFFICES ASSUME Le!Init PROVE LedgerInv
  OBVIOUS
<1>1. LedgerTypes
  <2>1. \A X : <<>> \in Seq(X)
    OBVIOUS
  <2> QED BY <2>1 DEF Le!Init, LedgerTypes
<1>2. Len(events) = 0 /\ \A t \in Tables : Len(rows[t]) = 0
  BY DEF Le!Init
<1>3. RowsHaveEvents /\ EventsHaveRows
  BY <1>2 DEF RowsHaveEvents, EventsHaveRows
<1> QED BY <1>1, <1>3 DEF LedgerInv

(* What a step writes. *)
NewEvent(e) == events' = Append(events, e)
NewRow(t, r) == rows' = [rows EXCEPT ![t] = Append(@, r)]

LEMMA LedgerMoves ==
  ASSUME LedgerInv, [Le!Next]_(Le!vars)
  PROVE  \/ /\ UNCHANGED <<events, rows>> /\ run' \in LedgerRuns
            /\ \/ cycles' = cycles
               \/ \E c \in Cycles : /\ cycles[c] = "absent"
                                    /\ cycles' = [cycles EXCEPT ![c] = "claimed"]
               \/ \E c \in Cycles, s \in Le!Statuses :
                    cycles[c] # "absent" /\ cycles' = [cycles EXCEPT ![c] = s]
         \/ /\ UNCHANGED <<run, cycles, rows>>
            /\ \E e \in LoggedEvents : e.projected = None /\ NewEvent(e)
         \/ /\ UNCHANGED <<run, cycles>>
            /\ \E t \in Tables, e \in LoggedEvents, r \in KeptRows :
                 /\ e.projected = t /\ r.event = Len(events) + 1
                 /\ NewEvent(e) /\ NewRow(t, r)
         \/ /\ UNCHANGED <<run, cycles, events>>
            /\ \E t \in Tables, r \in KeptRows : r.event = 0 /\ NewRow(t, r)
         \/ Le!Reset
<1> USE DEF LedgerInv, LedgerTypes
<1>1. ASSUME NEW v, v.payload \in Payloads, v.cycle \in Cycles,
             NEW t \in Tables \union {None}
      PROVE  Le!Logged(v, t) \in LoggedEvents /\ Le!Logged(v, t).projected = t
  BY <1>1 DEF Le!Logged, LoggedEvents
<1>2. ASSUME NEW t \in Tables, NEW key \in Keys, NEW kept \in Le!RowStatuses(t), NEW n \in Nat
      PROVE  Le!Row(key, kept, n) \in KeptRows /\ Le!Row(key, kept, n).event = n
  <2>1. kept \in {"OPEN", "CLOSED", None}
    BY <1>2 DEF Le!RowStatuses
  <2> QED BY <2>1 DEF Le!Row, KeptRows
<1>3. Len(events) + 1 \in Nat /\ 0 \in Nat
  OBVIOUS
<1>4. CASE \E c \in Cycles : Le!ClaimCycle(c)
  BY <1>4 DEF Le!ClaimCycle
<1>5. CASE \E c \in Cycles, s \in Le!Statuses : Le!SetTerminal(c, s)
  BY <1>5 DEF Le!SetTerminal
<1>6. ASSUME NEW p \in Payloads, NEW c \in Cycles, NEW named, NEW digest, NEW v,
             v = Le!Value(p, c, named, digest) \/ v = Le!Legacy(Le!Value(p, c, named, digest)),
             Le!AppendEvent(v)
      PROVE  /\ UNCHANGED <<run, cycles, rows>>
             /\ \E e \in LoggedEvents : e.projected = None /\ NewEvent(e)
  <2>1. v.payload \in Payloads /\ v.cycle \in Cycles
    <3>1. CASE v = Le!Value(p, c, named, digest)
      BY <3>1 DEF Le!Value
    <3>2. CASE v = Le!Legacy(Le!Value(p, c, named, digest))
      <4>1. PICK w : w = Le!Value(p, c, named, digest)
        OBVIOUS
      <4>2. w = [payload |-> p, cycle |-> c, named |-> named, digest |-> digest]
        BY <4>1 DEF Le!Value
      <4>3. v = [w EXCEPT !.named = Le!Identity \union {"created_ms"}, !.digest = "matches"]
        BY <3>2, <4>1 DEF Le!Legacy
      <4>4. v.payload = p /\ v.cycle = c
        BY <4>2, <4>3
      <4> QED BY <4>4
    <3> QED BY <1>6, <3>1, <3>2
  <2> QED BY <1>1, <1>6, <2>1 DEF Le!AppendEvent, NewEvent
<1>7. ASSUME NEW p \in Payloads, NEW c \in Cycles, NEW named, NEW digest,
             NEW t \in Tables, NEW key \in Keys, NEW fails \in BOOLEAN,
             NEW kept \in Le!RowStatuses(t),
             Le!AppendEventWithProjection(Le!Value(p, c, named, digest), t, key, kept, fails)
      PROVE  /\ UNCHANGED <<run, cycles>>
             /\ \E u \in Tables, e \in LoggedEvents, r \in KeptRows :
                  /\ e.projected = u /\ r.event = Len(events) + 1
                  /\ NewEvent(e) /\ NewRow(u, r)
  <2>1. PICK v : v = Le!Value(p, c, named, digest)
    OBVIOUS
  <2>2. v.payload \in Payloads /\ v.cycle \in Cycles
    BY <2>1 DEF Le!Value
  <2>3. PICK e \in LoggedEvents : e = Le!Logged(v, t) /\ e.projected = t
    BY <1>1, <2>2
  <2>4. PICK r \in KeptRows : r = Le!Row(key, kept, Len(events) + 1) /\ r.event = Len(events) + 1
    BY <1>2, <1>3
  <2>5. NewEvent(e) /\ NewRow(t, r) /\ UNCHANGED <<run, cycles>>
    BY <1>7, <2>1, <2>3, <2>4 DEF Le!AppendEventWithProjection, NewEvent, NewRow
  <2> QED BY <2>3, <2>4, <2>5
<1>8. ASSUME NEW v, NEW t \in Tables, NEW key \in Keys, NEW kept \in Le!RowStatuses(t),
             Le!Record(v, t, key, kept)
      PROVE  /\ UNCHANGED <<run, cycles, events>>
             /\ \E u \in Tables, r \in KeptRows : r.event = 0 /\ NewRow(u, r)
  <2>1. PICK r \in KeptRows : r = Le!Row(key, kept, 0) /\ r.event = 0
    BY <1>2, <1>3
  <2> QED BY <1>8, <2>1 DEF Le!Record, NewRow
<1>9. CASE \E r \in LedgerRuns : Le!Reopen(r)
  BY <1>9 DEF Le!Reopen
<1>10. CASE UNCHANGED Le!vars
  BY <1>10 DEF Le!vars
<1> HIDE DEF LedgerInv, LedgerTypes
<1> QED BY <1>4, <1>5, <1>6, <1>7, <1>8, <1>9, <1>10 DEF Le!Next, Le!AppendLegacy

LEMMA LedgerStep == ASSUME LedgerInv, [Le!Next]_(Le!vars) PROVE LedgerInv'
<1> USE DEF LedgerInv, LedgerTypes
<1>0. /\ Len(events) \in Nat
      /\ \A t \in Tables : /\ rows[t] \in Seq(KeptRows) /\ Len(rows[t]) \in Nat
                          /\ \A k \in 1..Len(rows[t]) : rows[t][k].event \in Nat
  BY RowsTyped
<1>1. CASE UNCHANGED <<events, rows>> /\ run' \in LedgerRuns
           /\ \/ cycles' = cycles
              \/ \E c \in Cycles : cycles' = [cycles EXCEPT ![c] = "claimed"]
              \/ \E c \in Cycles, s \in Le!Statuses : cycles' = [cycles EXCEPT ![c] = s]
  BY <1>1 DEF RowsHaveEvents, EventsHaveRows, RowOf
<1>2. ASSUME NEW e \in LoggedEvents, NewEvent(e), e.projected = None, UNCHANGED <<run, cycles, rows>>
      PROVE  LedgerInv'
  <2>1. /\ events' \in Seq(LoggedEvents) /\ Len(events') = Len(events) + 1
        /\ events'[Len(events) + 1] = e /\ \A i \in 1..Len(events) : events'[i] = events[i]
    BY <1>2 DEF NewEvent
  <2>2. RowsHaveEvents'
    <3>1. ASSUME NEW t \in Tables, NEW k \in 1..Len(rows[t]), NEW m, m = rows[t][k].event
          PROVE  m <= Len(events') /\ (m # 0 => events'[m].projected = t)
      <4>1. m \in Nat /\ m <= Len(events) /\ (m # 0 => events[m].projected = t)
        BY <1>0, <3>1 DEF RowsHaveEvents
      <4>2. PICK n \in Nat : n = Len(events)
        BY <1>0
      <4>3. m # 0 => m \in 1..n
        BY <4>1, <4>2
      <4>4. m # 0 => events'[m] = events[m]
        BY <2>1, <4>2, <4>3
      <4>5. m <= n + 1
        BY <4>1, <4>2
      <4> QED BY <2>1, <4>1, <4>2, <4>4, <4>5
    <3> QED BY <1>2, <3>1 DEF RowsHaveEvents
  <2>3. EventsHaveRows'
    <3>1. ASSUME NEW i \in 1..Len(events'), NEW t \in Tables, events'[i].projected = t, t # None
          PROVE  \E k \in 1..Len(rows'[t]) : RowOf(i, t, k)'
      <4>1. i \in 1..Len(events) /\ events[i].projected = t
        BY <1>0, <1>2, <2>1, <3>1
      <4>2. PICK k \in 1..Len(rows[t]) : RowOf(i, t, k)
        BY <3>1, <4>1 DEF EventsHaveRows
      <4>3. RowOf(i, t, k)'
        BY <1>2, <4>2 DEF RowOf
      <4> QED BY <1>2, <4>2, <4>3
    <3> QED BY <3>1, Zenon DEF EventsHaveRows
  <2> QED BY <1>2, <2>1, <2>2, <2>3
<1>3. ASSUME NEW t \in Tables, NEW r \in KeptRows, NewRow(t, r)
      PROVE  /\ rows' \in [Tables -> Seq(KeptRows)]
             /\ \A u \in Tables \ {t} : rows'[u] = rows[u]
             /\ Len(rows'[t]) = Len(rows[t]) + 1 /\ rows'[t][Len(rows[t]) + 1] = r
             /\ \A k \in 1..Len(rows[t]) : rows'[t][k] = rows[t][k]
  <2>1. PICK q \in Seq(KeptRows) : q = Append(rows[t], r)
    <3>1. PICK p \in Seq(KeptRows) : p = rows[t]
      BY <1>0
    <3>2. Append(p, r) \in Seq(KeptRows)
      OBVIOUS
    <3> QED BY <3>1, <3>2
  <2>2. /\ Len(q) = Len(rows[t]) + 1 /\ q[Len(rows[t]) + 1] = r
        /\ \A k \in 1..Len(rows[t]) : q[k] = rows[t][k]
    BY <1>0, <2>1
  <2>3. rows' = [rows EXCEPT ![t] = q]
    BY <1>3, <2>1 DEF NewRow
  <2>4. rows' \in [Tables -> Seq(KeptRows)] /\ rows'[t] = q /\ \A u \in Tables \ {t} : rows'[u] = rows[u]
    BY <2>3
  <2> QED BY <2>2, <2>4
<1>4. ASSUME NEW t \in Tables, NEW r \in KeptRows, NewRow(t, r), r.event = 0,
             UNCHANGED <<run, cycles, events>>
      PROVE  LedgerInv'
  <2>1. /\ rows' \in [Tables -> Seq(KeptRows)]
        /\ \A u \in Tables \ {t} : rows'[u] = rows[u]
        /\ Len(rows'[t]) = Len(rows[t]) + 1 /\ rows'[t][Len(rows[t]) + 1] = r
        /\ \A k \in 1..Len(rows[t]) : rows'[t][k] = rows[t][k]
    BY <1>3, <1>4
  <2>9. ASSUME NEW u \in Tables, NEW j \in 1..Len(rows'[u])
        PROVE  \/ j \in 1..Len(rows[u]) /\ rows'[u][j] = rows[u][j]
               \/ u = t /\ j > Len(rows[u]) /\ rows'[u][j] = r
    <3>1. PICK n \in Nat : n = Len(rows[t])
      BY <1>0
    <3>2. CASE u = t
      <4>1. j \in 1..(n + 1)
        BY <2>1, <2>9, <3>1, <3>2
      <4>2. j \in 1..n \/ (j = n + 1 /\ j > n)
        BY <3>1, <4>1
      <4> QED BY <2>1, <3>1, <3>2, <4>2
    <3>3. CASE u # t
      BY <2>1, <2>9, <3>3
    <3> QED BY <3>2, <3>3
  <2>2. RowsHaveEvents'
    <3>1. ASSUME NEW u \in Tables, NEW k \in 1..Len(rows'[u]), NEW m, m = rows'[u][k].event
          PROVE  m <= Len(events) /\ (m # 0 => events[m].projected = u)
      <4>1. (k \in 1..Len(rows[u]) /\ m = rows[u][k].event) \/ m = 0
        BY <1>4, <2>9, <3>1
      <4> QED BY <1>0, <4>1 DEF RowsHaveEvents
    <3> QED BY <1>4, <3>1 DEF RowsHaveEvents
  <2>3. EventsHaveRows'
    <3>1. ASSUME NEW i \in 1..Len(events'), NEW u \in Tables, events'[i].projected = u, u # None
          PROVE  \E k \in 1..Len(rows'[u]) : RowOf(i, u, k)'
      <4>0. i \in 1..Len(events) /\ events[i].projected = u
        BY <1>4, <3>1
      <4>1. PICK k \in 1..Len(rows[u]) : RowOf(i, u, k)
        BY <3>1, <4>0 DEF EventsHaveRows
      <4>2. \A j \in 1..Len(rows[u]) : rows[u][j].event = i <=> j = k
        BY <4>1 DEF RowOf
      <4>3. ASSUME NEW j \in 1..Len(rows'[u]) PROVE rows'[u][j].event = i <=> j = k
        <5>1. CASE j \in 1..Len(rows[u]) /\ rows'[u][j] = rows[u][j]
          BY <4>2, <5>1
        <5>2. CASE rows'[u][j].event = 0 /\ j > Len(rows[u])
          BY <1>0, <4>0, <5>2
        <5> QED BY <1>4, <2>9, <5>1, <5>2
      <4>4. k \in 1..Len(rows'[u])
        <5>1. PICK m \in Nat, n \in Nat : m = Len(rows[u]) /\ n = Len(rows[t])
          BY <1>0
        <5>2. CASE u = t
          BY <2>1, <5>1, <5>2
        <5>3. CASE u # t
          BY <2>1, <5>3
        <5> QED BY <5>2, <5>3
      <4>5. RowOf(i, u, k)'
        BY <4>3 DEF RowOf
      <4> QED BY <4>4, <4>5
    <3> QED BY <3>1, Zenon DEF EventsHaveRows
  <2> QED BY <1>4, <2>1, <2>2, <2>3
<1>5. ASSUME NEW t \in Tables, NEW e \in LoggedEvents, NEW r \in KeptRows, e.projected = t,
             r.event = Len(events) + 1, NewEvent(e), NewRow(t, r), UNCHANGED <<run, cycles>>
      PROVE  LedgerInv'
  <2>1. /\ rows' \in [Tables -> Seq(KeptRows)]
        /\ \A u \in Tables \ {t} : rows'[u] = rows[u]
        /\ Len(rows'[t]) = Len(rows[t]) + 1 /\ rows'[t][Len(rows[t]) + 1] = r
        /\ \A k \in 1..Len(rows[t]) : rows'[t][k] = rows[t][k]
    BY <1>3, <1>5
  <2>2. /\ events' \in Seq(LoggedEvents) /\ Len(events') = Len(events) + 1
        /\ events'[Len(events) + 1] = e /\ \A i \in 1..Len(events) : events'[i] = events[i]
    BY <1>5 DEF NewEvent
  <2>9. ASSUME NEW u \in Tables, NEW j \in 1..Len(rows'[u])
        PROVE  \/ j \in 1..Len(rows[u]) /\ rows'[u][j] = rows[u][j]
               \/ u = t /\ j > Len(rows[u]) /\ rows'[u][j] = r
    <3>1. PICK n \in Nat : n = Len(rows[t])
      BY <1>0
    <3>2. CASE u = t
      <4>1. j \in 1..(n + 1)
        BY <2>1, <2>9, <3>1, <3>2
      <4>2. j \in 1..n \/ (j = n + 1 /\ j > n)
        BY <3>1, <4>1
      <4> QED BY <2>1, <3>1, <3>2, <4>2
    <3>3. CASE u # t
      BY <2>1, <2>9, <3>3
    <3> QED BY <3>2, <3>3
  <2>3. ASSUME NEW u \in Tables, NEW k \in 1..Len(rows'[u])
        PROVE  /\ rows'[u][k].event <= Len(events')
               /\ rows'[u][k].event # 0 => events'[rows'[u][k].event].projected = u
    <3>1. CASE k \in 1..Len(rows[u]) /\ rows'[u][k] = rows[u][k]
      <4>1. PICK n \in Nat : n = rows[u][k].event
        BY <1>0, <3>1
      <4>2. n <= Len(events) /\ (n # 0 => events[n].projected = u)
        BY <3>1, <4>1 DEF RowsHaveEvents
      <4> QED BY <1>0, <2>2, <3>1, <4>1, <4>2
    <3>2. CASE u = t /\ k = Len(rows[t]) + 1
      BY <1>5, <2>1, <2>2, <3>2
    <3> QED BY <1>0, <2>1, <3>1, <3>2
  <2>4. RowsHaveEvents'
    BY <2>3 DEF RowsHaveEvents
  <2>5. ASSUME NEW i \in 1..Len(events'), NEW u \in Tables, events'[i].projected = u, u # None
        PROVE  \E k \in 1..Len(rows'[u]) : \A j \in 1..Len(rows'[u]) : rows'[u][j].event = i <=> j = k
    <3>1. CASE i \in 1..Len(events)
      <4>1. PICK k \in 1..Len(rows[u]) : RowOf(i, u, k)
        BY <2>2, <2>5, <3>1 DEF EventsHaveRows
      <4>2. \A j \in 1..Len(rows[u]) : rows[u][j].event = i <=> j = k
        BY <4>1 DEF RowOf
      <4>3. ASSUME NEW j \in 1..Len(rows'[u]) PROVE rows'[u][j].event = i <=> j = k
        <5>1. CASE j \in 1..Len(rows[u]) /\ rows'[u][j] = rows[u][j]
          BY <4>2, <5>1
        <5>2. CASE rows'[u][j].event = Len(events) + 1 /\ j > Len(rows[u])
          BY <1>0, <3>1, <5>2
        <5> QED BY <1>5, <2>9, <5>1, <5>2
      <4>4. k \in 1..Len(rows'[u])
        <5>1. PICK m \in Nat, n \in Nat : m = Len(rows[u]) /\ n = Len(rows[t])
          BY <1>0
        <5>2. CASE u = t
          BY <2>1, <5>1, <5>2
        <5>3. CASE u # t
          BY <2>1, <5>3
        <5> QED BY <5>2, <5>3
      <4> QED BY <4>3, <4>4
    <3>2. CASE i = Len(events) + 1
      <4>1. u = t
        BY <1>5, <2>2, <2>5, <3>2
      <4>2. \A j \in 1..Len(rows[t]) : rows[t][j].event # i
        <5>1. ASSUME NEW j \in 1..Len(rows[t]) PROVE rows[t][j].event # i
          <6>1. PICK n \in Nat : n = rows[t][j].event
            BY <1>0
          <6>2. n <= Len(events)
            BY <6>1 DEF RowsHaveEvents
          <6> QED BY <1>0, <3>2, <6>1, <6>2
        <5> QED BY <5>1
      <4>3. PICK k : k = Len(rows[t]) + 1
        OBVIOUS
      <4>4. ASSUME NEW j \in 1..Len(rows'[t]) PROVE rows'[t][j].event = i <=> j = k
        <5>1. CASE j \in 1..Len(rows[t]) /\ rows'[t][j] = rows[t][j]
          BY <1>0, <4>2, <4>3, <5>1
        <5>2. CASE j = k /\ rows'[t][j] = r
          BY <1>5, <3>2, <5>2
        <5> QED BY <1>0, <2>1, <4>3, <5>1, <5>2
      <4>5. k \in 1..Len(rows'[t])
        BY <1>0, <2>1, <4>3
      <4> QED BY <4>1, <4>4, <4>5
    <3> QED BY <2>2, <3>1, <3>2
  <2>6. EventsHaveRows'
    BY <2>5 DEF EventsHaveRows, RowOf
  <2> QED BY <1>5, <2>1, <2>2, <2>4, <2>6
<1>6. CASE Le!Reset
  <2>1. Len(events') = 0 /\ \A t \in Tables : Len(rows'[t]) = 0
    BY <1>6 DEF Le!Reset
  <2>2. LedgerTypes'
    <3>1. \A X : <<>> \in Seq(X)
      OBVIOUS
    <3> QED BY <1>6, <3>1 DEF Le!Reset
  <2>3. RowsHaveEvents' /\ EventsHaveRows'
    BY <2>1 DEF RowsHaveEvents, EventsHaveRows
  <2> QED BY <2>2, <2>3
<1> HIDE DEF LedgerInv, LedgerTypes
<1> QED BY <1>1, <1>2, <1>4, <1>5, <1>6, LedgerMoves

LEMMA LedgerInvHolds == Le!Spec => []LedgerInv
<1>1. LedgerInv /\ [Le!Next]_(Le!vars) => LedgerInv'
  BY LedgerStep
<1> QED BY <1>1, LedgerInit, PTL DEF Le!Spec

LEMMA LedgerTyped == LedgerInv => Le!TypeOK
<1> SUFFICES ASSUME LedgerInv PROVE Le!TypeOK
  OBVIOUS
<1>1. \A i \in DOMAIN events : events[i] \in LoggedEvents
  BY DEF LedgerInv, LedgerTypes
<1> QED BY <1>1 DEF LedgerInv, LedgerTypes, Le!TypeOK, LoggedEvents

LEMMA NothingHalf == LedgerInv => Le!NoHalfWrites
<1> SUFFICES ASSUME LedgerInv PROVE Le!NoHalfWrites
  OBVIOUS
<1>1. DOMAIN events = 1..Len(events) /\ \A t \in Tables : DOMAIN rows[t] = 1..Len(rows[t])
  BY RowsTyped DEF LedgerInv
<1>2. ASSUME NEW t \in Tables, NEW k \in DOMAIN rows[t], rows[t][k].event # 0
      PROVE  rows[t][k].event \in DOMAIN events /\ events[rows[t][k].event].projected = t
  <2>1. PICK n \in Nat : n = rows[t][k].event
    BY <1>1, RowsTyped DEF LedgerInv
  <2>2. n <= Len(events) /\ Len(events) \in Nat /\ events[n].projected = t
    BY <1>1, <1>2, <2>1, RowsTyped DEF LedgerInv, RowsHaveEvents
  <2> QED BY <1>1, <1>2, <2>1, <2>2
<1>3. ASSUME NEW i \in DOMAIN events, NEW t, t = events[i].projected, t # None
      PROVE  Le!Cardinality({k \in DOMAIN rows[t] : rows[t][k].event = i}) = 1
  <2>1. t \in Tables
    <3>1. events[i] \in LoggedEvents
      BY <1>1, RowsTyped DEF LedgerInv
    <3> QED BY <1>3, <3>1 DEF LoggedEvents
  <2>2. PICK k \in 1..Len(rows[t]) : RowOf(i, t, k)
    BY <1>1, <1>3, <2>1 DEF LedgerInv, EventsHaveRows
  <2>3. {j \in DOMAIN rows[t] : rows[t][j].event = i} = {k}
    BY <1>1, <2>1, <2>2 DEF RowOf
  <2>4. Cardinality({k}) = 1
    BY FS_Singleton
  <2> QED BY <2>3, <2>4, LeCount
<1> QED BY <1>2, <1>3 DEF Le!NoHalfWrites

LEMMA LogOnlyGrows == ASSUME LedgerInv, [Le!Next]_(Le!vars) PROVE Le!AppendOnly
<1>0. events \in Seq(LoggedEvents) /\ cycles \in [Cycles -> {"absent", "claimed"} \union Le!Statuses]
  BY DEF LedgerInv, LedgerTypes
<1>1. ASSUME events' = events \/ \E e \in LoggedEvents : NewEvent(e)
      PROVE  Le!IsPrefix(events, events')
  <2>1. PICK s \in Seq(LoggedEvents) :
          s = events' /\ Len(s) >= Len(events) /\ \A i \in 1..Len(events) : s[i] = events[i]
    BY <1>0, <1>1 DEF NewEvent
  <2>2. SubSeq(s, 1, Len(events)) = SubSeq(events, 1, Len(events))
    BY <1>0, <2>1
  <2>3. Len(events) <= Len(events')
    BY <1>0, <2>1
  <2> QED BY <2>1, <2>2, <2>3 DEF Le!IsPrefix
<1>2. ASSUME \/ cycles' = cycles
             \/ \E c \in Cycles : cycles[c] = "absent" /\ cycles' = [cycles EXCEPT ![c] = "claimed"]
             \/ \E c \in Cycles, s \in Le!Statuses :
                  cycles[c] # "absent" /\ cycles' = [cycles EXCEPT ![c] = s]
      PROVE  \A c \in Cycles : cycles[c] # "absent" =>
               cycles'[c] # "absent" /\ (cycles[c] # "claimed" => cycles'[c] # "claimed")
  <2>1. \A s \in Le!Statuses : s # "absent" /\ s # "claimed"
    BY DEF Le!Statuses
  <2> QED BY <1>0, <1>2, <2>1
<1>3. CASE Le!Reset
  BY <1>3 DEF Le!Reset, Le!AppendOnly
<1>4. ASSUME Le!IsPrefix(events, events'),
             \A c \in Cycles : cycles[c] # "absent" =>
               cycles'[c] # "absent" /\ (cycles[c] # "claimed" => cycles'[c] # "claimed")
      PROVE  Le!AppendOnly
  BY <1>4, Zenon DEF Le!AppendOnly
<1> HIDE DEF Le!Reset, Le!AppendOnly
<1> QED BY <1>1, <1>2, <1>3, <1>4, LedgerMoves

(* The replay of a run: what it counts after each event. *)
ReplayStates ==
  [dispositions : [Le!Statuses -> Int], held : [Symbols -> Int],
   protection : [Symbols -> {p.kind : p \in Payloads} \union {None}],
   reconciliation : {"UNKNOWN", "IN_SYNC"}, breaker : {"OPEN", "CLOSED"},
   pnl : Int, fees : Int, funding : Int, seen : BOOLEAN]

Kind(i) == events[i].payload.kind
Counted(i) == Kind(i) = "FILL_OBSERVED" /\ events[i].payload.symbol # None
TellsFunding(i) == events[i].payload.funding # None

(* What an event adds to the amounts. *)
ReplaysAs(i, s, q) ==
  /\ q.fees = IF Counted(i) THEN s.fees + events[i].payload.fee ELSE s.fees
  /\ q.pnl = IF Kind(i) = "TRADE_CLOSED" THEN s.pnl + events[i].payload.pnl ELSE s.pnl
  /\ q.seen = (s.seen \/ (Counted(i) /\ TellsFunding(i)))
  /\ q.funding = IF Counted(i) \/ (Kind(i) = "TRADE_CLOSED" /\ ~s.seen)
                 THEN s.funding + Le!Amount(events[i].payload.funding) ELSE s.funding
  /\ \A d \in Le!Statuses :
       q.dispositions[d] = IF Kind(i) = "CYCLE_TERMINAL" /\ events[i].payload.disposition = d
                           THEN s.dispositions[d] + 1 ELSE s.dispositions[d]

LEMMA PayloadsAre ==
  ASSUME LedgerTypes, NEW i \in 1..Len(events)
  PROVE  /\ events[i].payload \in Payloads
         /\ events[i].payload.fee \in Int /\ events[i].payload.pnl \in Int
         /\ events[i].payload.held \in Int /\ Le!Amount(events[i].payload.funding) \in Int
<1>1. PICK p \in Payloads : p = events[i].payload
  BY RowsTyped DEF LoggedEvents
<1>2. p.fee \in Int /\ p.pnl \in Int /\ p.held \in Int /\ (p.funding # None => p.funding \in Int)
  BY LedgerGiven DEF Le!LedgerAssumption
<1>3. Le!Amount(p.funding) \in Int
  BY <1>2 DEF Le!Amount
<1> QED BY <1>1, <1>2, <1>3

LEMMA Increased ==
  ASSUME NEW S, NEW f \in [S -> Int], NEW x, NEW m \in Int
  PROVE  [f EXCEPT ![x] = f[x] + m] \in [S -> Int]
<1>1. CASE x \in S
  <2>1. f[x] + m \in Int
    BY <1>1
  <2> QED BY <2>1
<1>2. CASE x \notin S
  <2>1. [f EXCEPT ![x] = f[x] + m] = f
    BY <1>2
  <2> QED BY <2>1
<1> QED BY <1>1, <1>2

LEMMA ReplayedIs ==
  ASSUME LedgerTypes, NEW taken, NEW i \in 1..Len(events), NEW s \in ReplayStates
  PROVE  Le!Replayed(taken, s, i) \in ReplayStates /\ ReplaysAs(i, s, Le!Replayed(taken, s, i))
<1> DEFINE p == events[i].payload
           symbol == Le!SymbolForCycle(taken, i)
           q == Le!Replayed(taken, s, i)
<1>1. /\ p.fee \in Int /\ p.pnl \in Int /\ p.held \in Int /\ Le!Amount(p.funding) \in Int
      /\ p.kind \in {x.kind : x \in Payloads}
  BY PayloadsAre
<1>2. /\ s.fees \in Int /\ s.pnl \in Int /\ s.funding \in Int /\ s.seen \in BOOLEAN
      /\ s.held \in [Symbols -> Int] /\ s.dispositions \in [Le!Statuses -> Int]
      /\ s.protection \in [Symbols -> {x.kind : x \in Payloads} \union {None}]
  BY DEF ReplayStates
<1>3. q = CASE p.kind = "FILL_OBSERVED" /\ p.symbol # None ->
                 [s EXCEPT !.held[p.symbol] = @ + p.held, !.fees = @ + p.fee,
                   !.funding = @ + Le!Amount(p.funding), !.seen = @ \/ p.funding # None]
            [] p.kind \in {"PROTECTION_VERIFIED", "PROTECTION_FAILED"} /\ symbol # None ->
                 [s EXCEPT !.protection[symbol] = p.kind]
            [] p.kind = "POSITION_RECONCILED" -> [s EXCEPT !.reconciliation = "IN_SYNC"]
            [] p.kind = "TRADE_CLOSED" ->
                 [s EXCEPT !.pnl = @ + p.pnl,
                           !.funding = @ + IF s.seen THEN 0 ELSE Le!Amount(p.funding)]
            [] p.kind = "RISK_BREAKER_OPEN" -> [s EXCEPT !.breaker = "OPEN"]
            [] p.kind = "RISK_BREAKER_CLOSED" -> [s EXCEPT !.breaker = "CLOSED"]
            [] p.kind = "CYCLE_TERMINAL" -> [s EXCEPT !.dispositions[p.disposition] = @ + 1]
            [] OTHER -> s
  BY Zenon DEF Le!Replayed
<1> HIDE DEF p, symbol, q
<1>4. CASE p.kind = "FILL_OBSERVED" /\ p.symbol # None
  <2>1. PICK h \in [Symbols -> Int] : h = [s.held EXCEPT ![p.symbol] = @ + p.held]
    <3> QED BY <1>1, <1>2, Increased
  <2> DEFINE c == s.seen \/ p.funding # None
  <2>2. PICK a \in Int, b \in Int : a = s.fees + p.fee /\ b = s.funding + Le!Amount(p.funding)
    BY <1>1, <1>2
  <2>c. c \in BOOLEAN
    BY <1>2
  <2>3. q = [s EXCEPT !.held = h, !.fees = a, !.funding = b, !.seen = c]
    BY <1>3, <1>4, <2>1, <2>2
  <2> HIDE DEF c
  <2>4. q \in ReplayStates
    BY <2>3, <2>c DEF ReplayStates
  <2>5. /\ q.fees = a /\ q.pnl = s.pnl /\ q.seen = c /\ q.funding = b
        /\ q.dispositions = s.dispositions
    BY <2>3 DEF ReplayStates
  <2>6. ReplaysAs(i, s, q)
    BY <1>4, <2>2, <2>5 DEF ReplaysAs, Kind, Counted, TellsFunding, p, c
  <2> QED BY <2>4, <2>6 DEF q
<1>5. CASE p.kind \in {"PROTECTION_VERIFIED", "PROTECTION_FAILED"} /\ symbol # None
  <2>1. PICK h \in [Symbols -> {x.kind : x \in Payloads} \union {None}] :
          h = [s.protection EXCEPT ![symbol] = p.kind]
    BY <1>1, <1>2
  <2>2. q = [s EXCEPT !.protection = h]
    BY <1>3, <1>5, <2>1
  <2>3. q \in ReplayStates
    BY <2>2 DEF ReplayStates
  <2>4. /\ q.fees = s.fees /\ q.pnl = s.pnl /\ q.seen = s.seen /\ q.funding = s.funding
        /\ q.dispositions = s.dispositions
    BY <2>2 DEF ReplayStates
  <2>5. ReplaysAs(i, s, q)
    BY <1>2, <1>5, <2>4 DEF ReplaysAs, Kind, Counted, TellsFunding, p
  <2> QED BY <2>3, <2>5 DEF q
<1>6. CASE p.kind = "TRADE_CLOSED"
  <2>1. PICK a \in Int, b \in Int :
          a = s.pnl + p.pnl /\ b = s.funding + IF s.seen THEN 0 ELSE Le!Amount(p.funding)
    BY <1>1, <1>2
  <2>2. q = [s EXCEPT !.pnl = a, !.funding = b]
    BY <1>3, <1>6, <2>1
  <2>3. q \in ReplayStates
    BY <2>2 DEF ReplayStates
  <2>4. /\ q.fees = s.fees /\ q.pnl = a /\ q.seen = s.seen /\ q.funding = b
        /\ q.dispositions = s.dispositions
    BY <2>2 DEF ReplayStates
  <2>5. ReplaysAs(i, s, q)
    BY <1>1, <1>2, <1>6, <2>1, <2>4 DEF ReplaysAs, Kind, Counted, TellsFunding, p
  <2> QED BY <2>3, <2>5 DEF q
<1>7. CASE p.kind = "CYCLE_TERMINAL"
  <2>1. PICK h \in [Le!Statuses -> Int] : h = [s.dispositions EXCEPT ![p.disposition] = @ + 1]
    <3>1. 1 \in Int
      OBVIOUS
    <3> QED BY <1>2, <3>1, Increased
  <2>2. q = [s EXCEPT !.dispositions = h]
    BY <1>3, <1>7, <2>1
  <2>3. q \in ReplayStates
    BY <2>2 DEF ReplayStates
  <2>4. /\ q.fees = s.fees /\ q.pnl = s.pnl /\ q.seen = s.seen /\ q.funding = s.funding
        /\ q.dispositions = h
    BY <2>2 DEF ReplayStates
  <2>5. \A d \in Le!Statuses : h[d] = IF p.disposition = d THEN s.dispositions[d] + 1 ELSE s.dispositions[d]
    BY <1>2, <2>1
  <2>6. ReplaysAs(i, s, q)
    BY <1>2, <1>7, <2>4, <2>5 DEF ReplaysAs, Kind, Counted, TellsFunding, p
  <2> QED BY <2>3, <2>6 DEF q
<1>8. CASE ~(p.kind = "FILL_OBSERVED" /\ p.symbol # None) /\ p.kind # "TRADE_CLOSED"
           /\ ~(p.kind \in {"PROTECTION_VERIFIED", "PROTECTION_FAILED"} /\ symbol # None)
           /\ p.kind # "CYCLE_TERMINAL"
  <2>1. \/ q = s \/ q = [s EXCEPT !.reconciliation = "IN_SYNC"]
        \/ q = [s EXCEPT !.breaker = "OPEN"] \/ q = [s EXCEPT !.breaker = "CLOSED"]
    BY <1>3, <1>8, Zenon
  <2>2. q \in ReplayStates
    BY <2>1 DEF ReplayStates
  <2>3. /\ q.fees = s.fees /\ q.pnl = s.pnl /\ q.seen = s.seen /\ q.funding = s.funding
        /\ q.dispositions = s.dispositions
    BY <2>1 DEF ReplayStates
  <2>4. ReplaysAs(i, s, q)
    BY <1>2, <1>8, <2>3 DEF ReplaysAs, Kind, Counted, TellsFunding, p
  <2> QED BY <2>2, <2>4 DEF q
<1> QED BY <1>4, <1>5, <1>6, <1>7, <1>8

ReplayWalk(taken, a) ==
  /\ a[0] = Le!Nothing
  /\ \A i \in 1..Len(events) :
       IF i \in taken THEN ReplaysAs(i, a[i - 1], a[i]) ELSE a[i] = a[i - 1]

LEMMA ReplayWalks ==
  ASSUME LedgerTypes, NEW taken
  PROVE  \E a \in [0..Len(events) -> ReplayStates] :
           ReplayWalk(taken, a) /\ Le!ReplayEvents(taken) = a[Len(events)]
<1> DEFINE places == [i \in DOMAIN events |-> i]
           top(T) == CHOOSE x \in T : \A y \in T : x >= y
           Is(f) == f = [T \in SUBSET (DOMAIN places) |->
                           IF T = {} THEN Le!Nothing
                           ELSE IF places[top(T)] \in taken
                                THEN Le!Replayed(taken, f[T \ {top(T)}], places[top(T)])
                                ELSE f[T \ {top(T)}]]
           h == CHOOSE f : Is(f)
           After(i, s) == IF i \in taken THEN Le!Replayed(taken, s, i) ELSE s
<1>1. PICK n \in Nat : n = Len(events) /\ DOMAIN events = 1..n
  BY RowsTyped
<1>2. DOMAIN places = 1..n /\ \A i \in 1..n : places[i] = i
  BY <1>1
<1>3. Le!ReplayEvents(taken) = h[DOMAIN places]
  BY Zenon DEF Le!ReplayEvents, Le!FoldLeft, Le!MapThenFoldSet, Le!Max
<1>4. Le!Nothing \in ReplayStates
  BY DEF Le!Nothing, ReplayStates
<1>5. \A i \in 1..n, s \in ReplayStates :
        After(i, s) \in ReplayStates /\ (i \in taken => ReplaysAs(i, s, After(i, s)))
  BY <1>1, ReplayedIs
<1> HIDE DEF After
<1>6. PICK step : step = [i \in 1..n |-> [s \in ReplayStates |-> After(i, s)]]
  OBVIOUS
<1>7. /\ step \in [1..n -> [ReplayStates -> ReplayStates]]
      /\ \A i \in 1..n, s \in ReplayStates : step[i][s] = After(i, s)
  BY <1>5, <1>6
<1>8. FoldsFrom(n, ReplayStates, Le!Nothing, step)
  BY <1>4, <1>7 DEF FoldsFrom
<1>9. PICK fold \in [SUBSET (1..n) -> ReplayStates], a \in [0..n -> ReplayStates] :
        FoldOver(fold, n, Le!Nothing, step) /\ WalkOver(a, fold, n, Le!Nothing, step)
  BY <1>8, FoldWalks
<1>10. ASSUME NEW T \in SUBSET (1..n), T # {}
       PROVE  /\ T \ {LastOf(T)} \in SUBSET (1..n) /\ LastOf(T) \in 1..n
              /\ fold[T] = After(LastOf(T), fold[T \ {LastOf(T)}])
  <2>1. LastOf(T) \in T /\ fold[T] = step[LastOf(T)][fold[T \ {LastOf(T)}]]
    BY <1>9, <1>10 DEF FoldOver
  <2>2. PICK U \in SUBSET (1..n) : U = T \ {LastOf(T)}
    OBVIOUS
  <2>3. fold[U] \in ReplayStates
    OBVIOUS
  <2> QED BY <1>7, <2>1, <2>2, <2>3
<1>11. \A T : top(T) = LastOf(T)
  BY DEF LastOf
<1> HIDE DEF top, places
<1>12. Is(fold)
  <2>1. ASSUME NEW T \in SUBSET (1..n)
        PROVE  fold[T] = IF T = {} THEN Le!Nothing
                         ELSE IF places[top(T)] \in taken
                              THEN Le!Replayed(taken, fold[T \ {top(T)}], places[top(T)])
                              ELSE fold[T \ {top(T)}]
    <3>1. CASE T = {}
      BY <1>9, <3>1 DEF FoldOver
    <3>2. CASE T # {}
      <4>1. places[top(T)] = LastOf(T) /\ top(T) = LastOf(T)
        BY <1>2, <1>10, <1>11, <3>2
      <4> QED BY <1>10, <3>2, <4>1 DEF After
    <3> QED BY <3>1, <3>2
  <2> QED BY <1>2, <2>1
<1>13. Is(h)
  <2> HIDE DEF Is
  <2> QED BY <1>12
<1>14. ASSUME NEW T \in SUBSET (1..n), T # {}, h[T \ {LastOf(T)}] = fold[T \ {LastOf(T)}]
       PROVE  h[T] = fold[T]
  <2>1. h[T] = IF T = {} THEN Le!Nothing
               ELSE IF places[top(T)] \in taken
                    THEN Le!Replayed(taken, h[T \ {top(T)}], places[top(T)])
                    ELSE h[T \ {top(T)}]
    <3> HIDE DEF h
    <3> QED BY <1>2, <1>13
  <2>2. places[top(T)] = LastOf(T) /\ top(T) = LastOf(T)
    BY <1>2, <1>10, <1>11, <1>14
  <2> HIDE DEF h
  <2> QED BY <1>10, <1>14, <2>1, <2>2 DEF After
<1>15. h[{}] = Le!Nothing
  <2> HIDE DEF h
  <2> QED BY <1>2, <1>13
<1>16. h[1..n] = fold[1..n]
  <2>1. GrowsAs(h, fold, n)
    BY <1>14 DEF GrowsAs
  <2>2. fold[{}] = Le!Nothing
    BY <1>9 DEF FoldOver
  <2> HIDE DEF h
  <2> QED BY <1>15, <2>1, <2>2, SameFold
<1>17. Le!ReplayEvents(taken) = a[n]
  <2> HIDE DEF h
  <2> QED BY <1>2, <1>3, <1>9, <1>16 DEF WalkOver
<1>18. ASSUME NEW i \in 1..n
       PROVE  IF i \in taken THEN ReplaysAs(i, a[i - 1], a[i]) ELSE a[i] = a[i - 1]
  <2>1. a[i - 1] \in ReplayStates
    OBVIOUS
  <2>2. a[i] = After(i, a[i - 1])
    BY <1>7, <1>9, <2>1 DEF WalkOver
  <2>3. i \notin taken => After(i, a[i - 1]) = a[i - 1]
    BY DEF After
  <2> QED BY <1>5, <2>1, <2>2, <2>3
<1>19. a[0] = Le!Nothing
  BY <1>9 DEF WalkOver
<1>20. ReplayWalk(taken, a)
  BY <1>1, <1>18, <1>19 DEF ReplayWalk
<1> QED BY <1>1, <1>9, <1>17, <1>20

LEMMA LeSum == \A f, S : Le!Over(f, S) = Sum(f, S)
BY Zenon DEF Le!Over, Le!MapThenSumSet, Le!MapThenFoldSet, Sum, MapThenSumSet, MapThenFoldSet

OfKind(taken, kind) == {i \in taken : Kind(i) = kind}
Ending(taken, d) == {i \in taken : Kind(i) = "CYCLE_TERMINAL" /\ events[i].payload.disposition = d}
Telling(taken) == {i \in OfKind(taken, "FILL_OBSERVED") : TellsFunding(i)}

(* What a replay of regular events comes to. *)
LEMMA ReplayComesTo ==
  ASSUME LedgerTypes, NEW taken \in SUBSET (1..Len(events)), Le!Regular(taken), NEW q,
         q = Le!ReplayEvents(taken)
  PROVE  /\ q.fees = Sum(Le!FeesPaid, OfKind(taken, "FILL_OBSERVED"))
         /\ q.pnl = Sum(Le!Pnls, OfKind(taken, "TRADE_CLOSED"))
         /\ q.funding = IF Telling(taken) # {}
                        THEN Sum(Le!Fundings, OfKind(taken, "FILL_OBSERVED"))
                        ELSE Sum(Le!Fundings, OfKind(taken, "TRADE_CLOSED"))
         /\ q.dispositions \in [Le!Statuses -> Int]
         /\ \A d \in Le!Statuses : q.dispositions[d] = Cardinality(Ending(taken, d))
<1> DEFINE n == Len(events)
<1>0. n \in Nat /\ DOMAIN events = 1..n
  BY RowsTyped
<1>1. PICK a \in [0..n -> ReplayStates] : ReplayWalk(taken, a) /\ q = a[n]
  BY ReplayWalks
<1> HIDE DEF n
<1>2. \A i \in 0..n : /\ a[i].fees \in Int /\ a[i].pnl \in Int /\ a[i].funding \in Int
                      /\ a[i].seen \in BOOLEAN /\ a[i].dispositions \in [Le!Statuses -> Int]
  BY DEF ReplayStates
<1>3. /\ a[0].fees = 0 /\ a[0].pnl = 0 /\ a[0].funding = 0 /\ a[0].seen = FALSE
      /\ \A d \in Le!Statuses : a[0].dispositions[d] = 0
  BY <1>1 DEF ReplayWalk, Le!Nothing
<1>4. \A i \in 1..n : IF i \in taken THEN ReplaysAs(i, a[i - 1], a[i]) ELSE a[i] = a[i - 1]
  BY <1>1 DEF ReplayWalk, n
<1>5. \A i \in taken : Kind(i) = "FILL_OBSERVED" => Counted(i)
  BY DEF Le!Regular, Counted, Kind
<1>6. /\ Le!FeesPaid \in [1..n -> Int] /\ \A i \in 1..n : Le!FeesPaid[i] = events[i].payload.fee
      /\ Le!Pnls \in [1..n -> Int] /\ \A i \in 1..n : Le!Pnls[i] = events[i].payload.pnl
      /\ Le!Fundings \in [1..n -> Int]
      /\ \A i \in 1..n : Le!Fundings[i] = Le!Amount(events[i].payload.funding)
  BY <1>0, PayloadsAre DEF n, Le!FeesPaid, Le!Pnls, Le!Fundings
<1>7. taken \in SUBSET (1..n) /\ 0..n \subseteq Nat /\ \A i \in 1..n : i - 1 \in 0..n /\ i \in 0..n
  BY <1>0 DEF n
<1>8. \A i \in 1..n : "FILL_OBSERVED" # "TRADE_CLOSED" /\ "CYCLE_TERMINAL" # "FILL_OBSERVED"
  OBVIOUS
<1>10. q.fees = Sum(Le!FeesPaid, OfKind(taken, "FILL_OBSERVED"))
  <2> DEFINE F == OfKind(taken, "FILL_OBSERVED")
  <2>1. PICK b \in [0..n -> Int] : \A i \in 0..n : b[i] = a[i].fees
    <3>1. [i \in 0..n |-> a[i].fees] \in [0..n -> Int]
      BY <1>2
    <3> QED BY <3>1
  <2>2. ASSUME NEW i \in 1..n PROVE b[i] = IF i \in F THEN b[i - 1] + Le!FeesPaid[i] ELSE b[i - 1]
    <3>1. i \in F <=> i \in taken /\ Counted(i)
      BY <1>5 DEF OfKind, Counted
    <3>2. b[i] = a[i].fees /\ b[i - 1] = a[i - 1].fees
      BY <1>7, <2>1
    <3>3. CASE i \in taken
      BY <1>4, <1>6, <3>1, <3>2, <3>3 DEF ReplaysAs
    <3>4. CASE i \notin taken
      BY <1>4, <3>1, <3>2, <3>4
    <3> QED BY <3>3, <3>4
  <2>3. F \in SUBSET (1..n) /\ b[0] = 0
    <3>1. F \in SUBSET (1..n)
      BY <1>7 DEF OfKind
    <3>2. b[0] = 0
      BY <1>0, <1>3, <2>1
    <3> QED BY <3>1, <3>2
  <2> HIDE DEF F
  <2>4. AddsUp(n, Le!FeesPaid, F, b)
    BY <2>2, <2>3 DEF AddsUp
  <2>5. b[n] = Sum(Le!FeesPaid, F)
    BY <1>0, <1>6, <2>3, <2>4, RunningSum
  <2> QED BY <1>0, <1>1, <2>1, <2>5 DEF F
<1>11. q.pnl = Sum(Le!Pnls, OfKind(taken, "TRADE_CLOSED"))
  <2> DEFINE F == OfKind(taken, "TRADE_CLOSED")
  <2>1. PICK b \in [0..n -> Int] : \A i \in 0..n : b[i] = a[i].pnl
    <3>1. [i \in 0..n |-> a[i].pnl] \in [0..n -> Int]
      BY <1>2
    <3> QED BY <3>1
  <2>2. ASSUME NEW i \in 1..n PROVE b[i] = IF i \in F THEN b[i - 1] + Le!Pnls[i] ELSE b[i - 1]
    <3>1. i \in F <=> i \in taken /\ Kind(i) = "TRADE_CLOSED"
      BY DEF OfKind
    <3>2. b[i] = a[i].pnl /\ b[i - 1] = a[i - 1].pnl
      BY <1>7, <2>1
    <3>3. CASE i \in taken
      BY <1>4, <1>6, <3>1, <3>2, <3>3 DEF ReplaysAs
    <3>4. CASE i \notin taken
      BY <1>4, <3>1, <3>2, <3>4
    <3> QED BY <3>3, <3>4
  <2>3. F \in SUBSET (1..n) /\ b[0] = 0
    <3>1. F \in SUBSET (1..n)
      BY <1>7 DEF OfKind
    <3>2. b[0] = 0
      BY <1>0, <1>3, <2>1
    <3> QED BY <3>1, <3>2
  <2> HIDE DEF F
  <2>4. AddsUp(n, Le!Pnls, F, b)
    BY <2>2, <2>3 DEF AddsUp
  <2>5. b[n] = Sum(Le!Pnls, F)
    BY <1>0, <1>6, <2>3, <2>4, RunningSum
  <2> QED BY <1>0, <1>1, <2>1, <2>5 DEF F
<1>12. ASSUME NEW d \in Le!Statuses PROVE q.dispositions[d] = Cardinality(Ending(taken, d))
  <2> DEFINE F == Ending(taken, d)
  <2>0. PICK one \in [1..n -> Int] : \A i \in 1..n : one[i] = 1
    <3>1. [i \in 1..n |-> 1] \in [1..n -> Int]
      OBVIOUS
    <3> QED BY <3>1
  <2>1. PICK b \in [0..n -> Int] : \A i \in 0..n : b[i] = a[i].dispositions[d]
    <3>1. [i \in 0..n |-> a[i].dispositions[d]] \in [0..n -> Int]
      BY <1>2
    <3> QED BY <3>1
  <2>2. ASSUME NEW i \in 1..n PROVE b[i] = IF i \in F THEN b[i - 1] + one[i] ELSE b[i - 1]
    <3>1. i \in F <=> i \in taken /\ Kind(i) = "CYCLE_TERMINAL" /\ events[i].payload.disposition = d
      BY DEF Ending
    <3>2. b[i] = a[i].dispositions[d] /\ b[i - 1] = a[i - 1].dispositions[d]
      BY <1>7, <2>1
    <3>3. CASE i \in taken
      <4>1. a[i].dispositions[d] = IF Kind(i) = "CYCLE_TERMINAL" /\ events[i].payload.disposition = d
                                   THEN a[i - 1].dispositions[d] + 1 ELSE a[i - 1].dispositions[d]
        BY <1>4, <3>3 DEF ReplaysAs
      <4> QED BY <2>0, <3>1, <3>2, <3>3, <4>1
    <3>4. CASE i \notin taken
      BY <1>4, <3>1, <3>2, <3>4
    <3> QED BY <3>3, <3>4
  <2>3. F \in SUBSET (1..n) /\ b[0] = 0
    <3>1. F \in SUBSET (1..n)
      BY <1>7 DEF Ending
    <3>2. b[0] = 0
      BY <1>0, <1>3, <2>1
    <3> QED BY <3>1, <3>2
  <2>4. AddsUp(n, one, F, b)
    <3> HIDE DEF F
    <3> QED BY <2>2, <2>3 DEF AddsUp
  <2>5. b[n] = Sum(one, F)
    <3> HIDE DEF F
    <3> QED BY <1>0, <2>3, <2>4, RunningSum
  <2>6. Sum(one, F) = Cardinality(F)
    <3>1. IsFiniteSet(1..n)
      <4>1. 1 \in Int /\ n \in Int
        BY <1>0
      <4> QED BY <4>1, FS_Interval, Zenon
    <3> HIDE DEF F
    <3>2. Cardinality(F) \in Nat
      BY <2>3, <3>1, FS_Subset, FS_CardinalityType
    <3>3. \A T \in SUBSET (1..n) : Sum(one, T) = 1 * Cardinality(T)
      <4>1. 1 \in Int
        OBVIOUS
      <4> QED BY <2>0, <3>1, <4>1, SumConstant
    <3>4. Sum(one, F) = 1 * Cardinality(F)
      BY <2>3, <3>3
    <3> QED BY <3>2, <3>4
  <2> HIDE DEF F
  <2>7. q.dispositions[d] = b[n]
    BY <1>0, <1>1, <2>1
  <2> QED BY <2>5, <2>6, <2>7 DEF F
<1>13. ASSUME NEW i \in 0..n PROVE a[i].seen <=> \E j \in Telling(taken) : j <= i
  <2> DEFINE Good == {k \in 0..n : a[k].seen <=> \E j \in Telling(taken) : j <= k}
  <2>0. \A j \in Telling(taken) : j \in 1..n
    BY <1>7 DEF Telling, OfKind
  <2>1. 0 \in Good
    BY <1>0, <1>3, <2>0
  <2>2. ASSUME NEW k \in 0..(n - 1), k \in Good PROVE k + 1 \in Good
    <3>1. PICK j \in 1..n : j = k + 1 /\ j - 1 = k
      BY <1>0
    <3>2. j \in Telling(taken) <=> j \in taken /\ Counted(j) /\ TellsFunding(j)
      BY <1>5 DEF Telling, OfKind, Counted
    <3>3. a[j].seen <=> a[k].seen \/ j \in Telling(taken)
      <4>1. CASE j \in taken
        BY <1>4, <3>1, <3>2, <4>1 DEF ReplaysAs
      <4>2. CASE j \notin taken
        BY <1>4, <3>1, <3>2, <4>2
      <4> QED BY <4>1, <4>2
    <3>4. \A m \in Telling(taken) : m <= j <=> m <= k \/ m = j
      BY <2>0, <3>1
    <3> QED BY <2>2, <3>1, <3>3, <3>4
  <2>3. 0..n \subseteq Good
    <3> HIDE DEF Good
    <3> QED BY <1>0, <2>1, <2>2, StepInduction
  <2> QED BY <2>3
<1>14. PICK b \in [0..n -> Int] : \A i \in 0..n : b[i] = a[i].funding
  <2>1. [i \in 0..n |-> a[i].funding] \in [0..n -> Int]
    BY <1>2
  <2> QED BY <2>1
<1>15. ASSUME NEW i \in 1..n
       PROVE  b[i] = IF i \in taken /\ (Counted(i) \/ (Kind(i) = "TRADE_CLOSED" /\ ~a[i - 1].seen))
                     THEN b[i - 1] + Le!Fundings[i] ELSE b[i - 1]
  <2>1. b[i] = a[i].funding /\ b[i - 1] = a[i - 1].funding
    BY <1>7, <1>14
  <2>2. CASE i \in taken
    BY <1>4, <1>6, <2>1, <2>2 DEF ReplaysAs
  <2>3. CASE i \notin taken
    BY <1>4, <2>1, <2>3
  <2> QED BY <2>2, <2>3
<1>16. CASE Telling(taken) # {}
  <2> DEFINE F == OfKind(taken, "FILL_OBSERVED")
  <2>1. ASSUME NEW i \in taken, Kind(i) = "TRADE_CLOSED" PROVE a[i - 1].seen
    <3>1. PICK j \in Telling(taken) : TRUE
      BY <1>16
    <3>2. j < i
      BY <2>1, <3>1 DEF Le!Regular, Telling, OfKind, TellsFunding, Kind
    <3>3. j <= i - 1
      BY <1>7, <3>1, <3>2 DEF Telling, OfKind
    <3> QED BY <1>7, <1>13, <3>3
  <2>2. ASSUME NEW i \in 1..n PROVE b[i] = IF i \in F THEN b[i - 1] + Le!Fundings[i] ELSE b[i - 1]
    <3>1. i \in F <=> i \in taken /\ Counted(i)
      BY <1>5 DEF OfKind, Counted
    <3> HIDE DEF F
    <3> QED BY <1>15, <2>1, <3>1
  <2>3. F \in SUBSET (1..n) /\ b[0] = 0
    <3>1. F \in SUBSET (1..n)
      BY <1>7 DEF OfKind
    <3>2. b[0] = 0
      BY <1>0, <1>3, <1>14
    <3> QED BY <3>1, <3>2
  <2> HIDE DEF F
  <2>4. AddsUp(n, Le!Fundings, F, b)
    BY <2>2, <2>3 DEF AddsUp
  <2>5. b[n] = Sum(Le!Fundings, F)
    BY <1>0, <1>6, <2>3, <2>4, RunningSum
  <2>6. q.funding = Sum(Le!Fundings, F)
    BY <1>0, <1>1, <1>14, <2>5
  <2> QED BY <1>10, <1>11, <1>12, <1>16, <2>6, <1>1, <1>2, <1>0 DEF F
<1>17. CASE Telling(taken) = {}
  <2> DEFINE F == OfKind(taken, "TRADE_CLOSED")
  <2>1. ASSUME NEW i \in taken, Counted(i) PROVE Le!Fundings[i] = 0
    <3>1. ~TellsFunding(i)
      BY <1>17, <2>1 DEF Telling, OfKind, Counted
    <3> QED BY <1>6, <1>7, <3>1 DEF TellsFunding, Le!Amount
  <2>2. ASSUME NEW i \in 1..n PROVE b[i] = IF i \in F THEN b[i - 1] + Le!Fundings[i] ELSE b[i - 1]
    <3>1. ~a[i - 1].seen
      BY <1>7, <1>13, <1>17
    <3>2. i \in F <=> i \in taken /\ Kind(i) = "TRADE_CLOSED"
      BY DEF OfKind
    <3>3. Kind(i) = "TRADE_CLOSED" => ~Counted(i)
      BY DEF Counted
    <3>4. b[i - 1] \in Int
      BY <1>7
    <3> HIDE DEF F
    <3> QED BY <1>15, <2>1, <3>1, <3>2, <3>3, <3>4
  <2>3. F \in SUBSET (1..n) /\ b[0] = 0
    <3>1. F \in SUBSET (1..n)
      BY <1>7 DEF OfKind
    <3>2. b[0] = 0
      BY <1>0, <1>3, <1>14
    <3> QED BY <3>1, <3>2
  <2> HIDE DEF F
  <2>4. AddsUp(n, Le!Fundings, F, b)
    BY <2>2, <2>3 DEF AddsUp
  <2>5. b[n] = Sum(Le!Fundings, F)
    BY <1>0, <1>6, <2>3, <2>4, RunningSum
  <2>6. q.funding = Sum(Le!Fundings, F)
    BY <1>0, <1>1, <1>14, <2>5
  <2> QED BY <1>10, <1>11, <1>12, <1>17, <2>6, <1>1, <1>2, <1>0 DEF F
<1> QED BY <1>16, <1>17

LEMMA RunIsReplayed == LedgerInv => Le!ReplayReproducesARun
<1> SUFFICES ASSUME LedgerTypes, NEW r \in LedgerRuns \ {NoRun},
                    Le!Regular(Le!Chosen(r)), Le!Flat(r)
             PROVE  /\ Le!ReplayEqual(r)
                    /\ Le!ReplayEvents(Le!Chosen(r)).pnl = Le!RealizedPnl(r)
  BY DEF LedgerInv, Le!ReplayReproducesARun
<1>0. PICK n \in Nat : n = Len(events) /\ DOMAIN events = 1..n
  BY RowsTyped
<1>1. PICK T : T = Le!Chosen(r) /\ T = {i \in 1..n : events[i].run = r}
  <2>1. r # None
    BY LedgerGiven DEF Le!LedgerAssumption
  <2> QED BY <1>0, <2>1 DEF Le!Chosen
<1>2. T \in SUBSET (1..Len(events)) /\ Le!Regular(T)
  BY <1>0, <1>1
<1>3. PICK q : q = Le!ReplayEvents(T)
  OBVIOUS
<1>4. /\ q.fees = Sum(Le!FeesPaid, OfKind(T, "FILL_OBSERVED"))
      /\ q.pnl = Sum(Le!Pnls, OfKind(T, "TRADE_CLOSED"))
      /\ q.funding = IF Telling(T) # {}
                     THEN Sum(Le!Fundings, OfKind(T, "FILL_OBSERVED"))
                     ELSE Sum(Le!Fundings, OfKind(T, "TRADE_CLOSED"))
      /\ q.dispositions \in [Le!Statuses -> Int]
      /\ \A d \in Le!Statuses : q.dispositions[d] = Cardinality(Ending(T, d))
  BY <1>2, <1>3, ReplayComesTo
<1>5. ASSUME NEW i PROVE Le!InScope(events[i], r) <=> events[i].run = r
  BY LedgerGiven DEF Le!InScope, Le!Scope, Le!LedgerAssumption
<1>6. \A kind : Le!Of(kind, r) = OfKind(T, kind)
  BY <1>0, <1>1, <1>5 DEF Le!Of, OfKind, Kind
<1>7. q.fees = Le!Fees(r) /\ q.pnl = Le!RealizedPnl(r)
  BY <1>4, <1>6, LeSum DEF Le!Fees, Le!RealizedPnl
<1>8. q.funding = Le!Funding(r)
  <2>1. (\E i \in Le!Of("FILL_OBSERVED", r) : events[i].payload.funding # None) <=> Telling(T) # {}
    BY <1>6 DEF Telling, TellsFunding
  <2> QED BY <1>4, <1>6, <2>1, LeSum DEF Le!Funding
<1>9. q.dispositions = Le!DispositionCounts(r)
  <2>1. ASSUME NEW d \in Le!Statuses
        PROVE  {i \in DOMAIN events : Le!InScope(events[i], r) /\ events[i].payload.disposition = d}
                 = Ending(T, d)
    <3>1. \A i \in T : events[i].payload.disposition = d => Kind(i) = "CYCLE_TERMINAL"
      BY <1>2, <2>1 DEF Le!Regular, Kind
    <3> QED BY <1>0, <1>1, <1>5, <3>1 DEF Ending
  <2>2. Le!DispositionCounts(r) =
          [d \in Le!Statuses |->
             Cardinality({i \in DOMAIN events : Le!InScope(events[i], r)
                                                /\ events[i].payload.disposition = d})]
    BY LeCount, Zenon DEF Le!DispositionCounts, Le!Quantify
  <2> QED BY <1>4, <2>1, <2>2
<1> QED BY <1>1, <1>3, <1>7, <1>8, <1>9 DEF Le!ReplayEqual, Le!Flat

-----------------------------------------------------------------------------
(* The paper exchange: whatever fills, what the position holds changes by    *)
(* the fill, and the funding billed is neither lost nor doubled.             *)
Quotations == [bid : Nat, ask : Nat, mark : Nat]
Closed == [net : Int, fees : Int, costs : Int, funding : Int]
Filled == [size : Int, cash : Int, fees : Int, costs : Int, flipped : BOOLEAN]
Accounts == [position : Ex!Positions \union {None}, closed : Closed, filled : Filled]

HeldOf(p) == IF p = None THEN 0 ELSE Ex!Direction(p.side) * p.size
FundingIn(a) == a.closed.funding + IF a.position = None THEN 0 ELSE a.position.funding
CostsIn(a) == a.closed.costs + IF a.position = None THEN 0 ELSE a.position.costs
Balanced(a, billed) ==
  /\ HeldOf(a.position) = a.filled.size
  /\ FundingIn(a) = billed
  /\ ~a.filled.flipped => CostsIn(a) = a.filled.costs

PlacedOrders ==
  {o \in [side : Ex!Sides, size : Nat, price : Int \union {None}, status : Ex!Statuses, filled : Nat] :
     /\ o.filled <= o.size
     /\ o.status \in Ex!Resting => o.filled < o.size /\ o.price \in Int}

(* What may become of an order. *)
MovesOn(o, q) ==
  /\ o.status \notin Ex!Resting => q = o
  /\ o.filled <= q.filled
  /\ o.status = "PARTIALLY_FILLED" => q.status # "NEW"

ExchangeInv ==
  /\ orders \in Seq(PlacedOrders)
  /\ Ex!Account \in Accounts
  /\ quote \in Quotations \union {None}
  /\ lastSequence \in 0..MaxSequence
  /\ funding \in Int
  /\ Balanced(Ex!Account, funding)

(* Unless the fill flips the position, its costs are charged once: what the  *)
(* closed trades bear and what goes on with the position add up.             *)
CostsGoOn(a, q) ==
  ~q.filled.flipped =>
    ~a.filled.flipped /\ CostsIn(q) = CostsIn(a) + (q.filled.costs - a.filled.costs)

LEMMA ShareOfAll ==
  ASSUME NEW f \in Int, NEW s \in Nat \ {0}
  PROVE  Ex!Share(f, s, s) = f
<1>1. PICK q \in Int : q = (f * s) \div s /\ q * s <= f * s /\ f * s < q * s + s
  BY DivIs
<1>2. PICK d \in Int : d = f - q
  BY <1>1
<1>3. d * s >= 0 /\ d * s < s
  <2>1. (f - q) * s = f * s - q * s /\ (f - q) * s >= 0 /\ (f - q) * s < s
    BY <1>1
  <2> QED BY <1>2, <2>1
<1>4. d = 0
  <2>1. d >= 1 => d * s >= s
    BY <1>2
  <2>2. d <= -1 => d * s <= -s
    BY <1>2
  <2> QED BY <1>2, <1>3, <2>1, <2>2
<1> QED BY <1>1, <1>2, <1>4 DEF Ex!Share

LEMMA PricesAre ==
  ASSUME NEW m \in Quotations \union {None}, NEW side \in Ex!Sides, NEW price \in Int
  PROVE  /\ Ex!Mark(m, price) \in Int /\ Ex!Executable(m, side, price) \in Int
         /\ Ex!MarketPrice(m, side) \in Int
         /\ \A n \in Nat : Ex!CostOf(m, side, n, price) \in Int /\ Ex!Fee(n * price) \in Int
<1>1. /\ DefaultPrice \in Int /\ FeePart \in Nat \ {0} /\ SlipPart \in Nat \ {0}
      /\ m # None => m.bid \in Int /\ m.ask \in Int /\ m.mark \in Int
  BY ExchangeGiven DEF Ex!ExchangeAssumption, Quotations
<1>2. \A x \in Int : Ex!Mark(m, x) \in Int /\ Ex!Executable(m, side, x) \in Int
  BY <1>1 DEF Ex!Mark, Ex!Executable
<1>3. \A x, y \in Int : Ex!Distance(x, y) \in Int
  BY DEF Ex!Distance
<1>4. Ex!MarketPrice(m, side) \in Int
  <2>1. PICK x \in Int : x = Ex!Executable(m, side, DefaultPrice)
    BY <1>1, <1>2
  <2>2. PICK y \in Int : y = x \div SlipPart
    BY <1>1
  <2>3. Ex!Direction(side) \in Int
    BY DEF Ex!Direction
  <2> QED BY <2>1, <2>2, <2>3 DEF Ex!MarketPrice
<1>5. ASSUME NEW n \in Nat PROVE Ex!CostOf(m, side, n, price) \in Int
  <2>1. PICK x \in Int : x = Ex!Executable(m, side, price)
    BY <1>2
  <2>2. PICK y \in Int : y = Ex!Distance(x, Ex!Mark(m, price))
    BY <1>2, <1>3
  <2>3. PICK z \in Int : z = Ex!Distance(price, x)
    BY <1>3
  <2> QED BY <2>1, <2>2, <2>3 DEF Ex!CostOf
<1>6. ASSUME NEW n \in Nat PROVE Ex!Fee(n * price) \in Int
  <2>1. PICK x \in Int : x = n * price
    OBVIOUS
  <2> QED BY <1>1, <2>1 DEF Ex!Fee
<1> QED BY <1>2, <1>4, <1>5, <1>6

LEMMA FillKeeps ==
  ASSUME NEW a \in Accounts, NEW m \in Quotations \union {None}, NEW side \in Ex!Sides,
         NEW much \in Nat \ {0}, NEW price \in Int, NEW q, q = Ex!Fill(a, m, side, much, price)
  PROVE  /\ q \in Accounts
         /\ HeldOf(q.position) = HeldOf(a.position) + Ex!Direction(side) * much
         /\ q.filled.size = a.filled.size + Ex!Direction(side) * much
         /\ FundingIn(q) = FundingIn(a)
         /\ CostsGoOn(a, q)
<1> DEFINE p == a.position
<1>1. PICK fee \in Int, costs \in Int, mark \in Int, d \in Int :
        /\ fee = Ex!Fee(much * price) /\ costs = Ex!CostOf(m, side, much, price)
        /\ mark = Ex!Mark(m, price) /\ d = Ex!Direction(side)
  <2>1. much \in Nat /\ Ex!Direction(side) \in Int
    BY DEF Ex!Direction
  <2> QED BY <2>1, PricesAre
<1>2. PICK c \in Closed, f \in Filled : c = a.closed /\ f = a.filled
  BY DEF Accounts
<1>3. /\ f.size \in Int /\ f.cash \in Int /\ f.fees \in Int /\ f.costs \in Int /\ f.flipped \in BOOLEAN
      /\ c.net \in Int /\ c.fees \in Int /\ c.costs \in Int /\ c.funding \in Int
  BY <1>2 DEF Closed, Filled
<1>4. PICK s2 \in Int, x2 \in Int, e2 \in Int, k2 \in Int :
        /\ s2 = f.size + d * much /\ x2 = f.cash - d * much * price
        /\ e2 = f.fees + fee /\ k2 = f.costs + costs
  <2>1. d * much \in Int
    OBVIOUS
  <2>2. d * much * price \in Int
    BY <2>1
  <2> QED BY <1>3, <2>1, <2>2, SMTT(30)
<1>5. /\ q.filled \in Filled /\ q.filled.size = f.size + d * much
      /\ q.filled.costs = f.costs + costs
      /\ ~q.filled.flipped => ~f.flipped /\ ~(Ex!Against(p, side) /\ much > p.size)
  <2> DEFINE b == f.flipped \/ (Ex!Against(p, side) /\ much > p.size)
  <2>1. q.filled = [size |-> s2, cash |-> x2, fees |-> e2, costs |-> k2, flipped |-> b]
    BY <1>1, <1>2, <1>4 DEF Ex!Fill
  <2>2. b \in BOOLEAN
    BY <1>3 DEF Ex!Against
  <2>3. ~b => ~f.flipped /\ ~(Ex!Against(p, side) /\ much > p.size)
    OBVIOUS
  <2> HIDE DEF b
  <2> QED BY <1>4, <2>1, <2>2, <2>3 DEF Filled
<1>6. q.position = Ex!PositionAfter(m, p, side, much, price, costs)
  BY <1>1 DEF Ex!Fill
<1>7. q.closed = IF Ex!Against(p, side)
                 THEN Ex!PlusTrade(c, Ex!Trade(m, p, Ex!Least(p.size, much), price, fee, costs))
                 ELSE c
  BY <1>1, <1>2 DEF Ex!Fill
<1>8. q = [position |-> q.position, closed |-> q.closed, filled |-> q.filled]
  BY DEF Ex!Fill
<1>9. \A x \in Ex!Positions :
        /\ x.side \in Ex!Sides /\ x.size \in Nat \ {0} /\ x.value \in Int /\ x.reference \in Int
        /\ x.costs \in Int /\ x.funding \in Int
  BY DEF Ex!Positions
<1>10. ASSUME NEW n \in Nat \ {0}, NEW x, x = Ex!Opened(m, side, n, price, costs)
       PROVE  /\ x \in Ex!Positions /\ x.side = side /\ x.size = n /\ x.funding = 0
              /\ x.costs = costs
  <2>1. price * n \in Int /\ Ex!Mark(m, price) * n \in Int
    BY <1>1
  <2> QED BY <1>10, <2>1 DEF Ex!Opened, Ex!Positions, Ex!Levels
<1>11. \A x \in Ex!Positions : x # None
  BY ExchangeGiven DEF Ex!ExchangeAssumption
<1>12. CASE p = None
  <2>1. q.position = Ex!Opened(m, side, much, price, costs)
    BY <1>6, <1>12 DEF Ex!PositionAfter
  <2>2. q.closed = c
    BY <1>7, <1>12 DEF Ex!Against
  <2>3. /\ q.position \in Ex!Positions /\ q.position.side = side /\ q.position.size = much
        /\ q.position.funding = 0 /\ q.position.costs = costs /\ q.position # None
    BY <1>10, <1>11, <2>1
  <2>4. q \in Accounts
    BY <1>5, <1>8, <2>2, <2>3 DEF Accounts
  <2>5. CostsGoOn(a, q)
    BY <1>2, <1>3, <1>5, <1>12, <2>2, <2>3 DEF CostsGoOn, CostsIn
  <2> QED BY <1>1, <1>2, <1>3, <1>5, <1>12, <2>2, <2>3, <2>4, <2>5 DEF HeldOf, FundingIn
<1>13. CASE p # None /\ p.side = side
  <2>0. p \in Ex!Positions
    BY <1>13 DEF Accounts
  <2>1. q.position = Ex!Enlarged(m, p, much, price, costs)
    BY <1>6, <1>13 DEF Ex!PositionAfter, Ex!Against
  <2>2. q.closed = c
    BY <1>7, <1>13 DEF Ex!Against
  <2>3. PICK n \in Nat \ {0}, v \in Int, r \in Int, k \in Int :
          /\ n = p.size + much /\ v = p.value + price * much /\ r = p.reference + mark * much
          /\ k = p.costs + costs
    <3>1. PICK x \in Int, y \in Int : x = price * much /\ y = mark * much
      OBVIOUS
    <3>2. PICK ps \in Nat \ {0} : ps = p.size
      BY <1>9, <2>0
    <3>3. ps + much \in Nat \ {0}
      OBVIOUS
    <3>4. p.value + x \in Int /\ p.reference + y \in Int /\ p.costs + costs \in Int
      BY <1>9, <2>0
    <3> QED BY <3>1, <3>2, <3>3, <3>4
  <2>4. q.position = [p EXCEPT !.size = n, !.value = v, !.reference = r, !.costs = k]
    BY <1>1, <2>1, <2>3 DEF Ex!Enlarged
  <2>5. /\ q.position \in Ex!Positions /\ q.position.side = side /\ q.position.size = n
        /\ q.position.funding = p.funding /\ q.position.costs = k /\ q.position # None
    BY <1>11, <1>13, <2>0, <2>4 DEF Ex!Positions
  <2>6. q \in Accounts
    BY <1>5, <1>8, <2>2, <2>5 DEF Accounts
  <2>7. d * n = d * p.size + d * much
    BY <1>9, <2>0, <2>3
  <2>8. CostsGoOn(a, q)
    <3>1. p.costs \in Int
      BY <1>9, <2>0
    <3> QED BY <1>2, <1>3, <1>5, <1>13, <2>2, <2>3, <2>5, <3>1 DEF CostsGoOn, CostsIn
  <2> QED BY <1>1, <1>2, <1>5, <1>13, <2>2, <2>5, <2>6, <2>7, <2>8 DEF HeldOf, FundingIn
<1>14. CASE p # None /\ p.side # side
  <2>0. p \in Ex!Positions /\ Ex!Direction(p.side) = -d
    BY <1>1, <1>9, <1>14 DEF Accounts, Ex!Direction, Ex!Sides
  <2>1. PICK closes \in Nat \ {0}, ps \in Nat \ {0} :
          ps = p.size /\ closes = Ex!Least(p.size, much) /\ closes <= ps /\ closes <= much
          /\ (much <= ps => closes = much) /\ (much > ps => closes = ps)
    BY <1>9, <2>0 DEF Ex!Least
  <2>2. PICK pf \in Int, sf \in Int, sv \in Int, sr \in Int, sc \in Int :
          /\ pf = p.funding /\ sf = Ex!Share(pf, closes, ps)
          /\ sv = Ex!Share(p.value, closes, ps) /\ sr = Ex!Share(p.reference, closes, ps)
          /\ sc = Ex!Share(p.costs, closes, ps)
    <3>1. p.funding \in Int /\ p.value \in Int /\ p.reference \in Int /\ p.costs \in Int
      BY <1>9, <2>0
    <3>2. \A x \in Int : Ex!Share(x, closes, ps) \in Int
      <4>1. ASSUME NEW x \in Int PROVE Ex!Share(x, closes, ps) \in Int
        <5>1. x * closes \in Int
          OBVIOUS
        <5> QED BY <5>1 DEF Ex!Share
      <4> QED BY <4>1
    <3> QED BY <3>1, <3>2
  <2>3. /\ q.closed \in Closed /\ q.closed.funding = c.funding + sf
        /\ q.closed.costs = c.costs + (sc + costs)
    <3>1. PICK t : t = Ex!Trade(m, p, closes, price, fee, costs)
      OBVIOUS
    <3>2. q.closed = Ex!PlusTrade(c, t)
      BY <1>7, <1>14, <2>1, <3>1 DEF Ex!Against
    <3>3. PICK gross \in Int, fees \in Int :
            gross = Ex!Direction(p.side) * (mark * closes - sr) /\ fees = Ex!Fee(sv) + fee
      <4>1. mark * closes - sr \in Int
        OBVIOUS
      <4>2. Ex!Direction(p.side) * (mark * closes - sr) \in Int
        BY <2>0, <4>1
      <4>3. Ex!Fee(sv) \in Int
        BY ExchangeGiven DEF Ex!Fee, Ex!ExchangeAssumption
      <4> QED BY <4>2, <4>3
    <3>4. t = [net |-> gross - fees - sf - (sc + costs), fees |-> fees,
               costs |-> sc + costs, funding |-> sf]
      BY <1>1, <2>1, <2>2, <3>1, <3>3 DEF Ex!Trade
    <3>5. /\ t.net \in Int /\ t.fees \in Int /\ t.costs \in Int /\ t.funding = sf
          /\ t.costs = sc + costs
      BY <3>4
    <3> QED BY <1>3, <2>2, <3>2, <3>5 DEF Ex!PlusTrade, Closed
  <2>4. CASE much < ps
    <3>1. closes = much /\ much # p.size /\ much <= p.size
      BY <2>1, <2>4
    <3>2. q.position = Ex!Remainder(p, closes)
      BY <1>6, <1>14, <3>1 DEF Ex!PositionAfter, Ex!Against
    <3>3. PICK n \in Nat \ {0}, v \in Int, r \in Int, k \in Int, g \in Int :
            /\ n = ps - closes /\ v = p.value - sv /\ r = p.reference - sr /\ k = p.costs - sc
            /\ g = pf - sf
      BY <1>9, <2>0, <2>1, <2>4, <3>1, SMTT(30)
    <3>4. q.position = [p EXCEPT !.size = n, !.value = v, !.reference = r, !.costs = k, !.funding = g]
      BY <2>1, <2>2, <3>1, <3>2, <3>3 DEF Ex!Remainder
    <3>5. /\ q.position \in Ex!Positions /\ q.position.side = p.side /\ q.position.size = n
          /\ q.position.funding = g /\ q.position.costs = k /\ q.position # None
      BY <1>11, <2>0, <3>4 DEF Ex!Positions
    <3>6. q \in Accounts
      BY <1>5, <1>8, <2>3, <3>5 DEF Accounts
    <3>7. (-d) * n = (-d) * ps + d * much
      BY <3>1, <3>3
    <3>8. HeldOf(q.position) = HeldOf(p) + d * much
      BY <1>14, <2>0, <2>1, <3>5, <3>7 DEF HeldOf
    <3>9. FundingIn(q) = FundingIn(a)
      BY <1>2, <1>3, <1>14, <2>2, <2>3, <3>3, <3>5 DEF FundingIn
    <3>10. CostsGoOn(a, q)
      <4>1. p.costs \in Int
        BY <1>9, <2>0
      <4> QED BY <1>2, <1>3, <1>5, <1>14, <2>3, <3>3, <3>5, <4>1 DEF CostsGoOn, CostsIn
    <3> QED BY <1>1, <1>2, <1>5, <3>6, <3>8, <3>9, <3>10
  <2>5. CASE much = ps
    <3>1. closes = much /\ much = p.size /\ much <= p.size
      BY <2>1, <2>5
    <3>2. q.position = None
      BY <1>6, <1>14, <3>1 DEF Ex!PositionAfter, Ex!Against, Ex!Remainder
    <3>3. sf = pf /\ p.costs \in Int /\ sc = p.costs
      <4>1. p.costs \in Int
        BY <1>9, <2>0
      <4> QED BY <2>1, <2>2, <2>5, <3>1, <4>1, ShareOfAll
    <3>4. q \in Accounts
      BY <1>5, <1>8, <2>3, <3>2 DEF Accounts
    <3>5. 0 = (-d) * ps + d * much
      BY <2>5
    <3>6. HeldOf(q.position) = HeldOf(p) + d * much
      BY <1>14, <2>0, <2>1, <3>2, <3>5 DEF HeldOf
    <3>7. FundingIn(q) = FundingIn(a)
      BY <1>2, <1>3, <1>14, <2>2, <2>3, <3>2, <3>3 DEF FundingIn
    <3>8. CostsGoOn(a, q)
      <4>1. CostsIn(q) = c.costs + (sc + costs) + 0
        BY <2>3, <3>2 DEF CostsIn
      <4>2. CostsIn(a) = c.costs + sc
        BY <1>2, <1>14, <3>3 DEF CostsIn
      <4> QED BY <1>2, <1>3, <1>5, <4>1, <4>2 DEF CostsGoOn
    <3> QED BY <1>1, <1>2, <1>5, <3>4, <3>6, <3>7, <3>8
  <2>6. CASE much > ps
    <3>1. closes = ps /\ ~(much <= p.size)
      BY <2>1, <2>6
    <3>2. PICK n \in Nat \ {0} : n = much - p.size
      BY <2>1, <2>6
    <3>3. q.position = Ex!Opened(m, side, n, price, costs)
      BY <1>6, <1>14, <3>1, <3>2 DEF Ex!PositionAfter, Ex!Against
    <3>4. /\ q.position \in Ex!Positions /\ q.position.side = side /\ q.position.size = n
          /\ q.position.funding = 0 /\ q.position # None
      BY <1>10, <1>11, <3>3
    <3>5. sf = pf
      BY <2>2, <3>1, ShareOfAll
    <3>6. q \in Accounts
      BY <1>5, <1>8, <2>3, <3>4 DEF Accounts
    <3>7. d * n = (-d) * ps + d * much
      BY <2>1, <3>2
    <3>8. HeldOf(q.position) = HeldOf(p) + d * much
      BY <1>1, <1>14, <2>0, <2>1, <3>4, <3>7 DEF HeldOf
    <3>9. FundingIn(q) = FundingIn(a)
      BY <1>2, <1>3, <1>14, <2>2, <2>3, <3>4, <3>5 DEF FundingIn
    <3>10. CostsGoOn(a, q)
      BY <1>5, <1>14, <2>1, <2>6 DEF CostsGoOn, Ex!Against
    <3> QED BY <1>1, <1>2, <1>5, <3>6, <3>8, <3>9, <3>10
  <2> QED BY <2>1, <2>4, <2>5, <2>6
<1> QED BY <1>12, <1>13, <1>14

Moved(a, q, side, much) ==
  /\ q \in Accounts
  /\ HeldOf(q.position) = HeldOf(a.position) + Ex!Direction(side) * much
  /\ q.filled.size = a.filled.size + Ex!Direction(side) * much
  /\ FundingIn(q) = FundingIn(a)
  /\ CostsGoOn(a, q)

LEMMA FillMoves ==
  \A a \in Accounts, m \in Quotations \union {None}, side \in Ex!Sides, much \in Nat \ {0}, price \in Int :
    Moved(a, Ex!Fill(a, m, side, much, price), side, much)
<1>1. ASSUME NEW a \in Accounts, NEW m \in Quotations \union {None}, NEW side \in Ex!Sides,
             NEW much \in Nat \ {0}, NEW price \in Int
      PROVE  Moved(a, Ex!Fill(a, m, side, much, price), side, much)
  <2>1. PICK q : q = Ex!Fill(a, m, side, much, price)
    OBVIOUS
  <2>2. Moved(a, q, side, much)
    BY <2>1, FillKeeps DEF Moved
  <2> QED BY <2>1, <2>2
<1> QED BY <1>1

LEMMA FillBalances ==
  ASSUME NEW a \in Accounts, NEW m \in Quotations \union {None}, NEW side \in Ex!Sides,
         NEW much \in Nat \ {0}, NEW price \in Int, NEW billed, Balanced(a, billed)
  PROVE  /\ Ex!Fill(a, m, side, much, price) \in Accounts
         /\ Balanced(Ex!Fill(a, m, side, much, price), billed)
<1>1. PICK q : q = Ex!Fill(a, m, side, much, price)
  OBVIOUS
<1>2. Moved(a, q, side, much)
  BY <1>1, FillMoves, Zenon
<1>3. q \in Accounts /\ Balanced(q, billed)
  <2>1. /\ q \in Accounts /\ FundingIn(q) = billed
        /\ HeldOf(q.position) = q.filled.size
    BY <1>2 DEF Moved, Balanced
  <2>2. a.filled.costs \in Int /\ q.filled.costs \in Int
    BY <2>1 DEF Accounts, Filled
  <2>3. ~q.filled.flipped => CostsIn(q) = q.filled.costs
    <3>1. ~q.filled.flipped =>
            ~a.filled.flipped /\ CostsIn(q) = CostsIn(a) + (q.filled.costs - a.filled.costs)
      BY <1>2 DEF Moved, CostsGoOn
    <3>2. ~a.filled.flipped => CostsIn(a) = a.filled.costs
      BY DEF Balanced
    <3> QED BY <2>2, <3>1, <3>2
  <2> QED BY <2>1, <2>3 DEF Balanced
<1> QED BY <1>1, <1>3

(* Spread and slippage, with nothing open, if no order has flipped. *)
ChargedOnce == held = None /\ ~filled.flipped => closed.costs = filled.costs

LEMMA ExchangeInit == Ex!Init => ExchangeInv
<1>1. ASSUME Ex!Init PROVE ExchangeInv
  <2>1. orders \in Seq(PlacedOrders)
    BY <1>1 DEF Ex!Init
  <2>2. Ex!Account \in Accounts /\ Balanced(Ex!Account, funding)
    BY <1>1 DEF Ex!Init, Ex!Account, Accounts, Closed, Filled, Balanced, HeldOf, FundingIn, CostsIn
  <2>3. quote \in Quotations \union {None} /\ lastSequence \in 0..MaxSequence /\ funding \in Int
    BY <1>1, ExchangeGiven DEF Ex!Init, Ex!ExchangeAssumption
  <2> QED BY <2>1, <2>2, <2>3 DEF ExchangeInv
<1> QED BY <1>1

LEMMA ExchangeIsTyped == ExchangeInv => Ex!TypeOK /\ Ex!BooksBalance
<1> SUFFICES ASSUME ExchangeInv PROVE Ex!TypeOK /\ Ex!BooksBalance
  OBVIOUS
<1>1. \A i \in DOMAIN orders : orders[i] \in PlacedOrders
  BY DEF ExchangeInv
<1>2. \A o \in PlacedOrders : o.status \in Ex!Statuses /\ 0 <= o.filled /\ o.filled <= o.size
  BY DEF PlacedOrders
<1>3. held \in Ex!Positions \union {None}
  BY DEF ExchangeInv, Accounts, Ex!Account
<1>4. quote \in Quotations \union {None} /\ lastSequence \in 0..MaxSequence
  BY DEF ExchangeInv
<1>5. Ex!TypeOK
  BY <1>1, <1>2, <1>3, <1>4 DEF Ex!TypeOK, Quotations
<1>6. Ex!BooksBalance
  BY DEF ExchangeInv, Balanced, HeldOf, FundingIn, CostsIn, Ex!Account, Ex!BooksBalance, Ex!Held, Ex!OpenFunding
<1> QED BY <1>5, <1>6

(* What a step leaves: its orders, one by one, and its account. *)
LEMMA OrdersMoved ==
  ASSUME NEW r \in Seq(PlacedOrders), NEW s \in Seq(PlacedOrders), orders = r, orders' = s,
         Len(r) <= Len(s), \A i \in 1..Len(r) : MovesOn(r[i], s[i])
  PROVE  Ex!OrdersOnlyMoveOn
BY DEF Ex!OrdersOnlyMoveOn, MovesOn

LEMMA AccountSet ==
  ASSUME NEW a \in Accounts, Ex!SetAccount(a)
  PROVE  Ex!Account' = a
BY DEF Ex!SetAccount, Ex!Account, Accounts

LEMMA OrderPlaced ==
  ASSUME NEW r \in Seq(PlacedOrders), NEW o \in PlacedOrders, orders = r, orders' = Append(r, o)
  PROVE  orders' \in Seq(PlacedOrders) /\ Ex!OrdersOnlyMoveOn
<1>1. PICK s \in Seq(PlacedOrders) :
        s = orders' /\ Len(r) <= Len(s) /\ \A i \in 1..Len(r) : s[i] = r[i]
  OBVIOUS
<1>2. \A i \in 1..Len(r) : r[i] \in PlacedOrders /\ r[i].filled \in Int
  BY DEF PlacedOrders
<1>3. \A i \in 1..Len(r) : MovesOn(r[i], s[i])
  BY <1>1, <1>2 DEF MovesOn
<1> QED BY <1>1, <1>3, OrdersMoved

LEMMA OrdersStay == ExchangeInv /\ UNCHANGED orders => Ex!OrdersOnlyMoveOn
<1>1. ASSUME ExchangeInv, UNCHANGED orders PROVE Ex!OrdersOnlyMoveOn
  <2>1. PICK r \in Seq(PlacedOrders) : r = orders
    BY <1>1 DEF ExchangeInv
  <2>2. \A p \in PlacedOrders : p.filled \in Nat
    BY DEF PlacedOrders
  <2>3. \A p \in PlacedOrders : MovesOn(p, p)
    BY <2>2 DEF MovesOn
  <2>4. \A i \in 1..Len(r) : MovesOn(r[i], r[i])
    BY <2>3
  <2> QED BY <1>1, <2>1, <2>4, OrdersMoved
<1> QED BY <1>1

LEMMA SubmitStep ==
  ASSUME ExchangeInv, NEW m \in Quotations \union {None}, NEW side \in Ex!Sides, NEW much \in Nat,
         NEW limit \in Limits \union {None}, NEW reduceOnly, NEW immediate, NEW valid,
         valid => much # 0,
         Ex!SubmitAt(m, side, much, limit, reduceOnly, immediate, valid),
         quote' \in Quotations \union {None}, UNCHANGED <<lastSequence, funding>>
  PROVE  ExchangeInv' /\ Ex!OrdersOnlyMoveOn
<1> DEFINE price == IF limit = None THEN Ex!MarketPrice(m, side) ELSE limit
           taken == Ex!Order(side, much, limit, "FILLED", much)
           after == Ex!Fill(Ex!Account, m, side, much, price)
<1>0. PICK r \in Seq(PlacedOrders) : r = orders
  BY DEF ExchangeInv
<1>1. limit \in Int \union {None} /\ (limit # None => limit \in Int)
  BY ExchangeGiven DEF Ex!ExchangeAssumption
<1>2. price \in Int
  <2>1. Ex!MarketPrice(m, side) \in Int
    <3>1. 0 \in Int
      OBVIOUS
    <3> QED BY <3>1, PricesAre
  <2> QED BY <1>1, <2>1
<1>3. /\ Ex!Account \in Accounts /\ Balanced(Ex!Account, funding) /\ funding \in Int
      /\ lastSequence \in 0..MaxSequence
  BY DEF ExchangeInv
<1>4. ASSUME NEW o \in PlacedOrders, orders' = Append(orders, o), NEW a \in Accounts, Ex!Account' = a,
             Balanced(a, funding)
      PROVE  ExchangeInv' /\ Ex!OrdersOnlyMoveOn
  <2>1. orders' \in Seq(PlacedOrders) /\ Ex!OrdersOnlyMoveOn
    BY <1>0, <1>4, OrderPlaced
  <2>2. Balanced(Ex!Account, funding)'
    <3>1. /\ HeldOf(a.position) = a.filled.size /\ FundingIn(a) = funding
          /\ ~a.filled.flipped => CostsIn(a) = a.filled.costs
      BY <1>4 DEF Balanced
    <3> QED BY <1>4, <3>1 DEF Balanced, HeldOf, FundingIn, CostsIn
  <2> QED BY <1>3, <1>4, <2>1, <2>2 DEF ExchangeInv
<1>5. ASSUME NEW o \in PlacedOrders, orders' = Append(orders, o), UNCHANGED <<held, closed, filled>>
      PROVE  ExchangeInv' /\ Ex!OrdersOnlyMoveOn
  <2>1. Ex!Account' = Ex!Account
    BY <1>5 DEF Ex!Account
  <2> QED BY <1>3, <1>4, <1>5, <2>1
<1>6. \A s \in Ex!Statuses \ Ex!Resting :
        Ex!Order(side, much, limit, s, 0) \in PlacedOrders /\ taken \in PlacedOrders
  BY <1>1 DEF Ex!Order, PlacedOrders, Ex!Statuses, Ex!Resting
<1>7. CASE /\ ~(valid /\ (reduceOnly => Ex!MayReduce(side, much)))
           /\ orders' = Append(orders, Ex!Order(side, much, limit, "REJECTED", 0))
           /\ UNCHANGED <<held, closed, filled>>
  <2>1. "REJECTED" \in Ex!Statuses \ Ex!Resting
    BY DEF Ex!Statuses, Ex!Resting
  <2> QED BY <1>5, <1>6, <1>7, <2>1
<1>8. CASE /\ valid /\ ~Ex!Crosses(m, side, limit)
           /\ orders' = Append(orders, Ex!Order(side, much, limit, IF immediate THEN "EXPIRED" ELSE "NEW", 0))
           /\ UNCHANGED <<held, closed, filled>>
  <2>1. limit \in Int
    BY <1>1, <1>8 DEF Ex!Crosses
  <2>2. Ex!Order(side, much, limit, "NEW", 0) \in PlacedOrders
    BY <1>8, <2>1 DEF Ex!Order, PlacedOrders, Ex!Statuses, Ex!Resting
  <2>3. "EXPIRED" \in Ex!Statuses \ Ex!Resting
    BY DEF Ex!Statuses, Ex!Resting
  <2>4. Ex!Order(side, much, limit, "EXPIRED", 0) \in PlacedOrders
    BY <1>6, <2>3
  <2> QED BY <1>5, <1>8, <2>2, <2>4
<1>9. CASE valid /\ orders' = Append(orders, taken) /\ Ex!SetAccount(after)
  <2>1. much \in Nat \ {0}
    BY <1>9
  <2>2. PICK q : q = after
    OBVIOUS
  <2>3. PICK a \in Accounts : a = Ex!Account
    BY <1>3
  <2>4. PICK x \in Int : x = price
    BY <1>2
  <2>5. q \in Accounts /\ Balanced(q, funding)
    <3>1. q = Ex!Fill(a, m, side, much, x) /\ Balanced(a, funding)
      BY <1>3, <2>2, <2>3, <2>4
    <3> QED BY <2>1, <3>1, FillBalances
  <2>6. Ex!Account' = q
    BY <1>9, <2>2, <2>5, AccountSet
  <2>7. taken \in PlacedOrders
    <3>1. "REJECTED" \in Ex!Statuses \ Ex!Resting
      BY DEF Ex!Statuses, Ex!Resting
    <3> QED BY <1>6, <3>1
  <2> HIDE DEF taken, after
  <2> QED BY <1>4, <1>9, <2>5, <2>6, <2>7
<1> QED BY <1>7, <1>8, <1>9 DEF Ex!SubmitAt

(* A market event: the orders at rest fill one after the other, and each     *)
(* leaves what the books have to keep.                                       *)
RestedStates(billed) ==
  {acc \in [orders : Seq(PlacedOrders), account : Accounts] :
     /\ Len(acc.orders) = Len(orders)
     /\ \A i \in 1..Len(orders) : MovesOn(orders[i], acc.orders[i])
     /\ Balanced(acc.account, billed)}

FillsBy(o) ==
  IF o.status = "NEW" /\ o.size - o.filled > 1 THEN (o.size - o.filled) \div 2 ELSE o.size - o.filled
FilledIn(o) ==
  [o EXCEPT !.filled = @ + FillsBy(o),
            !.status = IF FillsBy(o) = o.size - o.filled THEN "FILLED" ELSE "PARTIALLY_FILLED"]

LEMMA OrderFills ==
  ASSUME NEW p \in PlacedOrders, NEW o \in PlacedOrders, MovesOn(p, o), o.status \in Ex!Resting
  PROVE  /\ FillsBy(o) \in Nat \ {0} /\ o.side \in Ex!Sides /\ o.price \in Int
         /\ FilledIn(o) \in PlacedOrders /\ MovesOn(p, FilledIn(o))
<1>1. PICK sz \in Nat : sz = o.size
  BY DEF PlacedOrders
<1>2. PICK done \in Nat : done = o.filled
  BY DEF PlacedOrders
<1>3. o.side \in Ex!Sides /\ o.price \in Int /\ done < sz
  BY <1>1, <1>2 DEF PlacedOrders
<1>4. PICK left \in Nat \ {0} : left = sz - done
  BY <1>3
<1>5. PICK more \in Nat \ {0} : more = FillsBy(o) /\ more <= left
  <2>1. left > 1 => left \div 2 \in Nat \ {0} /\ left \div 2 <= left
    OBVIOUS
  <2> QED BY <1>1, <1>2, <1>4, <2>1 DEF FillsBy
<1>6. PICK n \in Nat : n = done + more
  OBVIOUS
<1>7. PICK st : st = IF more = left THEN "FILLED" ELSE "PARTIALLY_FILLED"
  OBVIOUS
<1>8. n <= sz /\ st \in Ex!Statuses /\ st # "NEW" /\ (st \in Ex!Resting => n < sz)
  BY <1>4, <1>5, <1>6, <1>7 DEF Ex!Resting, Ex!Statuses
<1>9. PICK q : q = [o EXCEPT !.filled = n, !.status = st]
  OBVIOUS
<1>10. q = FilledIn(o)
  BY <1>1, <1>2, <1>4, <1>5, <1>6, <1>7, <1>9 DEF FilledIn
<1>11. /\ q \in [side : Ex!Sides, size : Nat, price : Int \union {None},
                 status : Ex!Statuses, filled : Nat]
       /\ q.filled = n /\ q.status = st /\ q.size = sz /\ q.price = o.price
  BY <1>1, <1>8, <1>9 DEF PlacedOrders
<1>12. q \in PlacedOrders
  BY <1>3, <1>8, <1>11 DEF PlacedOrders
<1>13. p.filled \in Nat
  BY DEF PlacedOrders
<1>14. p.status \in Ex!Resting /\ p.filled <= done
  BY <1>2 DEF MovesOn
<1>15. MovesOn(p, q)
  BY <1>6, <1>8, <1>11, <1>13, <1>14 DEF MovesOn
<1> QED BY <1>3, <1>5, <1>10, <1>12, <1>15

LEMMA RestStep ==
  ASSUME orders \in Seq(PlacedOrders), NEW billed \in Int, NEW m \in Quotations,
         NEW acc \in RestedStates(billed), NEW i \in 1..Len(orders)
  PROVE  Ex!FillResting(m, acc, i) \in RestedStates(billed)
<1>1. PICK r \in Seq(PlacedOrders), s \in Seq(PlacedOrders), a \in Accounts :
        /\ r = orders /\ s = acc.orders /\ a = acc.account /\ Len(s) = Len(r)
        /\ \A j \in 1..Len(r) : MovesOn(r[j], s[j])
        /\ Balanced(a, billed)
  BY DEF RestedStates
<1>2. PICK o \in PlacedOrders, p \in PlacedOrders : o = s[i] /\ p = r[i] /\ MovesOn(p, o)
  BY <1>1
<1>3. CASE o.status \notin Ex!Resting \/ ~Ex!Crosses(m, o.side, o.price)
  <2>1. Ex!FillResting(m, acc, i) = acc
    BY <1>1, <1>2, <1>3 DEF Ex!FillResting
  <2> QED BY <2>1
<1>4. CASE o.status \in Ex!Resting /\ Ex!Crosses(m, o.side, o.price)
  <2>1. /\ FillsBy(o) \in Nat \ {0} /\ o.side \in Ex!Sides /\ o.price \in Int
        /\ FilledIn(o) \in PlacedOrders /\ MovesOn(p, FilledIn(o))
    BY <1>2, <1>4, OrderFills
  <2>2. PICK f \in PlacedOrders : f = FilledIn(o) /\ MovesOn(p, f)
    BY <2>1
  <2>3. PICK s2 \in Seq(PlacedOrders) :
          /\ s2 = [s EXCEPT ![i] = f] /\ Len(s2) = Len(s)
          /\ \A j \in 1..Len(s) : s2[j] = IF j = i THEN f ELSE s[j]
    <3>0. i \in 1..Len(s)
      BY <1>1
    <3>1. [s EXCEPT ![i] = f] \in Seq(PlacedOrders)
      BY <3>0
    <3>2. /\ Len([s EXCEPT ![i] = f]) = Len(s)
          /\ \A j \in 1..Len(s) : [s EXCEPT ![i] = f][j] = IF j = i THEN f ELSE s[j]
      OBVIOUS
    <3> QED BY <3>1, <3>2
  <2>4. \A j \in 1..Len(r) : MovesOn(r[j], s2[j])
    BY <1>1, <1>2, <2>2, <2>3
  <2>5. PICK q : q = Ex!Fill(a, m, o.side, FillsBy(o), o.price)
    OBVIOUS
  <2>6. q \in Accounts /\ Balanced(q, billed)
    <3>1. m \in Quotations \union {None} /\ Balanced(a, billed)
      BY <1>1
    <3> QED BY <2>1, <2>5, <3>1, FillBalances
  <2>7. Ex!FillResting(m, acc, i) = [orders |-> s2, account |-> q]
    <3>1. Ex!FillResting(m, acc, i) =
            [orders |-> [acc.orders EXCEPT
                           ![i].filled = @ + FillsBy(o),
                           ![i].status = IF FillsBy(o) = o.size - o.filled THEN "FILLED" ELSE "PARTIALLY_FILLED"],
             account |-> Ex!Fill(acc.account, m, o.side, FillsBy(o), o.price)]
      BY <1>1, <1>2, <1>4 DEF Ex!FillResting, FillsBy
    <3>2. [acc.orders EXCEPT
             ![i].filled = @ + FillsBy(o),
             ![i].status = IF FillsBy(o) = o.size - o.filled THEN "FILLED" ELSE "PARTIALLY_FILLED"] = s2
      BY <1>1, <1>2, <2>2, <2>3 DEF FilledIn
    <3> QED BY <1>1, <2>5, <3>1, <3>2
  <2>8. Len(s2) = Len(orders)
    BY <1>1, <2>3
  <2>9. PICK z : z = [orders |-> s2, account |-> q]
    OBVIOUS
  <2>10. z \in [orders : Seq(PlacedOrders), account : Accounts] /\ z.orders = s2 /\ z.account = q
    BY <2>6, <2>9
  <2>11. \A j \in 1..Len(orders) : MovesOn(orders[j], z.orders[j])
    BY <1>1, <2>4, <2>10
  <2>12. z \in RestedStates(billed)
    BY <2>6, <2>8, <2>10, <2>11 DEF RestedStates
  <2> QED BY <2>7, <2>9, <2>12
<1> QED BY <1>3, <1>4

LEMMA AllRest ==
  ASSUME orders \in Seq(PlacedOrders), NEW billed \in Int, NEW m \in Quotations,
         NEW base \in RestedStates(billed)
  PROVE  Ex!FoldLeft(LAMBDA acc, i : Ex!FillResting(m, acc, i), base, [i \in DOMAIN orders |-> i])
           \in RestedStates(billed)
<1> DEFINE places == [i \in DOMAIN orders |-> i]
           top(T) == CHOOSE x \in T : \A y \in T : x >= y
           Is(f) == f = [T \in SUBSET (DOMAIN places) |->
                           IF T = {} THEN base
                           ELSE Ex!FillResting(m, f[T \ {top(T)}], places[top(T)])]
           h == CHOOSE f : Is(f)
           R == RestedStates(billed)
           last == Ex!FoldLeft(LAMBDA acc, i : Ex!FillResting(m, acc, i), base, places)
<1>1. PICK n \in Nat : n = Len(orders) /\ DOMAIN orders = 1..n
  OBVIOUS
<1>2. DOMAIN places = 1..n /\ \A i \in 1..n : places[i] = i
  BY <1>1
<1>3. last = h[DOMAIN places]
  BY Zenon DEF Ex!FoldLeft, Ex!MapThenFoldSet, Ex!Max
<1>4. \A i \in 1..n, s \in R : Ex!FillResting(m, s, i) \in R
  BY <1>1, RestStep
<1> HIDE DEF R
<1>5. PICK step : step = [i \in 1..n |-> [s \in R |-> Ex!FillResting(m, s, i)]]
  OBVIOUS
<1>6. /\ step \in [1..n -> [R -> R]]
      /\ \A i \in 1..n, s \in R : step[i][s] = Ex!FillResting(m, s, i)
  BY <1>4, <1>5
<1>7. FoldsFrom(n, R, base, step)
  BY <1>6 DEF FoldsFrom, R
<1>8. PICK fold \in [SUBSET (1..n) -> R], a \in [0..n -> R] :
        FoldOver(fold, n, base, step) /\ WalkOver(a, fold, n, base, step)
  BY <1>7, FoldWalks
<1>9. ASSUME NEW T \in SUBSET (1..n), T # {}
      PROVE  /\ T \ {LastOf(T)} \in SUBSET (1..n) /\ LastOf(T) \in 1..n
             /\ fold[T] = Ex!FillResting(m, fold[T \ {LastOf(T)}], LastOf(T))
  <2>1. LastOf(T) \in T /\ fold[T] = step[LastOf(T)][fold[T \ {LastOf(T)}]]
    BY <1>8, <1>9 DEF FoldOver
  <2>2. PICK U \in SUBSET (1..n) : U = T \ {LastOf(T)}
    OBVIOUS
  <2>3. fold[U] \in R
    OBVIOUS
  <2> QED BY <1>6, <2>1, <2>2, <2>3
<1>10. \A T : top(T) = LastOf(T)
  BY DEF LastOf
<1> HIDE DEF top, places
<1>11. Is(fold)
  <2>1. ASSUME NEW T \in SUBSET (1..n)
        PROVE  fold[T] = IF T = {} THEN base
                         ELSE Ex!FillResting(m, fold[T \ {top(T)}], places[top(T)])
    <3>1. CASE T = {}
      BY <1>8, <3>1 DEF FoldOver
    <3>2. CASE T # {}
      <4>1. places[top(T)] = LastOf(T) /\ top(T) = LastOf(T)
        BY <1>2, <1>9, <1>10, <3>2
      <4> QED BY <1>9, <3>2, <4>1
    <3> QED BY <3>1, <3>2
  <2> QED BY <1>2, <2>1
<1>12. Is(h)
  <2> HIDE DEF Is
  <2> QED BY <1>11
<1>13. ASSUME NEW T \in SUBSET (1..n), T # {}, h[T \ {LastOf(T)}] = fold[T \ {LastOf(T)}]
       PROVE  h[T] = fold[T]
  <2>1. h[T] = IF T = {} THEN base
               ELSE Ex!FillResting(m, h[T \ {top(T)}], places[top(T)])
    <3> HIDE DEF h
    <3> QED BY <1>2, <1>12
  <2>2. places[top(T)] = LastOf(T) /\ top(T) = LastOf(T)
    BY <1>2, <1>9, <1>10, <1>13
  <2> HIDE DEF h
  <2> QED BY <1>9, <1>13, <2>1, <2>2
<1>14. h[{}] = base
  <2> HIDE DEF h
  <2> QED BY <1>2, <1>12
<1>15. h[1..n] = fold[1..n]
  <2>1. GrowsAs(h, fold, n)
    BY <1>13 DEF GrowsAs
  <2>2. fold[{}] = base
    BY <1>8 DEF FoldOver
  <2> HIDE DEF h
  <2> QED BY <1>14, <2>1, <2>2, SameFold
<1>16. last \in R
  <2>1. fold[1..n] \in R
    OBVIOUS
  <2> HIDE DEF h
  <2> QED BY <1>2, <1>3, <1>15, <2>1
<1> QED BY <1>16 DEF places, R

LEMMA MarketStep ==
  ASSUME ExchangeInv, NEW sequence \in 1..MaxSequence, NEW m \in Quotations, NEW rate \in {-1, 0, 1},
         Ex!MarketEvent(sequence, m, rate)
  PROVE  ExchangeInv' /\ Ex!OrdersOnlyMoveOn
<1> DEFINE due == Ex!FundingOf(held, m.mark, rate)
           billed == IF held = None THEN Ex!Account
                     ELSE [Ex!Account EXCEPT !.position.funding = @ + due]
           rested == Ex!FoldLeft(LAMBDA acc, i : Ex!FillResting(m, acc, i),
                                 [orders |-> orders, account |-> billed],
                                 [i \in DOMAIN orders |-> i])
           after == Ex!Protect(m, rested)
<1>1. PICK r \in Seq(PlacedOrders), a \in Accounts :
        r = orders /\ a = Ex!Account /\ Balanced(a, funding)
  BY DEF ExchangeInv
<1>2. /\ held = a.position /\ held \in Ex!Positions \union {None} /\ funding \in Int
      /\ a.closed \in Closed /\ a.filled \in Filled
      /\ a = [position |-> held, closed |-> a.closed, filled |-> a.filled]
  BY <1>1 DEF ExchangeInv, Ex!Account, Accounts
<1>3. \A x \in Ex!Positions :
        /\ x # None /\ x.side \in Ex!Sides /\ x.size \in Nat \ {0} /\ x.funding \in Int
  BY ExchangeGiven DEF Ex!ExchangeAssumption, Ex!Positions
<1>4. PICK d \in Int : d = due
  <2>1. CASE held = None
    BY <2>1 DEF Ex!FundingOf
  <2>2. CASE held # None
    <3>1. PICK sz \in Int, mark \in Int : sz = held.size /\ mark = m.mark
      BY <1>2, <1>3, <2>2 DEF Quotations
    <3>2. PICK y \in Int : y = sz * mark
      OBVIOUS
    <3>3. PICK z \in Int : z = y \div FundingPart
      BY ExchangeGiven DEF Ex!ExchangeAssumption
    <3>4. Ex!Direction(held.side) * rate \in Int
      BY DEF Ex!Direction
    <3>5. Ex!Direction(held.side) * rate * z \in Int
      BY <3>4
    <3> QED BY <2>2, <3>1, <3>2, <3>3, <3>5 DEF Ex!FundingOf
  <2> QED BY <2>1, <2>2
<1>5. PICK b \in Accounts, f \in Int : b = billed /\ f = funding + d /\ Balanced(b, f)
  <2>1. CASE held = None
    <3>1. d = 0 /\ billed = a
      BY <1>1, <1>4, <2>1 DEF Ex!FundingOf
    <3> QED BY <1>1, <1>2, <3>1
  <2>2. CASE held # None
    <3>1. PICK g \in Int : g = held.funding + d
      BY <1>2, <1>3, <2>2
    <3>2. PICK p : p = [held EXCEPT !.funding = g]
      OBVIOUS
    <3>3. p \in Ex!Positions /\ p.side = held.side /\ p.size = held.size /\ p.funding = g /\ p # None
      BY <1>2, <1>3, <2>2, <3>2, SMTT(30) DEF Ex!Positions
    <3>4. billed = [position |-> p, closed |-> a.closed, filled |-> a.filled]
      BY <1>1, <1>2, <1>4, <2>2, <3>1, <3>2
    <3>5. PICK b : b = [position |-> p, closed |-> a.closed, filled |-> a.filled]
      OBVIOUS
    <3>6. b \in Accounts
      BY <1>2, <3>3, <3>5 DEF Accounts
    <3>7. HeldOf(b.position) = b.filled.size
      BY <1>1, <1>2, <2>2, <3>3, <3>5 DEF Balanced, HeldOf
    <3>8. FundingIn(b) = funding + d
      <4>1. a.closed.funding \in Int /\ held.funding \in Int
        BY <1>2, <1>3, <2>2 DEF Closed
      <4>2. a.closed.funding + held.funding = funding
        BY <1>1, <1>2, <2>2 DEF Balanced, FundingIn
      <4> QED BY <1>2, <3>1, <3>3, <3>5, <4>1, <4>2 DEF FundingIn
    <3>9. ~b.filled.flipped => CostsIn(b) = b.filled.costs
      <4>1. p.costs = held.costs
        BY <3>2, <1>2, <2>2 DEF Ex!Positions
      <4> QED BY <1>1, <1>2, <2>2, <3>3, <3>5, <4>1 DEF Balanced, CostsIn
    <3> QED BY <1>2, <3>4, <3>5, <3>6, <3>7, <3>8, <3>9 DEF Balanced
  <2> QED BY <2>1, <2>2
<1>6. [orders |-> r, account |-> b] \in RestedStates(f)
  <2>1. PICK z : z = [orders |-> r, account |-> b]
    OBVIOUS
  <2>2. z \in [orders : Seq(PlacedOrders), account : Accounts] /\ z.orders = r /\ z.account = b
    BY <2>1
  <2>3. \A i \in 1..Len(orders) : MovesOn(orders[i], z.orders[i])
    <3>1. \A o \in PlacedOrders : o.filled \in Nat
      BY DEF PlacedOrders
    <3> QED BY <1>1, <2>2, <3>1 DEF MovesOn
  <2> QED BY <1>1, <1>5, <2>1, <2>2, <2>3 DEF RestedStates
<1>7. PICK q \in RestedStates(f) : q = rested
  <2>1. PICK base : base = [orders |-> orders, account |-> billed]
    OBVIOUS
  <2>2. base \in RestedStates(f)
    BY <1>1, <1>5, <1>6, <2>1
  <2> HIDE DEF billed, due
  <2>3. Ex!FoldLeft(LAMBDA acc, i : Ex!FillResting(m, acc, i), base, [i \in DOMAIN orders |-> i])
          \in RestedStates(f)
    BY <1>1, <2>2, AllRest
  <2> QED BY <2>1, <2>3
<1>8. PICK s \in Seq(PlacedOrders), c \in Accounts :
        /\ s = q.orders /\ c = q.account /\ Len(s) = Len(r)
        /\ \A i \in 1..Len(r) : MovesOn(r[i], s[i])
        /\ Balanced(c, f)
  BY <1>1 DEF RestedStates
<1>9. PICK t \in Seq(PlacedOrders), e \in Accounts :
        /\ t = after.orders /\ e = after.account /\ Len(r) <= Len(t)
        /\ \A i \in 1..Len(r) : MovesOn(r[i], t[i])
        /\ Balanced(e, f)
  <2>1. CASE ~Ex!Breached(c.position, m.mark)
    <3>1. after = q
      BY <1>7, <1>8, <2>1 DEF Ex!Protect
    <3>2. s = after.orders /\ c = after.account /\ Len(r) <= Len(s)
      <4> HIDE DEF after, rested
      <4> QED BY <1>8, <3>1
    <3> HIDE DEF after
    <3> QED BY <1>8, <3>2
  <2>2. CASE Ex!Breached(c.position, m.mark)
    <3>1. PICK p \in Ex!Positions, side \in Ex!Sides, much \in Nat \ {0} :
            p = c.position /\ side = Ex!Opposite(p.side) /\ much = p.size
      <4>1. c.position \in Ex!Positions
        BY <2>2 DEF Ex!Breached, Accounts
      <4>2. Ex!Opposite(c.position.side) \in Ex!Sides
        BY DEF Ex!Opposite, Ex!Sides
      <4> QED BY <1>3, <4>1, <4>2
    <3>2. PICK price \in Int : price = Ex!MarketPrice(m, side)
      <4>1. 0 \in Int /\ m \in Quotations \union {None}
        OBVIOUS
      <4> QED BY <4>1, PricesAre
    <3>3. PICK o \in PlacedOrders : o = Ex!Order(side, much, price, "FILLED", much)
      <4>1. Ex!Order(side, much, price, "FILLED", much) \in PlacedOrders
        BY DEF Ex!Order, PlacedOrders, Ex!Statuses, Ex!Resting
      <4> QED BY <4>1
    <3>4. PICK e \in Accounts : e = Ex!Fill(c, m, side, much, price) /\ Balanced(e, f)
      <4>1. m \in Quotations \union {None} /\ Balanced(c, f)
        BY <1>8
      <4> QED BY <4>1, FillBalances
    <3>5. after = [orders |-> Append(s, o), account |-> e]
      <4> HIDE DEF rested
      <4> QED BY <1>7, <1>8, <2>2, <3>1, <3>2, <3>3, <3>4 DEF Ex!Protect
    <3>6. PICK t \in Seq(PlacedOrders) :
            /\ t = Append(s, o) /\ Len(s) <= Len(t)
            /\ \A i \in 1..Len(s) : t[i] = s[i]
      <4>1. /\ Append(s, o) \in Seq(PlacedOrders) /\ Len(s) <= Len(Append(s, o))
            /\ \A i \in 1..Len(s) : Append(s, o)[i] = s[i]
        OBVIOUS
      <4> QED BY <4>1, Zenon
    <3>7. after.orders = t /\ after.account = e
      <4> HIDE DEF after
      <4> QED BY <3>5, <3>6
    <3> HIDE DEF after
    <3> QED BY <1>8, <3>4, <3>6, <3>7
  <2> QED BY <2>1, <2>2
<1>10. /\ lastSequence' = sequence /\ quote' = m /\ funding' = funding + due
       /\ orders' = after.orders /\ Ex!SetAccount(after.account)
  BY DEF Ex!MarketEvent
<1> HIDE DEF after, due
<1>11. Ex!Account' = e
  BY <1>9, <1>10, AccountSet
<1>12. Ex!OrdersOnlyMoveOn
  BY <1>1, <1>9, <1>10, OrdersMoved
<1>13. Balanced(Ex!Account, funding)'
  <2>1. /\ HeldOf(e.position) = e.filled.size /\ FundingIn(e) = f /\ funding' = f
        /\ ~e.filled.flipped => CostsIn(e) = e.filled.costs
    BY <1>4, <1>5, <1>9, <1>10 DEF Balanced
  <2> QED BY <1>11, <2>1 DEF Balanced, HeldOf, FundingIn, CostsIn
<1>14. sequence \in 0..MaxSequence
  BY ExchangeGiven DEF Ex!ExchangeAssumption
<1> QED BY <1>4, <1>5, <1>9, <1>10, <1>11, <1>12, <1>13, <1>14 DEF ExchangeInv

LEMMA CancelStep ==
  ASSUME ExchangeInv, NEW i \in DOMAIN orders, Ex!CancelOrder(i)
  PROVE  ExchangeInv' /\ Ex!OrdersOnlyMoveOn
<1>1. PICK r \in Seq(PlacedOrders) : r = orders /\ i \in 1..Len(r)
  BY DEF ExchangeInv
<1>2. PICK o \in PlacedOrders : o = r[i] /\ o.status \in Ex!Resting
  BY <1>1 DEF Ex!CancelOrder
<1>3. PICK q : q = [o EXCEPT !.status = "CANCELLED"]
  OBVIOUS
<1>4. q \in PlacedOrders /\ q.filled = o.filled /\ q.status = "CANCELLED"
  BY <1>3 DEF PlacedOrders, Ex!Statuses, Ex!Resting
<1>5. MovesOn(o, q)
  BY <1>2, <1>4 DEF MovesOn, PlacedOrders
<1>6. orders' = [r EXCEPT ![i] = q]
  BY <1>1, <1>2, <1>3 DEF Ex!CancelOrder
<1>7. PICK s \in Seq(PlacedOrders) :
        s = orders' /\ Len(s) = Len(r) /\ \A j \in 1..Len(r) : s[j] = IF j = i THEN q ELSE r[j]
  <2>1. [r EXCEPT ![i] = q] \in Seq(PlacedOrders)
    BY <1>1, <1>4
  <2>2. /\ Len([r EXCEPT ![i] = q]) = Len(r)
        /\ \A j \in 1..Len(r) : [r EXCEPT ![i] = q][j] = IF j = i THEN q ELSE r[j]
    OBVIOUS
  <2> QED BY <1>6, <2>1, <2>2
<1>8. \A j \in 1..Len(r) : MovesOn(r[j], s[j])
  <2>1. \A j \in 1..Len(r) : r[j] \in PlacedOrders
    OBVIOUS
  <2>2. \A p \in PlacedOrders : p.filled \in Nat
    BY DEF PlacedOrders
  <2>3. \A p \in PlacedOrders : MovesOn(p, p)
    BY <2>2 DEF MovesOn
  <2> QED BY <1>2, <1>5, <1>7, <2>1, <2>3
<1>9. Ex!OrdersOnlyMoveOn
  BY <1>1, <1>7, <1>8, OrdersMoved
<1>10. UNCHANGED <<held, quote, lastSequence, funding, closed, filled>>
  BY DEF Ex!CancelOrder
<1>11. UNCHANGED Ex!Account
  BY <1>10 DEF Ex!Account
<1>12. Balanced(Ex!Account, funding)'
  BY <1>10, <1>11 DEF ExchangeInv, Balanced, HeldOf, FundingIn, CostsIn
<1> QED BY <1>7, <1>9, <1>10, <1>11, <1>12 DEF ExchangeInv

LEMMA LevelsStep ==
  ASSUME ExchangeInv, NEW stop \in Ex!Levels, NEW target \in Ex!Levels,
         Ex!SetProtection(stop, target)
  PROVE  ExchangeInv' /\ Ex!OrdersOnlyMoveOn
<1>1. PICK r \in Seq(PlacedOrders), a \in Accounts :
        r = orders /\ a = Ex!Account /\ Balanced(a, funding)
  BY DEF ExchangeInv
<1>2. /\ held = a.position /\ held \in Ex!Positions /\ a.closed \in Closed /\ a.filled \in Filled
      /\ a.closed = closed /\ a.filled = filled /\ held # None
  BY <1>1 DEF Ex!SetProtection, Ex!Account, Accounts
<1>3. PICK p : p = [held EXCEPT !.stop = stop, !.target = target]
  OBVIOUS
<1>4. /\ p \in Ex!Positions /\ p.side = held.side /\ p.size = held.size
      /\ p.funding = held.funding /\ p.costs = held.costs /\ p # None
  BY <1>2, <1>3, ExchangeGiven DEF Ex!Positions, Ex!ExchangeAssumption
<1>5. /\ held' = p /\ UNCHANGED <<orders, quote, lastSequence, funding, closed, filled>>
  BY <1>3 DEF Ex!SetProtection
<1>6. PICK b : b = [position |-> p, closed |-> closed, filled |-> filled]
  OBVIOUS
<1>7. Ex!Account' = b /\ b \in Accounts
  BY <1>2, <1>4, <1>5, <1>6 DEF Ex!Account, Accounts
<1>8. /\ HeldOf(b.position) = b.filled.size /\ FundingIn(b) = funding
      /\ ~b.filled.flipped => CostsIn(b) = b.filled.costs
  BY <1>1, <1>2, <1>4, <1>6 DEF Balanced, HeldOf, FundingIn, CostsIn
<1>9. Balanced(Ex!Account, funding)'
  BY <1>5, <1>7, <1>8 DEF Balanced, HeldOf, FundingIn, CostsIn
<1>10. Ex!OrdersOnlyMoveOn
  BY <1>5, OrdersStay
<1> QED BY <1>5, <1>7, <1>9, <1>10 DEF ExchangeInv

LEMMA CloseStep ==
  ASSUME ExchangeInv, NEW mark \in Nat, NEW valid \in BOOLEAN, Ex!CloseAtEnd(mark, valid)
  PROVE  ExchangeInv' /\ Ex!OrdersOnlyMoveOn
<1>1. quote \in Quotations \union {None} /\ held \in Ex!Positions \union {None}
  BY DEF ExchangeInv, Ex!Account, Accounts
<1>2. UNCHANGED <<lastSequence, funding>>
  BY DEF Ex!CloseAtEnd
<1>3. CASE held = None
  <2>1. Ex!SubmitAt(quote, "BUY", 0, None, TRUE, FALSE, FALSE) /\ quote' = quote
    BY <1>3 DEF Ex!CloseAtEnd
  <2>2. "BUY" \in Ex!Sides /\ None \in Limits \union {None}
    BY DEF Ex!Sides
  <2> QED BY <1>1, <1>2, <2>1, <2>2, SubmitStep
<1>4. CASE held # None
  <2>1. PICK side \in Ex!Sides, much \in Nat \ {0} :
          side = Ex!Opposite(held.side) /\ much = held.size
    BY <1>1, <1>4 DEF Ex!Opposite, Ex!Sides, Ex!Positions
  <2>2. PICK m \in Quotations :
          m = [bid |-> Ex!Executable(quote, "SELL", mark), ask |-> Ex!Executable(quote, "BUY", mark),
               mark |-> mark]
    BY <1>1 DEF Ex!Executable, Quotations
  <2>3. quote' = m /\ Ex!SubmitAt(m, side, much, None, TRUE, FALSE, valid)
    BY <1>4, <2>1, <2>2 DEF Ex!CloseAtEnd
  <2>4. m \in Quotations \union {None} /\ None \in Limits \union {None} /\ much \in Nat /\ much # 0
    OBVIOUS
  <2> QED BY <1>2, <2>3, <2>4, SubmitStep
<1> QED BY <1>3, <1>4

LEMMA ExchangeStep ==
  ASSUME ExchangeInv, Ex!Next
  PROVE  ExchangeInv' /\ Ex!OrdersOnlyMoveOn
<1>1. ASSUME NEW side \in Ex!Sides, NEW much \in Sizes, NEW limit \in Limits \union {None},
             NEW reduceOnly \in BOOLEAN, NEW immediate \in BOOLEAN, NEW valid \in BOOLEAN,
             Ex!SubmitOrder(side, much, limit, reduceOnly, immediate, valid)
      PROVE  ExchangeInv' /\ Ex!OrdersOnlyMoveOn
  <2>1. much \in Nat /\ much # 0 /\ quote \in Quotations \union {None}
    BY ExchangeGiven DEF Ex!ExchangeAssumption, ExchangeInv
  <2>2. /\ Ex!SubmitAt(quote, side, much, limit, reduceOnly, immediate, valid)
        /\ UNCHANGED <<quote, lastSequence, funding>>
    BY <1>1 DEF Ex!SubmitOrder
  <2>3. quote' \in Quotations \union {None} /\ UNCHANGED <<lastSequence, funding>>
    BY <2>1, <2>2
  <2> QED BY <2>1, <2>2, <2>3, SubmitStep
<1>2. Quotes \subseteq Quotations /\ \A m \in Quotations : {m.bid, m.mark} \subseteq Nat
  BY ExchangeGiven DEF Ex!ExchangeAssumption, Quotations
<1>3. ASSUME NEW m \in Quotes, Ex!SetProtection(m.bid, None) \/ Ex!SetProtection(None, m.mark)
      PROVE  ExchangeInv' /\ Ex!OrdersOnlyMoveOn
  BY <1>2, <1>3, LevelsStep DEF Ex!Levels
<1>4. ASSUME NEW m \in Quotes, NEW valid \in BOOLEAN, Ex!CloseAtEnd(m.mark, valid)
      PROVE  ExchangeInv' /\ Ex!OrdersOnlyMoveOn
  BY <1>2, <1>4, CloseStep
<1>5. ASSUME NEW sequence \in 1..MaxSequence, NEW m \in Quotes, NEW rate \in {-1, 0, 1},
             Ex!MarketEvent(sequence, m, rate)
      PROVE  ExchangeInv' /\ Ex!OrdersOnlyMoveOn
  BY <1>2, <1>5, MarketStep
<1> QED BY <1>1, <1>3, <1>4, <1>5, CancelStep DEF Ex!Next

LEMMA ExchangeInvHolds == Ex!Spec => []ExchangeInv
<1>1. ASSUME ExchangeInv, UNCHANGED Ex!vars PROVE ExchangeInv'
  BY <1>1 DEF ExchangeInv, Ex!vars, Ex!Account, Balanced, HeldOf, FundingIn, CostsIn
<1>2. ExchangeInv /\ [Ex!Next]_(Ex!vars) => ExchangeInv'
  BY <1>1, ExchangeStep
<1> QED BY <1>2, ExchangeInit, PTL DEF Ex!Spec

-----------------------------------------------------------------------------
(* A behaviour is of one part; the others do not move. *)

LEMMA RuntimeAlone == Spec => ([](part = "runtime") /\ Rt!Spec) \/ []~(part = "runtime")
<1>1. Init /\ part = "runtime" => Rt!Init
  BY DEF Init
<1>2. part = "runtime" /\ [Next]_vars => [Rt!Next]_(Rt!vars) /\ (part = "runtime")'
  BY DEF Next, vars, runtimeVars, cycleVars, demoVars, exchangeVars, ledgerVars, ruleVars,
     Rt!vars, Rt!exchangeVars, Rt!circuitVars, Rt!breakerVars
<1>3. ~(part = "runtime") /\ [Next]_vars => ~(part = "runtime")'
  BY DEF Next, vars
<1> QED BY <1>1, <1>2, <1>3, PTL DEF Spec, Rt!Spec

LEMMA CycleAlone == Spec => ([](part = "cycle") /\ Cy!Spec) \/ []~(part = "cycle")
<1>1. Init /\ part = "cycle" => Cy!Init
  BY DEF Init
<1>2. part = "cycle" /\ [Next]_vars => [Cy!Next]_(Cy!vars) /\ (part = "cycle")'
  BY DEF Next, vars, runtimeVars, cycleVars, demoVars, exchangeVars, ledgerVars, ruleVars,
     Cy!vars, Cy!ledger, Cy!venue
<1>3. ~(part = "cycle") /\ [Next]_vars => ~(part = "cycle")'
  BY DEF Next, vars
<1> QED BY <1>1, <1>2, <1>3, PTL DEF Spec, Cy!Spec

LEMMA DemoAlone == Spec => ([](part = "demo") /\ De!Spec) \/ []~(part = "demo")
<1>1. Init /\ part = "demo" => De!Init
  BY DEF Init
<1>2. part = "demo" /\ [Next]_vars => [De!Next]_(De!vars) /\ (part = "demo")'
  BY DEF Next, vars, runtimeVars, cycleVars, demoVars, exchangeVars, ledgerVars, ruleVars,
     De!vars
<1>3. ~(part = "demo") /\ [Next]_vars => ~(part = "demo")'
  BY DEF Next, vars
<1> QED BY <1>1, <1>2, <1>3, PTL DEF Spec, De!Spec

LEMMA ExchangeAlone ==
  Spec => ([](part = "exchange") /\ Ex!Spec) \/ []~(part = "exchange")
<1>1. Init /\ part = "exchange" => Ex!Init
  BY DEF Init
<1>2. part = "exchange" /\ [Next]_vars => [Ex!Next]_(Ex!vars) /\ (part = "exchange")'
  BY DEF Next, vars, runtimeVars, cycleVars, demoVars, exchangeVars, ledgerVars, ruleVars,
     Ex!vars
<1>3. ~(part = "exchange") /\ [Next]_vars => ~(part = "exchange")'
  BY DEF Next, vars
<1> QED BY <1>1, <1>2, <1>3, PTL DEF Spec, Ex!Spec

LEMMA LedgerAlone == Spec => ([](part = "ledger") /\ Le!Spec) \/ []~(part = "ledger")
<1>1. Init /\ part = "ledger" => Le!Init
  BY DEF Init
<1>2. part = "ledger" /\ [Next]_vars => [Le!Next]_(Le!vars) /\ (part = "ledger")'
  BY DEF Next, vars, runtimeVars, cycleVars, demoVars, exchangeVars, ledgerVars, ruleVars,
     Le!vars
<1>3. ~(part = "ledger") /\ [Next]_vars => ~(part = "ledger")'
  BY DEF Next, vars
<1> QED BY <1>1, <1>2, <1>3, PTL DEF Spec, Le!Spec

LEMMA RulesAlone == Spec => ([](part = "rules") /\ Ru!Spec) \/ []~(part = "rules")
<1>1. Init /\ part = "rules" => Ru!Init
  BY DEF Init
<1>2. part = "rules" /\ [Next]_vars => [Ru!Next]_(Ru!vars) /\ (part = "rules")'
  BY DEF Next, vars, runtimeVars, cycleVars, demoVars, exchangeVars, ledgerVars, ruleVars,
     Ru!vars
<1>3. ~(part = "rules") /\ [Next]_vars => ~(part = "rules")'
  BY DEF Next, vars
<1> QED BY <1>1, <1>2, <1>3, PTL DEF Spec, Ru!Spec

-----------------------------------------------------------------------------
(* For any snapshots, callers and crashes: a runner asks once, the ledger    *)
(* tells of one ending and one fill of a cycle, and with one call at a time  *)
(* what is recorded is under the identity of its own cycle.                  *)
THEOREM CyclesAreTold == Spec => []CyclesTellOneStory
<1>1. Cy!Spec => []Cy!TypeOK
  BY CycleTypes, PartsAssumption
<1>2. Cy!Spec => []Cy!RunnerAsksOnce
  BY RunnersAskOnce, PartsAssumption
<1>3. Cy!Spec => []Cy!LedgerTellsOneStory
  BY OneStory, PartsAssumption
<1>4. Rt!Spec => []Rt!EventsKeepTheirIdentity
  BY Rt!OneCallOneIdentity, PartsAssumption, SameSets
<1>5. /\ part = "cycle" => ~(part = "runtime")
      /\ ~(part = "runtime") /\ ~(part = "cycle") => CyclesTellOneStory
  BY DEF CyclesTellOneStory
<1>6. ~(part = "runtime") /\ Cy!TypeOK /\ Cy!RunnerAsksOnce /\ Cy!LedgerTellsOneStory
      => CyclesTellOneStory
  BY DEF CyclesTellOneStory
<1>7. ~(part = "cycle") /\ Rt!EventsKeepTheirIdentity => CyclesTellOneStory
  BY DEF CyclesTellOneStory
<1> QED BY <1>1, <1>2, <1>3, <1>4, <1>5, <1>6, <1>7, CycleAlone, RuntimeAlone, PTL

(* For any orders and any number of executions, whatever requests or replies *)
(* are lost: the venue has an order once, it is reported once and as         *)
(* protected only if it carries levels, and one whose execution failed after *)
(* it was placed stays unreported.                                           *)
THEOREM DemoIsSafe == Spec => DemoOrdersOnce
<1> DEFINE Typed == part = "demo" => De!TypeOK /\ De!OneOrderPerRequest
           Quiet == part = "demo" => De!LostStaysLost
<1>1. De!Spec => []DemoInv
  BY DemoInvHolds, PartsAssumption
<1>2. De!Spec => []De!OneOrderPerRequest
  BY OneOrder, PartsAssumption
<1>3. DemoInv /\ [De!Next]_(De!vars) => De!LostStaysLost
  BY LostIsNotFound, PartsAssumption
<1>4. DemoInv /\ De!OneOrderPerRequest => Typed
  BY DEF DemoInv
<1>5. De!LostStaysLost => [Quiet]_vars
  OBVIOUS
<1>6. ~(part = "demo") => Typed /\ [Quiet]_vars
  OBVIOUS
<1> HIDE DEF Typed, Quiet
<1>7. Spec => []Typed /\ [][Quiet]_vars
  BY <1>1, <1>2, <1>3, <1>4, <1>5, <1>6, DemoAlone, PTL DEF De!Spec
<1> QED BY <1>7 DEF DemoOrdersOnce, Typed, Quiet

(* For any quotes, sizes, limits and rates, over any number of orders and    *)
(* events: the position is what the fills add up to, funding billed is in    *)
(* the closed trades or with the position, spread and slippage are charged   *)
(* once as long as no order flips a position, and an order at rest only      *)
(* fills or ends, and what ended stays as it was.                            *)
THEOREM BooksAreKept ==
  Spec => /\ [](part = "exchange" => Ex!TypeOK /\ Ex!BooksBalance /\ ChargedOnce)
          /\ [][part = "exchange" => Ex!OrdersOnlyMoveOn]_vars
<1> DEFINE Kept == part = "exchange" => Ex!TypeOK /\ Ex!BooksBalance /\ ChargedOnce
           Onward == part = "exchange" => Ex!OrdersOnlyMoveOn
<1>1. Ex!Spec => []ExchangeInv
  BY ExchangeInvHolds
<1>2. ExchangeInv /\ [Ex!Next]_(Ex!vars) => Ex!OrdersOnlyMoveOn
  <2>1. UNCHANGED Ex!vars => UNCHANGED orders
    BY DEF Ex!vars
  <2> QED BY <2>1, ExchangeStep, OrdersStay
<1>3. ExchangeInv => Kept
  <2>1. ExchangeInv => ChargedOnce
    BY DEF ExchangeInv, Balanced, CostsIn, Accounts, Closed, Ex!Account, ChargedOnce
  <2> QED BY <2>1, ExchangeIsTyped
<1>4. Ex!OrdersOnlyMoveOn => [Onward]_vars
  OBVIOUS
<1>5. ~(part = "exchange") => Kept /\ [Onward]_vars
  OBVIOUS
<1> HIDE DEF Kept, Onward
<1>6. Spec => []Kept /\ [][Onward]_vars
  BY <1>1, <1>2, <1>3, <1>4, <1>5, ExchangeAlone, PTL DEF Ex!Spec
<1> QED BY <1>6 DEF Kept, Onward

(* For any payloads, tables, keys and runs, over any number of events: a run *)
(* replays to what the queries say of it, an event has its projection or     *)
(* neither is there, and the ledger only grows until a reset clears it.      *)
THEOREM LedgerIsReplayed == Spec => LedgerReplays
<1> DEFINE Kept == part = "ledger" => Le!TypeOK /\ Le!ReplayReproducesARun /\ Le!NoHalfWrites
           Grown == part = "ledger" => Le!AppendOnly
<1>1. Le!Spec => []LedgerInv
  BY LedgerInvHolds
<1>2. LedgerInv => Kept
  BY LedgerTyped, NothingHalf, RunIsReplayed
<1>3. LedgerInv /\ [Le!Next]_(Le!vars) => Le!AppendOnly
  BY LogOnlyGrows
<1>4. Le!AppendOnly => [Grown]_vars
  OBVIOUS
<1>5. ~(part = "ledger") => Kept /\ [Grown]_vars
  OBVIOUS
<1> HIDE DEF Kept, Grown
<1>6. Spec => []Kept /\ [][Grown]_vars
  BY <1>1, <1>2, <1>3, <1>4, <1>5, LedgerAlone, PTL DEF Le!Spec
<1> QED BY <1>6 DEF LedgerReplays, Kept, Grown

(* For any caps, limits, prices and finitely many symbols, over any          *)
(* decisions, fills and exits: the book's notional is above its cap only by  *)
(* what its last fill cost above its entry, a sized entry is within its risk *)
(* and every cap, and the two gates differ only where their limits do.       *)
THEOREM RulesAreKept == Spec => RulesHold
<1> DEFINE Kept == part = "rules" => Ru!TypeOK /\ Ru!GrossStaysBounded /\ Ru!SizedRiskIsBounded
           Differ == part = "rules" => Ru!GatesDifferInLimits
<1>1. RulesInv /\ [Ru!Next]_(Ru!vars) => RulesInv'
  <2>1. ASSUME RulesInv, UNCHANGED Ru!vars PROVE RulesInv'
    <3>1. UNCHANGED <<size, value, excess>>
      BY <2>1 DEF Ru!vars
    <3>2. UNCHANGED Ru!Gross
      BY <3>1, Zenon DEF Ru!Gross, Ru!MapThenSumSet, Ru!MapThenFoldSet
    <3> QED BY <2>1, <3>1, <3>2 DEF RulesInv, Ru!TypeOK, Ru!GrossStaysBounded
  <2> QED BY <2>1, BookStep DEF RulesInv
<1>2. Ru!Spec => []RulesInv
  BY <1>1, RulesInit, PTL DEF Ru!Spec
<1>3. RulesInv => Kept
  BY RiskStep DEF RulesInv
<1>4. ~(part = "rules") => Kept
  OBVIOUS
<1>5. Differ
  BY SemanticStep
<1> HIDE DEF Kept, Differ
<1>6. Spec => Differ /\ []Kept
  BY <1>2, <1>3, <1>4, <1>5, RulesAlone, PTL
<1> QED BY <1>6 DEF RulesHold, Kept, Differ
=============================================================================
