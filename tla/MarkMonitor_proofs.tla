-------------------------- MODULE MarkMonitor_proofs --------------------------
(* Theorems of MarkMonitor, for any symbols, any stale_after, and whether or *)
(* not saves and closes raise.                                               *)
EXTENDS MarkMonitor, TLAPS

(* A symbol whose position was asked to be closed is CLOSED in memory and in *)
(* the file, so no mark and no restart asks again: that is why the record is *)
(* saved before the close.  That a symbol without a record holds nothing is  *)
(* what makes an unspoiled record tell its position.                         *)
SaveTells(s) ==
  /\ closes[s] # 0 => closes[s] = 1 /\ records[s] = "CLOSED" /\ stored[s] = "CLOSED"
  /\ s \notin spoiled =>
       /\ stored[s] \in {"PROTECTED", "DEGRADED"} <=> s \in held
       /\ records[s] \in {"PROTECTED", "DEGRADED"} <=> s \in held
       /\ records[s] = "DEGRADED" => stored[s] = "DEGRADED"

SaveInv == \A s \in Symbols : SaveTells(s)

Inv == TypeOK /\ SaveInv

LEMMA InitTells == Init => Inv
BY MonitorAssumption DEF Init, Inv, TypeOK, SaveInv, SaveTells, States

(* The records after some symbols were degraded. *)
LEMMA DegradeType ==
  ASSUME TypeOK, NEW S \in SUBSET Symbols, Degrade(S)
  PROVE  /\ records' \in [Symbols -> States]
         /\ stored' \in [Symbols -> States]
         /\ spoiled' \in SUBSET Symbols
BY DEF TypeOK, Degrade, Saves, States

LEMMA TypeStep == TypeOK /\ [Next]_vars => TypeOK'
<1> SUFFICES ASSUME TypeOK, [Next]_vars
             PROVE  TypeOK'
  OBVIOUS
<1> USE MonitorAssumption
<1>1. ASSUME NEW s \in Symbols, Arm(s) PROVE TypeOK'
  BY <1>1 DEF Arm, Saves, SaveRaises, TypeOK, States
<1>2. ASSUME NEW s \in Symbols, StaleMark(s) PROVE TypeOK'
  <2>1. StaleAfter + 1 \in Ages
    BY DEF Ages
  <2> QED BY <1>2, <2>1, DegradeType DEF StaleMark, TypeOK
<1>3. ASSUME NEW s \in Symbols, NEW age \in 0..StaleAfter,
             QuietMark(s, age) \/ BreachingMark(s, age)
      PROVE  TypeOK'
  <2>1. age \in Ages
    BY DEF Ages
  <2>2. CASE QuietMark(s, age)
    BY <2>1, <2>2 DEF QuietMark, TypeOK
  <2>3. CASE BreachingMark(s, age)
    BY <2>1, <2>3 DEF BreachingMark, Saves, SaveRaises, TypeOK, States
  <2> QED BY <1>3, <2>2, <2>3
<1>4. CASE CheckFreshness
  BY <1>4, DegradeType DEF CheckFreshness, TypeOK
<1>5. CASE TimePasses
  BY <1>5 DEF TimePasses, TypeOK, Ages
<1>6. CASE Restart
  BY <1>6 DEF Restart, TypeOK
<1>7. CASE UNCHANGED vars
  BY <1>7 DEF vars, TypeOK
<1> QED BY <1>1, <1>2, <1>3, <1>4, <1>5, <1>6, <1>7 DEF Next

(* Degrading changes no record that is CLOSED, nor the number of closes. *)
LEMMA DegradeTells ==
  ASSUME Inv, NEW S \in SUBSET Symbols, Degrade(S), UNCHANGED <<held, closes>>,
         \A s \in S : Armed(s)
  PROVE  SaveInv'
<1> SUFFICES ASSUME NEW s \in Symbols PROVE SaveTells(s)'
  BY DEF SaveInv
<1> DEFINE open == {x \in S : records[x] \notin {"CLOSED", "DEGRADED"}}
           now(T) == [x \in Symbols |-> IF x \in T THEN "DEGRADED" ELSE records[x]]
<1>1. /\ TypeOK
      /\ SaveTells(s)
      /\ \A x \in open : records[x] = "PROTECTED"
  BY DEF Inv, SaveInv, TypeOK, States, Armed
<1>2. CASE UNCHANGED <<records, stored, spoiled>>
  BY <1>1, <1>2 DEF SaveTells
<1>3. CASE Saves(now(open)) /\ UNCHANGED spoiled
  BY <1>1, <1>3 DEF SaveTells, Saves
<1>4. ASSUME NEW done \in SUBSET open, NEW x \in open \ done,
             records' = now(done \union {x}),
             stored' = IF done = {} THEN stored ELSE now(done),
             spoiled' = spoiled \union {x}
      PROVE  SaveTells(s)'
  <2>1. CASE s = x
    BY <1>1, <1>4, <2>1 DEF SaveTells
  <2>2. CASE s # x /\ s \in done
    BY <1>1, <1>4, <2>2 DEF SaveTells
  <2>3. CASE s # x /\ s \notin done
    BY <1>1, <1>4, <2>3 DEF SaveTells
  <2> QED BY <2>1, <2>2, <2>3
<1> QED BY <1>2, <1>3, <1>4 DEF Degrade

LEMMA TellsStep == Inv /\ [Next]_vars => SaveInv'
<1> SUFFICES ASSUME Inv, [Next]_vars
             PROVE  SaveInv'
  OBVIOUS
<1> USE DEF Inv
<1>1. ASSUME NEW s \in Symbols, Arm(s) PROVE SaveInv'
  BY <1>1 DEF Arm, Saves, SaveRaises, SaveInv, SaveTells, TypeOK
<1>2. ASSUME NEW s \in Symbols, StaleMark(s) PROVE SaveInv'
  BY <1>2, DegradeTells DEF StaleMark
<1>3. ASSUME NEW s \in Symbols, NEW age \in 0..StaleAfter, QuietMark(s, age)
      PROVE  SaveInv'
  BY <1>3 DEF QuietMark, SaveInv, SaveTells
<1>4. ASSUME NEW s \in Symbols, NEW age \in 0..StaleAfter, BreachingMark(s, age)
      PROVE  SaveInv'
  BY <1>4 DEF BreachingMark, Saves, SaveRaises, SaveInv, SaveTells, TypeOK
<1>5. CASE CheckFreshness
  BY <1>5, DegradeTells DEF CheckFreshness
<1>6. CASE TimePasses
  BY <1>6 DEF TimePasses, SaveInv, SaveTells
<1>7. CASE Restart
  BY <1>7 DEF Restart, SaveInv, SaveTells
<1>8. CASE UNCHANGED vars
  BY <1>8 DEF vars, SaveInv, SaveTells
<1> QED BY <1>1, <1>2, <1>3, <1>4, <1>5, <1>6, <1>7, <1>8 DEF Next

LEMMA InvHolds == Spec => []Inv
<1>1. Inv /\ [Next]_vars => Inv'
  BY TypeStep, TellsStep DEF Inv
<1> QED BY InitTells, <1>1, PTL DEF Spec

-----------------------------------------------------------------------------
(* The monitor's variables stay in their types. *)
THEOREM TypeCorrect == Spec => []TypeOK
<1>1. Inv => TypeOK
  BY DEF Inv
<1> QED BY InvHolds, <1>1, PTL

(* A position is asked to be closed at most once after it was armed. *)
THEOREM ClosesOnce == Spec => []OneCloseIntent
<1>1. ASSUME Inv, NEW s \in Symbols PROVE closes[s] <= 1
  <2>1. closes[s] = 0 \/ closes[s] = 1
    BY <1>1 DEF Inv, SaveInv, SaveTells
  <2> QED BY <2>1
<1>2. Inv => OneCloseIntent
  BY <1>1 DEF OneCloseIntent
<1> QED BY InvHolds, <1>2, PTL

(* A record no save and no close of which raised tells whether its position  *)
(* is open.                                                                  *)
THEOREM TellsPosition == Spec => []RecordTellsPosition
<1>1. Inv => RecordTellsPosition
  BY DEF Inv, SaveInv, SaveTells, RecordTellsPosition
<1> QED BY InvHolds, <1>1, PTL

(* A degraded record of which no save raises is only left by arming its      *)
(* symbol or closing its position.                                           *)
THEOREM StaysParked == Spec => DegradedStaysParked
<1>1. ASSUME Inv, [Next]_vars, NEW s \in Symbols \ spoiled,
             records[s] = "DEGRADED", records'[s] # "DEGRADED",
             ~Arm(s), s \notin spoiled'
      PROVE  closes'[s] > closes[s]
  <2> USE <1>1 DEF Inv
  <2>1. ASSUME NEW x \in Symbols, Arm(x) PROVE FALSE
    BY <2>1 DEF Arm, Saves, SaveRaises, TypeOK
  <2>2. ASSUME NEW S \in SUBSET Symbols, Degrade(S) PROVE FALSE
    BY <2>2 DEF Degrade, Saves, TypeOK
  <2>3. ASSUME NEW x \in Symbols, NEW age \in 0..StaleAfter, BreachingMark(x, age)
        PROVE  closes'[s] > closes[s]
    BY <2>3 DEF BreachingMark, Saves, SaveRaises, TypeOK
  <2>4. CASE Restart
    BY <2>4 DEF Restart, SaveInv, SaveTells
  <2>5. CASE \/ TimePasses \/ UNCHANGED vars
             \/ \E x \in Symbols, age \in 0..StaleAfter : QuietMark(x, age)
    BY <2>5 DEF TimePasses, vars, QuietMark
  <2> QED BY <2>1, <2>2, <2>3, <2>4, <2>5 DEF Next, StaleMark, CheckFreshness
<1>2. Inv /\ [Next]_vars => [\A s \in Symbols \ spoiled :
         records[s] = "DEGRADED" /\ records'[s] # "DEGRADED"
           => Arm(s) \/ closes'[s] > closes[s] \/ s \in spoiled']_vars
  BY <1>1
<1> QED BY InvHolds, <1>2, PTL DEF Spec, DegradedStaysParked

(* check_freshness of which no save raises degrades every open position that *)
(* has no fresh mark: an unspoiled record tells which those are.             *)
THEOREM ParksTheBlind == Spec => CheckParksTheBlind
<1>1. ASSUME Inv, CheckFreshness, spoiled' = {}, NEW s \in held, records'[s] # "DEGRADED"
      PROVE  markAge[s] \in 0..StaleAfter
  <2> DEFINE S == {x \in Symbols : Armed(x) /\ Blind(x)}
             open == {x \in S : records[x] \notin {"CLOSED", "DEGRADED"}}
  <2>1. /\ s \in Symbols
        /\ spoiled = {}
        /\ \/ open = {} /\ records' = records
           \/ records' = [x \in Symbols |-> IF x \in open THEN "DEGRADED" ELSE records[x]]
    BY <1>1 DEF Inv, TypeOK, CheckFreshness, Degrade, Saves
  <2>2. records[s] \in {"PROTECTED", "DEGRADED"}
    BY <1>1, <2>1 DEF Inv, SaveInv, SaveTells
  <2>3. s \notin S
    BY <1>1, <2>1, <2>2
  <2>4. ~Blind(s)
    BY <2>1, <2>2, <2>3 DEF Armed
  <2>5. markAge[s] \in Ages
    BY <1>1, <2>1, <2>4 DEF Inv, TypeOK, Blind
  <2> QED BY <2>4, <2>5, MonitorAssumption DEF Ages, Blind
<1>2. Inv => [CheckFreshness /\ spoiled' = {}
                => \A s \in held : records'[s] # "DEGRADED"
                     => markAge[s] \in 0..StaleAfter]_vars
  BY <1>1
<1> QED BY InvHolds, <1>2, PTL DEF CheckParksTheBlind
=============================================================================
