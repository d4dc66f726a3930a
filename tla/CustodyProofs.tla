---------------------------- MODULE CustodyProofs ----------------------------
(* What Custody promises, for every set of files and paths. *)
EXTENDS Custody, TLAPS

CustodyInv == CustodyTypeOK /\ NothingForgotten

LEMMA MoveForgetsNothing ==
    ASSUME CustodyInv, NEW f \in File, NEW p \in Path, Move(f, p),
           p \in ShieldPath => at[f] = p \/ p \in owed' \cup lost',
           owed \cup lost \subseteq owed' \cup lost'
    PROVE  NothingForgotten'
<1> SUFFICES ASSUME NEW g \in disk', at'[g] \in ShieldPath
             PROVE  at'[g] \in owed' \cup lost'
  BY DEF NothingForgotten
<1>1. CASE g = f
  BY <1>1 DEF Move, CustodyInv, CustodyTypeOK, NothingForgotten
<1>2. CASE g # f
  <2>1. g \in disk /\ at'[g] = at[g] /\ at[g] # p
    BY <1>2 DEF Move, Occupant, CustodyInv, CustodyTypeOK
  <2> QED
    BY <2>1 DEF CustodyInv, NothingForgotten
<1> QED
  BY <1>1, <1>2

LEMMA CustodyStepTypes ==
    ASSUME CustodyTypeOK, [CustodyNext]_custodyVars
    PROVE  CustodyTypeOK'
<1> USE DEF CustodyTypeOK
<1>1. ASSUME NEW f \in File, NEW p \in Path, Move(f, p)
      PROVE  at' \in [File -> Path \cup {NoPath}] /\ disk' \subseteq File
  BY <1>1 DEF Move
<1>2. ASSUME NEW f \in File, NEW p \in Path, NEW q \in Path,
             Create(f, p) \/ UserMoves(f, p) \/ Take(f, p, q)
      PROVE  CustodyTypeOK'
  BY <1>1, <1>2 DEF Create, UserMoves, CarriedOff, Take, Promises
<1>3. ASSUME NEW f \in File, UserRemoves(f)
      PROVE  CustodyTypeOK'
  BY <1>3 DEF UserRemoves, Promises
<1>4. ASSUME NEW p \in ShieldPath, Save(p) \/ Release(p)
      PROVE  CustodyTypeOK'
  BY <1>4 DEF Save, Release
<1>5. CASE Settle \/ UserMovesDirectory \/ UNCHANGED custodyVars
  BY <1>5 DEF Settle, UserMovesDirectory, CarriedOff, custodyVars
<1> QED
  BY <1>2, <1>3, <1>4, <1>5 DEF CustodyNext

LEMMA CustodyForgetsNothing ==
    ASSUME CustodyInv, [CustodyNext]_custodyVars
    PROVE  NothingForgotten'
<1> USE DEF CustodyInv, CustodyTypeOK
<1>1. ASSUME NEW f \in File, NEW p \in Path \ ShieldPath, Create(f, p)
      PROVE  NothingForgotten'
  BY <1>1 DEF Create, Promises, NothingForgotten
<1>2. ASSUME NEW f \in File, NEW p \in Path, UserMoves(f, p)
      PROVE  NothingForgotten'
  <2>1. Move(f, p) /\ owed \cup lost \subseteq owed' \cup lost'
    BY <1>2 DEF UserMoves
  <2>2. p \in ShieldPath => at[f] = p \/ p \in owed' \cup lost'
    BY <1>2 DEF UserMoves, Move, CarriedOff
  <2> QED
    BY <2>1, <2>2, MoveForgetsNothing
<1>3. ASSUME NEW f \in File, UserRemoves(f)
      PROVE  NothingForgotten'
  BY <1>3 DEF UserRemoves, Promises, NothingForgotten
<1>4. ASSUME NEW p \in ShieldPath, Save(p) \/ Release(p)
      PROVE  NothingForgotten'
  BY <1>4 DEF Save, Release, Occupant, NothingForgotten
<1>5. CASE Settle
  BY <1>5 DEF Settle, Occupant, NothingForgotten
<1>6. CASE UNCHANGED custodyVars
  BY <1>6 DEF custodyVars, NothingForgotten
<1>7. ASSUME NEW f \in File, NEW p \in Path, NEW q \in Path, Take(f, p, q)
      PROVE  NothingForgotten'
  <2>1. Move(f, q) /\ owed \cup lost \subseteq owed' \cup lost'
    BY <1>7 DEF Take
  <2>2. q \in owed' \cup lost'
    BY <1>7 DEF Take
  <2> QED
    BY <2>1, <2>2, MoveForgetsNothing
<1>8. CASE UserMovesDirectory
  <2> SUFFICES ASSUME NEW g \in disk', at'[g] \in ShieldPath
               PROVE  at'[g] \in owed' \cup lost'
    BY DEF NothingForgotten
  <2>1. CASE at'[g] = at[g]
    BY <1>8, <2>1 DEF UserMovesDirectory, NothingForgotten
  <2>2. CASE at'[g] # at[g]
    BY <1>8, <2>2 DEF UserMovesDirectory, CarriedOff
  <2> QED
    BY <2>1, <2>2
<1> QED
  BY <1>1, <1>2, <1>3, <1>4, <1>5, <1>6, <1>7, <1>8 DEF CustodyNext

\* Whoever follows Custody never forgets a file at a held path.
THEOREM NothingIsForgotten == CustodySpec => []NothingForgotten
<1>1. CustodyInit => CustodyInv
  BY DEF CustodyInit, CustodyInv, CustodyTypeOK, NothingForgotten
<1>2. CustodyInv /\ [CustodyNext]_custodyVars => CustodyInv'
  BY CustodyStepTypes, CustodyForgetsNothing DEF CustodyInv
<1>3. CustodyInv => NothingForgotten
  BY DEF CustodyInv
<1> QED
  BY <1>1, <1>2, <1>3, PTL DEF CustodySpec
=============================================================================
