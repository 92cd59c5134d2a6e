------------------------ MODULE StateMachine_proofs ------------------------
(* Proofs about the PolyCall state machine, for tables of any size, any    *)
(* version width, any number of snapshot buffers and any callback depth.   *)
EXTENDS StateMachine, Integers, TLAPS

----------------------------------------------------------------------------
(* The checksum's arithmetic: a turn of its loop loses nothing, neither of *)
(* the word so far nor of the byte.                                        *)

\* Division with remainder, for the numbers that % and \div are used on.
LEMMA DivMod ==
  ASSUME NEW c \in Nat, NEW d \in Nat \ {0}
  PROVE  /\ c % d \in 0 .. d - 1
         /\ c \div d \in Nat
         /\ c = (c \div d) * d + (c % d)
<1>1. c % d \in 0 .. d - 1
  OBVIOUS
<1>2. c \div d \in Nat
  <2>1. c \div d \in Int
    OBVIOUS
  <2>2. c \div d >= 0
    BY Z3
  <2> QED
    BY <2>1, <2>2
<1>3. c = (c \div d) * d + (c % d)
  BY SMTT(30)
<1> QED
  BY <1>1, <1>2, <1>3

\* Multiplication keeps the order.
LEMMA Product ==
  ASSUME NEW a \in Nat, NEW b \in Nat, NEW m \in Nat, a <= b
  PROVE  a * m <= b * m
OBVIOUS

\* A number is written in one way as a high part and a low byte.
LEMMA Digits ==
  ASSUME NEW q \in Byte, NEW r \in 0 .. Top - 1, NEW p \in Byte, NEW s \in 0 .. Top - 1,
         r * Radix + q = s * Radix + p
  PROVE  r = s /\ q = p
<1>1. ASSUME r < s PROVE FALSE
  <2>1. s * Radix >= (r + 1) * Radix
    BY <1>1, WordAssumption
  <2> QED
    BY <2>1, WordAssumption DEF Byte
<1>2. ASSUME s < r PROVE FALSE
  <2>1. r * Radix >= (s + 1) * Radix
    BY <1>2, WordAssumption
  <2> QED
    BY <2>1, WordAssumption DEF Byte
<1> QED
  BY <1>1, <1>2, WordAssumption DEF Byte

\* The high part of a word is a byte.
LEMMA Quotient ==
  ASSUME NEW c \in Word
  PROVE  c \div Top \in Byte
<1>0. c \in Nat /\ Top \in Nat \ {0}
  BY WordAssumption DEF Word
<1>1. c = (c \div Top) * Top + (c % Top) /\ c % Top \in 0 .. Top - 1 /\ c \div Top \in Nat
  BY <1>0, DivMod
<1>2. ASSUME c \div Top >= Radix PROVE FALSE
  <2>1. Radix * Top <= (c \div Top) * Top
    BY <1>0, <1>1, <1>2, Product, WordAssumption
  <2> QED
    BY <2>1, <1>1, WordAssumption DEF Word
<1> QED
  BY <1>1, <1>2, WordAssumption DEF Byte

\* What Mix makes of the word before it adds the byte.
Rotated(c) == (c % Top) * Radix + c \div Top

\* A rotated word is a word,
LEMMA RotatedWord ==
  ASSUME NEW c \in Word
  PROVE  Rotated(c) \in Word
<1> DEFINE r == c % Top
           q == c \div Top
<1>0. c \in Nat
  BY WordAssumption DEF Word
<1>1. r \in 0 .. Top - 1 /\ q \in Byte
  BY <1>0, DivMod, Quotient, WordAssumption
<1> HIDE DEF r, q
<1>2. r * Radix <= (Top - 1) * Radix
  BY <1>1, Product, WordAssumption
<1>3. (Top - 1) * Radix = Top * Radix - Radix
  BY WordAssumption
<1>4. r * Radix \in Nat /\ Top * Radix \in Nat
  BY <1>1, WordAssumption
<1>5. r * Radix + q \in Word
  BY <1>1, <1>2, <1>3, <1>4, WordAssumption DEF Word, Byte
<1> QED
  BY <1>5 DEF Rotated, r, q

\* and no two words rotate to the same one.
LEMMA RotatedInjective ==
  ASSUME NEW c \in Word, NEW d \in Word, Rotated(c) = Rotated(d)
  PROVE  c = d
<1>0. c \in Nat /\ d \in Nat
  BY WordAssumption DEF Word
<1>1. c % Top \in 0 .. Top - 1 /\ d % Top \in 0 .. Top - 1
  BY <1>0, DivMod, WordAssumption
<1>2. c \div Top \in Byte /\ d \div Top \in Byte
  BY Quotient
<1>3. c % Top = d % Top /\ c \div Top = d \div Top
  BY <1>1, <1>2, Digits DEF Rotated
<1>4. /\ c = (c \div Top) * Top + (c % Top)
      /\ d = (d \div Top) * Top + (d % Top)
  BY <1>0, DivMod, WordAssumption
<1> QED
  BY <1>3, <1>4

\* A sum of two words overflows at most once.
LEMMA Wraps ==
  \A W \in Nat \ {0} : \A x, y \in 0 .. W - 1 :
    (x + y) % W = IF x + y < W THEN x + y ELSE x + y - W
<1> SUFFICES ASSUME NEW W \in Nat \ {0}, NEW x \in 0 .. W - 1, NEW y \in 0 .. W - 1
             PROVE  (x + y) % W = IF x + y < W THEN x + y ELSE x + y - W
  OBVIOUS
<1> DEFINE n == x + y
<1>0. n \in Nat /\ n < 2 * W
  OBVIOUS
<1> HIDE DEF n
<1> DEFINE k == n \div W
           r == n % W
<1>1. k \in Nat /\ r \in 0 .. W - 1 /\ n = k * W + r
  BY <1>0, DivMod
<1> HIDE DEF k, r
<1>2. k < 2
  <2> SUFFICES ASSUME k >= 2 PROVE FALSE
    BY <1>1
  <2>1. 2 * W <= k * W
    BY <1>1, Product
  <2> QED
    BY <2>1, <1>1, <1>0
<1>3. k = 0 \/ k = 1
  BY <1>1, <1>2
<1>4. r = IF n < W THEN n ELSE n - W
  BY <1>0, <1>1, <1>3
<1> QED
  BY <1>4 DEF r, n

LEMMA ZeroWord == 0 \in Word
<1>1. 1 * Radix <= Top * Radix
  BY Product, WordAssumption
<1> QED
  BY <1>1, WordAssumption DEF Word

\* A step of the sum loses nothing: neither of what came before nor of the byte.
LEMMA MixInjective ==
  ASSUME NEW c \in Word, NEW d \in Word, NEW b \in Byte, NEW e \in Byte
  PROVE  /\ Mix(c, b) \in Word
         /\ Mix(c, b) = Mix(d, b) => c = d
         /\ Mix(c, b) = Mix(c, e) => b = e
<1> DEFINE W == Top * Radix
           x == Rotated(c)
           y == Rotated(d)
<1>1. W \in Nat \ {0} /\ x \in 0 .. W - 1 /\ y \in 0 .. W - 1
  BY RotatedWord, WordAssumption DEF Word
<1>2. Radix <= W
  BY Product, WordAssumption
<1>3. b \in 0 .. W - 1 /\ e \in 0 .. W - 1
  BY <1>1, <1>2, WordAssumption DEF Byte
<1>4. Mix(c, b) = (x + b) % W /\ Mix(d, b) = (y + b) % W /\ Mix(c, e) = (x + e) % W
  BY DEF Mix, Rotated
<1>5. x = y => c = d
  BY RotatedInjective
<1>6. Word = 0 .. W - 1
  BY DEF Word
<1> HIDE DEF W, x, y
<1>7. /\ (x + b) % W = IF x + b < W THEN x + b ELSE x + b - W
      /\ (y + b) % W = IF y + b < W THEN y + b ELSE y + b - W
      /\ (x + e) % W = IF x + e < W THEN x + e ELSE x + e - W
  <2>1. (x + b) % W = IF x + b < W THEN x + b ELSE x + b - W
    BY <1>1, <1>3, Wraps
  <2>2. (y + b) % W = IF y + b < W THEN y + b ELSE y + b - W
    BY <1>1, <1>3, Wraps
  <2>3. (x + e) % W = IF x + e < W THEN x + e ELSE x + e - W
    BY <1>1, <1>3, Wraps
  <2> QED
    BY <2>1, <2>2, <2>3
<1>8. /\ (x + b) % W \in 0 .. W - 1
      /\ (x + b) % W = (y + b) % W => x = y
      /\ (x + b) % W = (x + e) % W => b = e
  BY <1>1, <1>3, <1>7
<1> QED
  BY <1>4, <1>5, <1>6, <1>8
\* The sum is a word, and two records that differ in one field only have
\* different sums.
LEMMA ChecksumSeparates ==
  ASSUME NEW s, NEW u,
         s.name \in AnyName, s.is_final \in BOOLEAN, s.id \in StateIds,
         u.name \in AnyName, u.is_final \in BOOLEAN, u.id = s.id
  PROVE  /\ Checksum(s) \in Word
         /\ s.name = u.name /\ s.is_final = u.is_final => Checksum(s) = Checksum(u)
         /\ Checksum(s) = Checksum(u) /\ s.is_final = u.is_final => s.name = u.name
         /\ Checksum(s) = Checksum(u) /\ s.name = u.name => s.is_final = u.is_final
<1> DEFINE a == Mix(0, Code[s.name])
           b == Mix(0, Code[u.name])
           c == Mix(a, Pointers)
           d == Mix(b, Pointers)
           e == Mix(c, Flag(s.is_final))
           g == Mix(d, Flag(u.is_final))
<1>1. /\ Code[s.name] \in Byte /\ Code[u.name] \in Byte /\ Pointers \in Byte
      /\ Flag(s.is_final) \in Byte /\ Flag(u.is_final) \in Byte /\ s.id \in Byte
  BY WordAssumption, CodeAssumption, SizesAssumption DEF Byte, Pointers, Flag, AnyName, StateIds
<1>2. 0 \in Word
  BY ZeroWord
<1>3. a \in Word /\ b \in Word
  BY <1>1, <1>2, MixInjective
<1> HIDE DEF a, b
<1>4. c \in Word /\ d \in Word
  BY <1>1, <1>3, MixInjective
<1> HIDE DEF c, d
<1>5. e \in Word /\ g \in Word
  BY <1>1, <1>4, MixInjective
<1> HIDE DEF e, g
<1>6. Checksum(s) = Mix(e, s.id) /\ Checksum(u) = Mix(g, s.id)
  BY DEF Checksum, a, b, c, d, e, g
<1>7. Mix(e, s.id) \in Word /\ (Mix(e, s.id) = Mix(g, s.id) => e = g)
  BY <1>1, <1>5, MixInjective
<1>8. s.is_final = u.is_final /\ e = g => c = d
  BY <1>1, <1>4, MixInjective DEF e, g
<1>9. c = d => a = b
  BY <1>1, <1>3, MixInjective DEF c, d
<1>10. a = b => s.name = u.name
  BY <1>1, <1>2, MixInjective, CodeAssumption DEF a, b, AnyName
<1>11. s.name = u.name => c = d
  BY DEF a, b, c, d
<1>12. c = d /\ e = g => Flag(s.is_final) = Flag(u.is_final)
  BY <1>1, <1>4, MixInjective DEF e, g
<1>13. Flag(s.is_final) = Flag(u.is_final) => s.is_final = u.is_final
  BY DEF Flag
<1>14. s.name = u.name /\ s.is_final = u.is_final => e = g
  BY <1>11 DEF e, g
<1> QED
  BY <1>6, <1>7, <1>8, <1>9, <1>10, <1>11, <1>12, <1>13, <1>14

----------------------------------------------------------------------------
(* The operators on one state *)

\* update_state_timestamp keeps a version within its width.
LEMMA NextVersionType ==
  ASSUME NEW v \in 0 .. VersionMod - 1
  PROVE  NextVersion(v) \in 0 .. VersionMod - 1
BY VersionAssumption DEF NextVersion

\* update_state_timestamp changes the version only.
LEMMA UpdatedType ==
  ASSUME NEW s \in State
  PROVE  /\ Updated(s) \in State
         /\ Updated(s).version = NextVersion(s.version)
         /\ Updated(s).name = s.name
         /\ Updated(s).is_final = s.is_final
         /\ Updated(s).id = s.id
         /\ Updated(s).checksum = s.checksum
         /\ Updated(s).is_locked = s.is_locked
<1>1. s.version \in 0 .. VersionMod - 1
  BY DEF State
<1>2. NextVersion(s.version) \in 0 .. VersionMod - 1
  BY <1>1, NextVersionType
<1> QED
  BY <1>2 DEF Updated, State

\* Setting or clearing the lock of a state, or its flag, leaves a state.
LEMMA LockBitType ==
  ASSUME NEW s \in State, NEW v \in BOOLEAN
  PROVE  /\ [s EXCEPT !.is_locked = v] \in State
         /\ [s EXCEPT !.is_locked = v].is_locked = v
         /\ [s EXCEPT !.is_locked = v].version = s.version
         /\ [s EXCEPT !.is_locked = v].id = s.id
         /\ [s EXCEPT !.is_locked = v].checksum = s.checksum
         /\ [s EXCEPT !.is_locked = v].name = s.name
         /\ [s EXCEPT !.is_locked = v].is_final = s.is_final
         /\ [s EXCEPT !.is_final = v] \in State
BY DEF State

\* The entry that polycall_sm_add_state writes.
LEMMA NewStateType ==
  ASSUME NEW i \in StateIds, NEW n \in Names, NEW f \in BOOLEAN
  PROVE  /\ NewState(i, n, f) \in State
         /\ NewState(i, n, f).id = i
         /\ ~NewState(i, n, f).is_locked
         /\ Covered(NewState(i, n, f)) \in Digest
         /\ NewState(i, n, f).checksum = Checksum(Covered(NewState(i, n, f)))
<1>1. Trunc[n] \in AnyName
  BY NamesAssumption DEF AnyName
<1>2. NextVersion(1) \in 0 .. VersionMod - 1
  BY VersionAssumption DEF NextVersion
<1> DEFINE d == [name |-> Trunc[n], is_final |-> f, id |-> i]
<1>3. d \in Digest /\ d.name \in AnyName /\ d.is_final \in BOOLEAN /\ d.id \in StateIds
  BY <1>1 DEF Digest
<1>4. Checksum(d) \in Word
  BY <1>3, ChecksumSeparates
<1>5. Covered(NewState(i, n, f)) = d /\ NewState(i, n, f).checksum = Checksum(d)
  BY DEF Covered, NewState
<1>6. NewState(i, n, f) \in State /\ NewState(i, n, f).id = i /\ ~NewState(i, n, f).is_locked
  BY <1>1, <1>2, <1>4 DEF NewState, State
<1> QED
  BY <1>3, <1>5, <1>6

LEMMA ZeroTypes ==
  /\ ZeroState \in State
  /\ ZeroDigest \in Digest
  /\ ZeroTransition \in Transition
  /\ ZeroFrame \in Frame
  /\ 0 \in StateIds
BY SizesAssumption, VersionAssumption, ZeroWord
   DEF ZeroState, ZeroDigest, ZeroTransition, ZeroFrame, State, Digest, Transition, Frame,
       StateIds, AnyName

LEMMA HistoryTypes ==
  ASSUME TypeOK, NEW i \in StateIds
  PROVE  /\ Older(i) \in [Buffers -> 0 .. VersionMod]
         /\ LockedInside(i) \in [Frames -> Frame]
<1>1. Older(i) \in [Buffers -> 0 .. VersionMod]
  <2>1. ASSUME NEW b \in Buffers
        PROVE  (IF snapshots[b].id = i /\ origin[b] = gen /\ age[b] < VersionMod
                THEN age[b] + 1 ELSE age[b]) \in 0 .. VersionMod
    <3>1. age[b] \in 0 .. VersionMod
      BY DEF TypeOK
    <3> QED
      BY <3>1, VersionAssumption
  <2> QED
    BY <2>1 DEF Older
<1>2. LockedInside(i) \in [Frames -> Frame]
  <2>1. ASSUME NEW k \in Frames
        PROVE  [frame[k] EXCEPT !.inside = TRUE] \in Frame /\ frame[k] \in Frame
    BY DEF TypeOK, Frame
  <2> QED
    BY <2>1 DEF LockedInside
<1> QED
  BY <1>1, <1>2

----------------------------------------------------------------------------
(* Type correctness *)

LEMMA TypeInit == Init => TypeOK
<1> SUFFICES ASSUME Init PROVE TypeOK
  OBVIOUS
<1>1. is_initialized \in BOOLEAN /\ has_check \in BOOLEAN
  BY DEF Init
<1> QED
  BY <1>1, ZeroTypes, SizesAssumption, VersionAssumption DEF Init, TypeOK

LEMMA TypeStep == TypeOK /\ [Next]_vars => TypeOK'
<1> SUFFICES ASSUME TypeOK, [Next]_vars PROVE TypeOK'
  OBVIOUS
<1> USE DEF machine, table, diagnostics, buffers, calls, history
<1>1. ASSUME NEW c \in BOOLEAN, Create(c) PROVE TypeOK'
  BY <1>1, ZeroTypes, SizesAssumption DEF TypeOK, Create, FreshTables
<1>2. CASE Destroy
  <2>1. is_initialized' \in BOOLEAN /\ has_check' \in BOOLEAN
    BY <1>2 DEF Destroy
  <2> QED
    BY <1>2, <2>1, ZeroTypes, SizesAssumption DEF TypeOK, Destroy, FreshTables
<1>3. ASSUME NEW n \in Names, NEW f \in BOOLEAN, AddState(n, f) PROVE TypeOK'
  <2>1. num_states \in StateIds /\ num_states' \in 0 .. MaxStates
    BY <1>3, SizesAssumption DEF TypeOK, AddState, RoomForState, StateIds
  <2>2. NewState(num_states, n, f) \in State
    BY <2>1, NewStateType
  <2>3. Covered(states'[num_states]) \in Digest
    BY <1>3, <2>1, NewStateType DEF TypeOK, AddState
  <2> QED
    BY <1>3, <2>1, <2>2, <2>3 DEF TypeOK, AddState
<1>4. ASSUME NEW n \in Names, NEW i \in StateIds, NEW j \in StateIds, NEW g \in BOOLEAN,
             AddTransition(n, i, j, g)
      PROVE  TypeOK'
  <2>1. num_transitions \in TransitionIds /\ num_transitions' \in 0 .. MaxTransitions
    BY <1>4, SizesAssumption DEF TypeOK, AddTransition, TransitionIds
  <2>2. [name |-> Trunc[n], from_state |-> i, to_state |-> j, guarded |-> g] \in Transition
    BY NamesAssumption DEF Transition, AnyName
  <2> QED
    BY <1>4, <2>1, <2>2 DEF TypeOK, AddTransition
<1>5. ASSUME NEW n \in Names, NEW g \in BOOLEAN, ExecuteFails(n, g) PROVE TypeOK'
  BY <1>5, SizesAssumption DEF TypeOK, ExecuteFails, Bumped
<1>6. ASSUME NEW n \in Names, NEW g \in BOOLEAN, ExecuteBegin(n, g) PROVE TypeOK'
  <2>1. depth + 1 \in Frames /\ depth' \in 0 .. MaxDepth
    BY <1>6, SizesAssumption DEF TypeOK, ExecuteBegin, Frames
  <2>2. frame' \in [Frames -> Frame]
    BY <1>6, <2>1 DEF TypeOK, ExecuteBegin, Transition, Frame
  <2> QED
    BY <1>6, <2>1, <2>2 DEF TypeOK, ExecuteBegin
<1>7. CASE ExecuteCommit
  <2> DEFINE to == frame[depth].to_state
  <2>1. depth \in Frames /\ depth' \in 0 .. MaxDepth
    BY <1>7, SizesAssumption DEF TypeOK, ExecuteCommit, Frames
  <2>2. to \in StateIds
    BY <2>1 DEF TypeOK, Frame
  <2>3. Updated(states[to]) \in State
    BY <2>2, UpdatedType DEF TypeOK
  <2>4. states' \in [StateIds -> State] /\ current_state' \in StateIds
    BY <1>7, <2>2, <2>3 DEF TypeOK, ExecuteCommit
  <2>5. age' \in [Buffers -> 0 .. VersionMod]
    BY <1>7, <2>2, HistoryTypes DEF ExecuteCommit
  <2>6. frame' \in [Frames -> Frame]
    BY <1>7, <2>1, ZeroTypes DEF TypeOK, ExecuteCommit
  <2> QED
    BY <1>7, <2>1, <2>4, <2>5, <2>6 DEF TypeOK, ExecuteCommit
<1>8. ASSUME NEW i \in StateIds, NEW ok \in BOOLEAN, VerifyFails(i, ok) PROVE TypeOK'
  BY <1>8, SizesAssumption DEF TypeOK, VerifyFails, Bumped
<1>9. ASSUME NEW i \in StateIds, LockState(i) PROVE TypeOK'
  <2>1. Updated([states[i] EXCEPT !.is_locked = TRUE]) \in State
    <3>1. [states[i] EXCEPT !.is_locked = TRUE] \in State
      BY LockBitType DEF TypeOK
    <3> QED
      BY <3>1, UpdatedType
  <2> QED
    BY <1>9, <2>1, HistoryTypes DEF TypeOK, LockState
<1>10. ASSUME NEW i \in StateIds, UnlockState(i) PROVE TypeOK'
  <2>1. Updated([states[i] EXCEPT !.is_locked = FALSE]) \in State
    <3>1. [states[i] EXCEPT !.is_locked = FALSE] \in State
      BY LockBitType DEF TypeOK
    <3> QED
      BY <3>1, UpdatedType
  <2> QED
    BY <1>10, <2>1, HistoryTypes DEF TypeOK, UnlockState
<1>11. ASSUME NEW b \in Buffers, NEW i \in StateIds, CreateStateSnapshot(b, i) PROVE TypeOK'
  BY <1>11, VersionAssumption DEF TypeOK, CreateStateSnapshot
<1>12. ASSUME NEW b \in Buffers, RestoreStateFromSnapshot(b) PROVE TypeOK'
  <2>1. snapshots[b] \in State /\ snapshots[b].id \in StateIds
    BY DEF TypeOK, State
  <2>2. Updated(snapshots[b]) \in State
    BY <2>1, UpdatedType
  <2>3. frame' \in [Frames -> Frame] /\ age' \in [Buffers -> 0 .. VersionMod]
    BY <1>12, <2>1, HistoryTypes DEF TypeOK, RestoreStateFromSnapshot
  <2> QED
    BY <1>12, <2>1, <2>2, <2>3 DEF TypeOK, RestoreStateFromSnapshot
<1>13. ASSUME NEW i \in StateIds, StrayWrite(i) PROVE TypeOK'
  <2>1. [states[i] EXCEPT !.is_final = ~@] \in State
    <3>1. states[i] \in State /\ (~states[i].is_final) \in BOOLEAN
      BY DEF TypeOK
    <3> QED
      BY <3>1, LockBitType
  <2>2. states' \in [StateIds -> State]
    <3>1. CASE states' = [states EXCEPT ![i].is_final = ~@]
      BY <2>1, <3>1 DEF TypeOK
    <3>2. ASSUME NEW n \in AnyName, states' = [states EXCEPT ![i].name = n]
          PROVE  states' \in [StateIds -> State]
      <4>1. [states[i] EXCEPT !.name = n] \in State
        BY DEF TypeOK, State
      <4> QED
        BY <3>2, <4>1 DEF TypeOK
    <3> QED
      BY <1>13, <3>1, <3>2 DEF StrayWrite
  <2>3. written' \in [StateIds -> SUBSET {"name", "is_final"}]
    BY <1>13 DEF TypeOK, StrayWrite
  <2> QED
    BY <1>13, <2>2, <2>3 DEF TypeOK, StrayWrite
<1>14. CASE UNCHANGED vars
  BY <1>14 DEF TypeOK, vars
<1> QED
  BY <1>1, <1>2, <1>3, <1>4, <1>5, <1>6, <1>7, <1>8, <1>9, <1>10, <1>11, <1>12, <1>13, <1>14
     DEF Next

\* Every table, index, counter and version keeps its type and range.
THEOREM TypeCorrect == Spec => []TypeOK
<1>1. Init => TypeOK
  BY TypeInit
<1>2. TypeOK /\ [Next]_vars => TypeOK'
  BY TypeStep
<1> QED
  BY <1>1, <1>2, PTL DEF Spec

----------------------------------------------------------------------------
(* The inductive invariant.  IndicesInBounds and LockedOnlyFromInside are  *)
(* inductive with it; RestoreOnlyHeals and VerifySound follow from what it *)
(* says about versions, checksums and the snapshots of this machine.       *)

\* Entry i describes state i, or is still zero; a destroyed machine is empty.
SlotsInv ==
  /\ \A i \in StateIds : IF i < num_states THEN states[i].id = i ELSE states[i] = ZeroState
  /\ ~is_initialized => num_states = 0 /\ depth = 0

\* Two versions of a state, n < VersionMod updates apart.
Apart(old, new, n) == new = old + n \/ new = old + n - VersionMod

\* A snapshot of this machine names a state of it, and is as many updates
\* behind that state as its age says.
AgeInv ==
  is_initialized => \A b \in Buffers : Young(b) =>
    LET i == snapshots[b].id
    IN  /\ i < num_states
        /\ Apart(snapshots[b].version, states[i].version, age[b])
        /\ age[b] = 0 => /\ states[i].checksum = snapshots[b].checksum
                         /\ states[i].is_locked = snapshots[b].is_locked

\* s is a copy of state i as it was registered, but for the fields that stray
\* writes have hit; its stored checksum has never been touched.
Sealed(s, i) ==
  /\ s.checksum = Checksum(registered[i])
  /\ s.name # registered[i].name => "name" \in written[i]
  /\ s.is_final # registered[i].is_final => "is_final" \in written[i]

\* The table and the snapshots of this machine hold such copies.
ChecksumInv ==
  /\ \A i \in StateIds : i < num_states
       => registered[i].id = i /\ (i \notin foreign => Sealed(states[i], i))
  /\ is_initialized => \A b \in has_snapshot : origin[b] = gen =>
       /\ snapshots[b].id < num_states
       /\ snapshots[b].id \notin foreign => Sealed(snapshots[b], snapshots[b].id)

\* No buffer was filled by a machine that does not exist yet.
OriginInv == \A b \in Buffers : origin[b] <= gen

IndInv == /\ TypeOK
          /\ IndicesInBounds
          /\ LockedOnlyFromInside
          /\ SlotsInv
          /\ AgeInv
          /\ ChecksumInv
          /\ OriginInv

----------------------------------------------------------------------------
(* What the calls that update a state's version have in common *)

\* One more update keeps the distance between versions right.
LEMMA ApartStep ==
  ASSUME NEW old \in 0 .. VersionMod - 1, NEW new \in 0 .. VersionMod - 1,
         NEW n \in Nat, n + 1 < VersionMod, Apart(old, new, n)
  PROVE  Apart(old, NextVersion(new), n + 1)
BY VersionAssumption DEF Apart, NextVersion

\* Fewer than VersionMod updates apart, equal versions mean no update.
LEMMA ApartZero ==
  ASSUME NEW old \in 0 .. VersionMod - 1, NEW n \in Nat, n < VersionMod, Apart(old, old, n)
  PROVE  n = 0
BY VersionAssumption DEF Apart

\* A step that updates state i and lets the snapshots of i age keeps AgeInv.
LEMMA AgeStep ==
  ASSUME TypeOK, TypeOK', AgeInv, is_initialized, NEW i \in StateIds,
         \A j \in StateIds : j # i => states'[j] = states[j],
         states'[i].version = NextVersion(states[i].version),
         age' = Older(i),
         UNCHANGED <<num_states, snapshots, has_snapshot, origin, gen>>
  PROVE  AgeInv'
<1> SUFFICES ASSUME NEW b \in Buffers, Young(b)'
             PROVE  LET j == snapshots[b].id
                    IN  /\ j < num_states
                        /\ Apart(snapshots[b].version, states'[j].version, age'[b])
                        /\ age'[b] = 0 => /\ states'[j].checksum = snapshots[b].checksum
                                          /\ states'[j].is_locked = snapshots[b].is_locked
  BY DEF AgeInv, Apart
<1> DEFINE j == snapshots[b].id
<1>1. age[b] \in 0 .. VersionMod /\ snapshots[b] \in State /\ j \in StateIds
  BY DEF TypeOK, State
<1>2. age'[b] = IF j = i /\ age[b] < VersionMod THEN age[b] + 1 ELSE age[b]
  BY DEF Young, Older
<1>3. Young(b)
  BY <1>1, <1>2, VersionAssumption DEF Young
<1>4. /\ j < num_states
      /\ Apart(snapshots[b].version, states[j].version, age[b])
      /\ age[b] = 0 => /\ states[j].checksum = snapshots[b].checksum
                       /\ states[j].is_locked = snapshots[b].is_locked
  BY <1>3 DEF AgeInv
<1>5. CASE j = i
  <2>1. age'[b] = age[b] + 1 /\ age[b] + 1 < VersionMod
    BY <1>1, <1>2, <1>3, <1>5, VersionAssumption DEF Young
  <2>2. snapshots[b].version \in 0 .. VersionMod - 1 /\ states[j].version \in 0 .. VersionMod - 1
    BY <1>1 DEF TypeOK, State
  <2>3. Apart(snapshots[b].version, NextVersion(states[j].version), age[b] + 1)
    BY <1>1, <1>4, <2>1, <2>2, ApartStep
  <2> QED
    BY <1>1, <1>4, <1>5, <2>1, <2>3
<1>6. CASE j # i
  BY <1>1, <1>2, <1>4, <1>6
<1> QED
  BY <1>5, <1>6

----------------------------------------------------------------------------
(* Every step keeps the invariant *)

LEMMA IndInit == Init => IndInv
<1> SUFFICES ASSUME Init PROVE IndInv
  OBVIOUS
<1>1. TypeOK
  BY TypeInit
<1>2. IndicesInBounds /\ LockedOnlyFromInside
  BY SizesAssumption
     DEF Init, IndicesInBounds, LockedOnlyFromInside, Frames, TransitionIds
<1>3. SlotsInv /\ AgeInv /\ ChecksumInv /\ OriginInv
  BY SizesAssumption DEF Init, SlotsInv, AgeInv, ChecksumInv, OriginInv, StateIds
<1> QED
  BY <1>1, <1>2, <1>3 DEF IndInv

\* A machine is created or destroyed: all tables are zero again.
LEMMA IndFresh ==
  ASSUME IndInv, TypeOK', FreshTables, depth' = 0, UNCHANGED buffers,
         \/ is_initialized' = FALSE /\ gen' = gen
         \/ gen' = gen + 1
  PROVE  IndInv'
<1> USE DEF IndInv, FreshTables, buffers
<1>1. IndicesInBounds' /\ LockedOnlyFromInside'
  BY SizesAssumption DEF IndicesInBounds, LockedOnlyFromInside, TransitionIds, Frames
<1>2. SlotsInv'
  BY SizesAssumption DEF SlotsInv, StateIds
<1>3. OriginInv'
  BY DEF OriginInv, TypeOK
<1>4. \A b \in Buffers : is_initialized' => origin'[b] # gen'
  <2>1. \A b \in Buffers : origin[b] \in Nat /\ origin[b] <= gen /\ gen \in Nat
    BY SizesAssumption DEF TypeOK, OriginInv
  <2> QED
    BY <2>1
<1>5. AgeInv'
  BY <1>4 DEF AgeInv, Young
<1>6. ChecksumInv'
  BY <1>4 DEF ChecksumInv, StateIds, TypeOK
<1> QED
  BY <1>1, <1>2, <1>3, <1>5, <1>6

LEMMA IndAddState ==
  ASSUME IndInv, TypeOK', NEW n \in Names, NEW f \in BOOLEAN, AddState(n, f)
  PROVE  IndInv'
<1> USE DEF IndInv, AddState, machine, diagnostics, buffers, calls
<1>1. num_states \in StateIds /\ num_states' = num_states + 1
  BY SizesAssumption DEF TypeOK, RoomForState, StateIds
<1> DEFINE new == NewState(num_states, n, f)
<1>2. new \in State /\ new.id = num_states /\ ~new.is_locked
      /\ new.checksum = Checksum(Covered(new))
  BY <1>1, NewStateType
<1>3. \A i \in StateIds : i # num_states => states'[i] = states[i] /\ registered'[i] = registered[i]
  BY DEF TypeOK
<1>4. states'[num_states] = new
      /\ registered'[num_states] = Covered(new)
  BY <1>1 DEF TypeOK
<1>5. IndicesInBounds'
  BY <1>1, SizesAssumption DEF IndicesInBounds, TypeOK, StateIds, Transition, Frame
<1>6. LockedOnlyFromInside'
  <2>1. \A k \in Frames : k <= depth =>
           /\ frame[k].from_state \in StateIds /\ frame[k].from_state # num_states
           /\ frame[k].to_state \in StateIds /\ frame[k].to_state # num_states
    BY <1>1 DEF TypeOK, Frame, IndicesInBounds, StateIds
  <2> QED
    BY <1>3, <2>1 DEF LockedOnlyFromInside
<1>7. SlotsInv'
  BY <1>1, <1>2, <1>3, <1>4 DEF SlotsInv, StateIds
<1>8. AgeInv'
  <2> SUFFICES ASSUME NEW b \in Buffers, Young(b)
               PROVE  LET j == snapshots[b].id
                      IN  /\ j < num_states
                          /\ j < num_states'
                          /\ states'[j] = states[j]
    BY DEF AgeInv, Young, Apart
  <2>1. snapshots[b].id < num_states
    BY DEF AgeInv
  <2>2. snapshots[b].id \in StateIds
    BY DEF TypeOK, State
  <2> QED
    BY <1>1, <1>3, <2>1, <2>2 DEF StateIds
<1> HIDE DEF new
<1>9. ChecksumInv'
  <2>1. \A i \in StateIds : \A s : i # num_states /\ Sealed(s, i)
          => /\ s.checksum = Checksum(registered'[i])
             /\ s.name # registered'[i].name => "name" \in written'[i]
             /\ s.is_final # registered'[i].is_final => "is_final" \in written'[i]
    BY <1>3 DEF Sealed
  <2>2. /\ new.checksum = Checksum(registered'[num_states])
        /\ new.name = registered'[num_states].name
        /\ new.is_final = registered'[num_states].is_final
        /\ registered'[num_states].id = num_states
    BY <1>2, <1>4 DEF Covered
  <2>3. ASSUME NEW i \in StateIds, i < num_states'
        PROVE  /\ registered'[i].id = i
               /\ i \notin foreign =>
                    /\ states'[i].checksum = Checksum(registered'[i])
                    /\ states'[i].name # registered'[i].name => "name" \in written'[i]
                    /\ states'[i].is_final # registered'[i].is_final => "is_final" \in written'[i]
    <3>1. CASE i = num_states
      BY <1>4, <2>2, <3>1
    <3>2. CASE i # num_states
      <4>1. i < num_states
        BY <1>1, <2>3, <3>2 DEF StateIds
      <4> QED
        BY <1>3, <2>1, <3>2, <4>1 DEF ChecksumInv
    <3> QED
      BY <3>1, <3>2
  <2>4. ASSUME NEW b \in has_snapshot, origin[b] = gen
        PROVE  /\ snapshots[b].id < num_states'
               /\ snapshots[b].id \notin foreign => Sealed(snapshots[b], snapshots[b].id)'
    <3>1. snapshots[b].id \in StateIds
      BY DEF TypeOK, State
    <3>2. snapshots[b].id < num_states
      BY <2>4 DEF ChecksumInv
    <3>3. snapshots[b].id < num_states' /\ snapshots[b].id # num_states
      BY <1>1, <3>1, <3>2 DEF StateIds
    <3> QED
      BY <2>1, <2>4, <3>1, <3>3 DEF ChecksumInv, Sealed
  <2>5. UNCHANGED <<is_initialized, gen, snapshots, has_snapshot, origin, foreign, written>>
    OBVIOUS
  <2> HIDE DEF AddState, IndInv
  <2>6. (\A i \in StateIds : i < num_states
          => registered[i].id = i /\ (i \notin foreign => Sealed(states[i], i)))'
    BY <2>3, <2>5 DEF Sealed
  <2>7. (\A b \in has_snapshot : origin[b] = gen =>
          /\ snapshots[b].id < num_states
          /\ snapshots[b].id \notin foreign => Sealed(snapshots[b], snapshots[b].id))'
    BY <2>4, <2>5 DEF Sealed
  <2> QED
    BY <2>6, <2>7 DEF ChecksumInv
<1>10. OriginInv'
  BY DEF OriginInv
<1> QED
  BY <1>5, <1>6, <1>7, <1>8, <1>9, <1>10

LEMMA IndAddTransition ==
  ASSUME IndInv, TypeOK', NEW n \in Names, NEW i \in StateIds, NEW j \in StateIds,
         NEW g \in BOOLEAN, AddTransition(n, i, j, g)
  PROVE  IndInv'
<1> USE DEF IndInv, AddTransition, machine, diagnostics, buffers, calls, history
<1>1. num_transitions \in TransitionIds /\ num_transitions' = num_transitions + 1
  BY SizesAssumption DEF TypeOK, TransitionIds
<1>2. \A t \in TransitionIds : t # num_transitions => transitions'[t] = transitions[t]
  BY DEF TypeOK
<1>3. /\ transitions'[num_transitions].from_state = i
      /\ transitions'[num_transitions].to_state = j
  BY <1>1 DEF TypeOK
<1>4. IndicesInBounds'
  BY <1>1, <1>2, <1>3 DEF IndicesInBounds, KnownEndpoints, TransitionIds
<1>5. LockedOnlyFromInside' /\ SlotsInv' /\ OriginInv'
  BY DEF LockedOnlyFromInside, SlotsInv, OriginInv
<1>6. AgeInv' /\ ChecksumInv'
  BY DEF AgeInv, Young, Apart, ChecksumInv, Sealed
<1> QED
  BY <1>4, <1>5, <1>6

LEMMA IndExecuteBegin ==
  ASSUME IndInv, TypeOK', NEW n \in Names, NEW g \in BOOLEAN, ExecuteBegin(n, g)
  PROVE  IndInv'
<1> USE DEF IndInv, machine, table, diagnostics, buffers, history
<1>1. PICK t \in TransitionIds :
        /\ Found(n, t)
        /\ EndpointsUnlocked(t)
        /\ frame' = [frame EXCEPT ![depth + 1] =
                       [from_state |-> transitions[t].from_state,
                        to_state |-> transitions[t].to_state, inside |-> FALSE]]
  BY DEF ExecuteBegin
<1>2. /\ transitions[t].from_state < num_states
      /\ transitions[t].to_state < num_states
  BY <1>1 DEF Found, Matching, IndicesInBounds
<1>3. depth + 1 \in Frames /\ depth' = depth + 1
  BY SizesAssumption DEF TypeOK, ExecuteBegin, Frames
<1>4. \A k \in Frames : k # depth + 1 => frame'[k] = frame[k]
  BY <1>1 DEF TypeOK
<1>5. frame'[depth + 1] = [from_state |-> transitions[t].from_state,
                           to_state |-> transitions[t].to_state, inside |-> FALSE]
  BY <1>1, <1>3 DEF TypeOK
<1>6. \A k \in Frames : k <= depth' => k <= depth \/ k = depth + 1
  BY <1>3 DEF TypeOK, Frames
<1>7. UNCHANGED <<is_initialized, gen, states, num_states, transitions, num_transitions,
                  current_state, snapshots, has_snapshot, age, origin, registered, foreign, written>>
  BY DEF ExecuteBegin
<1>8. IndicesInBounds'
  <2>1. \A k \in Frames : k <= depth' =>
          frame'[k].from_state < num_states /\ frame'[k].to_state < num_states
    BY <1>2, <1>3, <1>4, <1>5, <1>6 DEF IndicesInBounds
  <2> QED
    BY <1>7, <2>1 DEF IndicesInBounds
<1>9. LockedOnlyFromInside'
  BY <1>1, <1>3, <1>4, <1>5, <1>6, <1>7 DEF LockedOnlyFromInside, EndpointsUnlocked
<1>10. SlotsInv' /\ OriginInv'
  BY <1>7 DEF SlotsInv, OriginInv, ExecuteBegin
<1>11. AgeInv' /\ ChecksumInv'
  BY <1>7 DEF AgeInv, Young, Apart, ChecksumInv, Sealed
<1> QED
  BY <1>8, <1>9, <1>10, <1>11

\* The part common to ExecuteCommit, LockState, UnlockState and restores:
\* state i is updated, frames keep their endpoints and learn of new locks.
LEMMA IndUpdate ==
  ASSUME IndInv, TypeOK', is_initialized, NEW i \in StateIds, i < num_states,
         \A j \in StateIds : j # i => states'[j] = states[j],
         states'[i].version = NextVersion(states[i].version),
         states'[i].id = i,
         i \notin foreign' => Sealed(states'[i], i),
         foreign \subseteq foreign',
         age' = Older(i),
         depth' <= depth,
         \A k \in Frames : k <= depth' =>
           /\ frame'[k].from_state = frame[k].from_state
           /\ frame'[k].to_state = frame[k].to_state
           /\ frame[k].inside => frame'[k].inside
           /\ states'[i].is_locked /\ ~states[i].is_locked
                /\ i \in {frame[k].from_state, frame[k].to_state} => frame'[k].inside,
         current_state' = current_state \/ current_state' = i,
         UNCHANGED <<machine, num_states, transitions, num_transitions,
                     snapshots, has_snapshot, origin, registered, written>>
  PROVE  IndInv'
<1> USE DEF IndInv, machine
<1>1. \A k \in Frames : k <= depth' => k <= depth
  BY DEF TypeOK, Frames
<1>2. IndicesInBounds'
  BY <1>1 DEF IndicesInBounds
<1>3. LockedOnlyFromInside'
  <2> SUFFICES ASSUME NEW k \in Frames, k <= depth',
                      NEW e \in {frame[k].from_state, frame[k].to_state}, states'[e].is_locked
               PROVE  frame'[k].inside
    BY DEF LockedOnlyFromInside
  <2>1. e \in StateIds
    BY DEF TypeOK, Frame
  <2>2. CASE e = i /\ ~states[i].is_locked
    BY <2>2
  <2>3. CASE e # i \/ states[i].is_locked
    <3>1. states[e].is_locked
      BY <2>1, <2>3
    <3>2. frame[k].inside
      BY <1>1, <3>1 DEF LockedOnlyFromInside
    <3> QED
      BY <3>2
  <2> QED
    BY <2>2, <2>3
<1>4. SlotsInv'
  BY DEF SlotsInv, StateIds
<1>5. AgeInv'
  <2>1. UNCHANGED <<num_states, snapshots, has_snapshot, origin, gen>>
    OBVIOUS
  <2> QED
    BY <2>1, AgeStep
<1>6. ChecksumInv'
  BY DEF ChecksumInv, Sealed
<1>7. OriginInv'
  BY DEF OriginInv
<1> QED
  BY <1>2, <1>3, <1>4, <1>5, <1>6, <1>7

LEMMA IndExecuteCommit ==
  ASSUME IndInv, TypeOK', ExecuteCommit
  PROVE  IndInv'
<1> USE DEF IndInv, ExecuteCommit, machine, diagnostics, history
<1> DEFINE to == frame[depth].to_state
<1>1. depth \in Frames /\ depth' = depth - 1
  BY DEF TypeOK, Frames
<1>2. to \in StateIds /\ to < num_states /\ is_initialized
  BY <1>1, SizesAssumption DEF TypeOK, Frame, IndicesInBounds, SlotsInv, Frames
<1>3. \A j \in StateIds : j # to => states'[j] = states[j]
  BY DEF TypeOK
<1>4. states[to] \in State /\ states'[to] = Updated(states[to])
  BY <1>2 DEF TypeOK
<1>5. /\ states'[to].version = NextVersion(states[to].version)
      /\ states'[to].id = to
      /\ states'[to].checksum = states[to].checksum
      /\ states'[to].name = states[to].name
      /\ states'[to].is_final = states[to].is_final
      /\ states'[to].is_locked = states[to].is_locked
  BY <1>2, <1>4, UpdatedType DEF SlotsInv
<1>6. \A k \in Frames : k <= depth' => frame'[k] = frame[k]
  BY <1>1 DEF TypeOK, Frames
<1>7. to \notin foreign' => Sealed(states'[to], to)
  BY <1>2, <1>5 DEF ChecksumInv, Sealed
<1>8. age' = Older(to) /\ foreign \subseteq foreign' /\ depth' <= depth /\ current_state' = to
  BY <1>1 DEF Frames
<1> HIDE DEF ExecuteCommit, to
<1>9. UNCHANGED <<machine, num_states, transitions, num_transitions, snapshots, has_snapshot,
                  origin, registered, written>>
  BY DEF ExecuteCommit
<1> QED
  BY <1>2, <1>3, <1>5, <1>6, <1>7, <1>8, <1>9, IndUpdate

\* Locking (v = TRUE) and unlocking (v = FALSE).
LEMMA IndLockBit ==
  ASSUME IndInv, TypeOK', NEW i \in StateIds, i < num_states, NEW v \in BOOLEAN, is_initialized,
         states' = [states EXCEPT ![i] = Updated([@ EXCEPT !.is_locked = v])],
         age' = Older(i),
         frame' = (IF v THEN LockedInside(i) ELSE frame),
         UNCHANGED <<machine, num_states, transitions, num_transitions, current_state,
                     snapshots, has_snapshot, origin, depth, history>>
  PROVE  IndInv'
<1> DEFINE s == [states[i] EXCEPT !.is_locked = v]
<1>0. states[i] \in State
  BY DEF IndInv, TypeOK
<1>1. /\ s \in State
      /\ s.is_locked = v
      /\ s.version = states[i].version
      /\ s.id = states[i].id
      /\ s.checksum = states[i].checksum
      /\ s.name = states[i].name
      /\ s.is_final = states[i].is_final
  BY <1>0, LockBitType
<1>2. states'[i] = Updated(s)
  BY DEF IndInv, TypeOK
<1>3. states[i].id = i
  BY DEF IndInv, SlotsInv
<1> HIDE DEF s
<1>4. /\ states'[i].version = NextVersion(states[i].version)
      /\ states'[i].id = i
      /\ states'[i].checksum = states[i].checksum
      /\ states'[i].name = states[i].name
      /\ states'[i].is_final = states[i].is_final
      /\ states'[i].is_locked = v
  BY <1>1, <1>2, <1>3, UpdatedType
<1>5. \A j \in StateIds : j # i => states'[j] = states[j]
  BY DEF IndInv, TypeOK
<1>6. \A k \in Frames :
        /\ frame'[k].from_state = frame[k].from_state
        /\ frame'[k].to_state = frame[k].to_state
        /\ frame[k].inside => frame'[k].inside
        /\ v /\ k <= depth /\ i \in {frame[k].from_state, frame[k].to_state} => frame'[k].inside
  BY DEF IndInv, TypeOK, LockedInside, Frame
<1>7. i \notin foreign' => Sealed(states'[i], i)
  BY <1>4 DEF IndInv, ChecksumInv, Sealed, history
<1>8. UNCHANGED <<machine, num_states, transitions, num_transitions, snapshots, has_snapshot,
                  origin, registered, written>> /\ depth' = depth /\ foreign \subseteq foreign'
  BY DEF history
<1>9. depth' <= depth
  BY <1>8 DEF IndInv, TypeOK
<1> QED
  BY <1>4, <1>5, <1>6, <1>7, <1>8, <1>9, IndUpdate

LEMMA IndSnapshot ==
  ASSUME IndInv, TypeOK', NEW b \in Buffers, NEW i \in StateIds, CreateStateSnapshot(b, i)
  PROVE  IndInv'
<1> USE DEF IndInv, CreateStateSnapshot, machine, table, diagnostics, calls, history
<1>1. IndicesInBounds' /\ LockedOnlyFromInside' /\ SlotsInv'
  BY DEF IndicesInBounds, LockedOnlyFromInside, SlotsInv
<1>2. /\ snapshots'[b] = states[i] /\ age'[b] = 0 /\ origin'[b] = gen
      /\ \A c \in Buffers : c # b => /\ snapshots'[c] = snapshots[c]
                                     /\ age'[c] = age[c]
                                     /\ origin'[c] = origin[c]
  BY DEF TypeOK
<1>3. states[i].id = i /\ states[i].version \in 0 .. VersionMod - 1
  BY DEF SlotsInv, TypeOK, State
<1>4. OriginInv'
  BY <1>2, SizesAssumption DEF OriginInv, TypeOK
<1>5. AgeInv'
  <2> SUFFICES ASSUME NEW c \in Buffers, Young(c)'
               PROVE  LET j == snapshots'[c].id
                      IN  /\ j < num_states
                          /\ Apart(snapshots'[c].version, states[j].version, age'[c])
                          /\ age'[c] = 0 => /\ states[j].checksum = snapshots'[c].checksum
                                            /\ states[j].is_locked = snapshots'[c].is_locked
    BY DEF AgeInv, Apart
  <2>1. CASE c = b
    BY <1>2, <1>3, <2>1 DEF Apart
  <2>2. CASE c # b
    BY <1>2, <2>2 DEF AgeInv, Young
  <2> QED
    BY <2>1, <2>2
<1>6. ChecksumInv'
  <2> SUFFICES ASSUME NEW c \in has_snapshot', origin'[c] = gen
               PROVE  /\ snapshots'[c].id < num_states
                      /\ snapshots'[c].id \notin foreign =>
                           Sealed(snapshots'[c], snapshots'[c].id)
    BY DEF ChecksumInv, Sealed
  <2>1. CASE c = b
    BY <1>2, <1>3, <2>1 DEF ChecksumInv
  <2>2. CASE c # b
    BY <1>2, <2>2 DEF ChecksumInv, TypeOK
  <2> QED
    BY <2>1, <2>2
<1> QED
  BY <1>1, <1>4, <1>5, <1>6

LEMMA IndRestore ==
  ASSUME IndInv, TypeOK', NEW b \in Buffers, RestoreStateFromSnapshot(b)
  PROVE  IndInv'
<1> DEFINE s == snapshots[b]
           i == s.id
<1> USE DEF RestoreStateFromSnapshot, machine, diagnostics
<1>1. s \in State /\ i \in StateIds /\ i < num_states /\ is_initialized
  BY DEF IndInv, TypeOK, State
<1>2. states'[i] = Updated(s) /\ \A j \in StateIds : j # i => states'[j] = states[j]
  BY <1>1 DEF IndInv, TypeOK
<1>3. /\ states'[i].version = NextVersion(states[i].version)
      /\ states'[i].id = i
      /\ states'[i].checksum = s.checksum
      /\ states'[i].name = s.name
      /\ states'[i].is_final = s.is_final
      /\ states'[i].is_locked = s.is_locked
  BY <1>1, <1>2, UpdatedType DEF SameVersion
<1>4. i \notin foreign' => Sealed(states'[i], i)
  BY <1>1, <1>3 DEF IndInv, ChecksumInv, Sealed
<1>5. \A k \in Frames :
        /\ frame'[k].from_state = frame[k].from_state
        /\ frame'[k].to_state = frame[k].to_state
        /\ frame[k].inside => frame'[k].inside
        /\ s.is_locked /\ k <= depth /\ i \in {frame[k].from_state, frame[k].to_state}
             => frame'[k].inside
  BY DEF IndInv, TypeOK, LockedInside, Frame
<1>6. foreign \subseteq foreign' /\ age' = Older(i) /\ depth' = depth
      /\ current_state' = current_state
  OBVIOUS
<1>7. depth' <= depth
  BY <1>6 DEF IndInv, TypeOK
<1>8. UNCHANGED <<machine, num_states, transitions, num_transitions, snapshots, has_snapshot,
                  origin, registered, written>>
  OBVIOUS
<1> HIDE DEF RestoreStateFromSnapshot, s, i
<1> QED
  BY <1>1, <1>2, <1>3, <1>4, <1>5, <1>6, <1>7, <1>8, IndUpdate

\* A stray write changes one field of one state, and the history knows it.
LEMMA StrayFields ==
  ASSUME TypeOK, NEW i \in StateIds, StrayWrite(i), NEW j \in StateIds
  PROVE  /\ states'[j].id = states[j].id
         /\ states'[j].checksum = states[j].checksum
         /\ states'[j].version = states[j].version
         /\ states'[j].is_locked = states[j].is_locked
         /\ j # i => states'[j] = states[j]
         /\ written[j] \subseteq written'[j]
         /\ states'[j].name # states[j].name => "name" \in written'[j]
         /\ states'[j].is_final # states[j].is_final => "is_final" \in written'[j]
<1>1. CASE /\ states' = [states EXCEPT ![i].is_final = ~@]
           /\ written' = [written EXCEPT ![i] = @ \cup {"is_final"}]
  BY <1>1 DEF TypeOK, State
<1>2. ASSUME NEW n \in AnyName, states' = [states EXCEPT ![i].name = n],
             written' = [written EXCEPT ![i] = @ \cup {"name"}]
      PROVE  /\ states'[j].id = states[j].id
             /\ states'[j].checksum = states[j].checksum
             /\ states'[j].version = states[j].version
             /\ states'[j].is_locked = states[j].is_locked
             /\ j # i => states'[j] = states[j]
             /\ written[j] \subseteq written'[j]
             /\ states'[j].name # states[j].name => "name" \in written'[j]
             /\ states'[j].is_final = states[j].is_final
  BY <1>2 DEF TypeOK, State
<1> QED
  BY <1>1, <1>2 DEF StrayWrite

LEMMA IndStrayWrite ==
  ASSUME IndInv, TypeOK', NEW i \in StateIds, StrayWrite(i)
  PROVE  IndInv'
<1> USE DEF IndInv, StrayWrite, machine, diagnostics, buffers, calls, history
<1>1. \A j \in StateIds : /\ states'[j].id = states[j].id
                          /\ states'[j].checksum = states[j].checksum
                          /\ states'[j].version = states[j].version
                          /\ states'[j].is_locked = states[j].is_locked
                          /\ j # i => states'[j] = states[j]
  BY StrayFields
<1>2. IndicesInBounds' /\ OriginInv'
  BY DEF IndicesInBounds, OriginInv
<1>3. LockedOnlyFromInside'
  BY <1>1 DEF LockedOnlyFromInside, TypeOK, Frame
<1>4. SlotsInv'
  BY <1>1 DEF SlotsInv, StateIds
<1>5. \A b \in Buffers : snapshots[b].id \in StateIds
  BY DEF TypeOK, State
<1>6. AgeInv'
  BY <1>1, <1>5 DEF AgeInv, Young, Apart
<1>7. \A j \in StateIds :
        /\ written[j] \subseteq written'[j]
        /\ states'[j].name # states[j].name => "name" \in written'[j]
        /\ states'[j].is_final # states[j].is_final => "is_final" \in written'[j]
  BY StrayFields
<1>8. ChecksumInv'
  <2>1. ASSUME NEW j \in StateIds, j < num_states, j \notin foreign
        PROVE  Sealed(states[j], j)'
    <3>1. Sealed(states[j], j)
      BY <2>1 DEF ChecksumInv
    <3> QED
      BY <1>1, <1>7, <3>1 DEF Sealed
  <2>2. ASSUME NEW j \in StateIds, NEW b \in Buffers, snapshots[b].id = j, Sealed(snapshots[b], j)
        PROVE  Sealed(snapshots[b], snapshots[b].id)'
    BY <1>7, <2>2 DEF Sealed
  <2> QED
    BY <1>5, <2>1, <2>2 DEF ChecksumInv, TypeOK
<1> QED
  BY <1>2, <1>3, <1>4, <1>6, <1>8

LEMMA IndStep == IndInv /\ [Next]_vars => IndInv'
<1> SUFFICES ASSUME IndInv, [Next]_vars PROVE IndInv'
  OBVIOUS
<1>0. TypeOK'
  BY TypeStep DEF IndInv
<1> USE DEF machine, table, diagnostics, buffers, calls, history
<1>1. ASSUME NEW c \in BOOLEAN, Create(c) PROVE IndInv'
  <2>1. depth' = 0 /\ gen' = gen + 1 /\ FreshTables /\ UNCHANGED buffers
    BY <1>1 DEF Create, IndInv, SlotsInv
  <2> QED
    BY <1>0, <2>1, IndFresh
<1>2. CASE Destroy
  <2>1. depth' = 0 /\ is_initialized' = FALSE /\ gen' = gen /\ FreshTables /\ UNCHANGED buffers
    BY <1>2 DEF Destroy
  <2> QED
    BY <1>0, <2>1, IndFresh
<1>3. ASSUME NEW n \in Names, NEW f \in BOOLEAN, AddState(n, f) PROVE IndInv'
  BY <1>0, <1>3, IndAddState
<1>4. ASSUME NEW n \in Names, NEW i \in StateIds, NEW j \in StateIds, NEW g \in BOOLEAN,
             AddTransition(n, i, j, g)
      PROVE  IndInv'
  BY <1>0, <1>4, IndAddTransition
<1>5. ASSUME NEW n \in Names, NEW g \in BOOLEAN, ExecuteBegin(n, g) PROVE IndInv'
  BY <1>0, <1>5, IndExecuteBegin
<1>6. CASE ExecuteCommit
  BY <1>0, <1>6, IndExecuteCommit
<1>7. ASSUME NEW i \in StateIds, LockState(i) PROVE IndInv'
  BY <1>0, <1>7, IndLockBit DEF LockState
<1>8. ASSUME NEW i \in StateIds, UnlockState(i) PROVE IndInv'
  BY <1>0, <1>8, IndLockBit DEF UnlockState
<1>9. ASSUME NEW b \in Buffers, NEW i \in StateIds, CreateStateSnapshot(b, i) PROVE IndInv'
  BY <1>0, <1>9, IndSnapshot
<1>10. ASSUME NEW b \in Buffers, RestoreStateFromSnapshot(b) PROVE IndInv'
  BY <1>0, <1>10, IndRestore
<1>11. ASSUME NEW i \in StateIds, StrayWrite(i) PROVE IndInv'
  BY <1>0, <1>11, IndStrayWrite
<1>12. CASE UNCHANGED <<machine, table, buffers, calls, history>>
  <2>1. IndicesInBounds' /\ LockedOnlyFromInside' /\ SlotsInv' /\ OriginInv'
    BY <1>12 DEF IndInv, IndicesInBounds, LockedOnlyFromInside, SlotsInv, OriginInv
  <2>2. AgeInv' /\ ChecksumInv'
    BY <1>12 DEF IndInv, AgeInv, Young, Apart, ChecksumInv, Sealed
  <2> QED
    BY <1>0, <2>1, <2>2 DEF IndInv
<1>13. ASSUME NEW n \in Names, NEW g \in BOOLEAN, ExecuteFails(n, g) PROVE IndInv'
  BY <1>12, <1>13 DEF ExecuteFails
<1>14. ASSUME NEW i \in StateIds, NEW ok \in BOOLEAN, VerifyFails(i, ok) PROVE IndInv'
  BY <1>12, <1>14 DEF VerifyFails
<1>15. CASE UNCHANGED vars
  BY <1>12, <1>15 DEF vars
<1> QED
  BY <1>1, <1>2, <1>3, <1>4, <1>5, <1>6, <1>7, <1>8, <1>9, <1>10, <1>11, <1>13, <1>14, <1>15
     DEF Next

----------------------------------------------------------------------------
(* The theorems *)

LEMMA Inductive == Spec => []IndInv
<1>1. Init => IndInv
  BY IndInit
<1>2. IndInv /\ [Next]_vars => IndInv'
  BY IndStep
<1> QED
  BY <1>1, <1>2, PTL DEF Spec

\* polycall_sm_execute_transition never indexes past the states added,
\* whatever its callbacks do.
THEOREM BoundsCorrect == Spec => []IndicesInBounds
<1>1. IndInv => IndicesInBounds
  BY DEF IndInv
<1> QED
  BY <1>1, Inductive, PTL

\* A transition meets a locked endpoint only if its own callbacks locked it.
THEOREM LocksChecked == Spec => []LockedOnlyFromInside
<1>1. IndInv => LockedOnlyFromInside
  BY DEF IndInv
<1> QED
  BY <1>1, Inductive, PTL

\* An unchanged state passes its verification, and one that stray writes
\* have hit in a single field passes only if it is unchanged after all.
THEOREM VerificationSound == Spec => []VerifySound
<1>1. IndInv => VerifySound
  <2> SUFFICES ASSUME IndInv, NEW i \in StateIds, i < num_states, i \notin foreign
               PROVE  /\ Covered(states[i]) = registered[i] => ChecksumMatches(states[i])
                      /\ /\ \E f \in {"name", "is_final"} : written[i] \subseteq {f}
                         /\ ChecksumMatches(states[i])
                         => Covered(states[i]) = registered[i]
    BY DEF VerifySound
  <2> DEFINE s == states[i]
             r == registered[i]
  <2>1. /\ s.name \in AnyName /\ s.is_final \in BOOLEAN /\ s.id \in StateIds
        /\ r \in Digest /\ r.name \in AnyName /\ r.is_final \in BOOLEAN
    BY DEF IndInv, TypeOK, State, Digest
  <2>2. s.id = i /\ r.id = i /\ Sealed(s, i)
    BY DEF IndInv, SlotsInv, ChecksumInv
  <2>3. r = [name |-> r.name, is_final |-> r.is_final, id |-> r.id]
    BY <2>1 DEF Digest
  <2> HIDE DEF s, r
  <2>4. Covered(s) = r <=> s.name = r.name /\ s.is_final = r.is_final
    BY <2>2, <2>3 DEF Covered
  <2>5. /\ s.name = r.name /\ s.is_final = r.is_final => Checksum(s) = Checksum(r)
        /\ Checksum(s) = Checksum(r) /\ s.is_final = r.is_final => s.name = r.name
        /\ Checksum(s) = Checksum(r) /\ s.name = r.name => s.is_final = r.is_final
    BY <2>1, <2>2, ChecksumSeparates
  <2>6. ChecksumMatches(s) <=> Checksum(s) = Checksum(r)
    BY <2>2 DEF ChecksumMatches, Sealed, r
  <2>7. /\ s.name # r.name => "name" \in written[i]
        /\ s.is_final # r.is_final => "is_final" \in written[i]
    BY <2>2 DEF Sealed, r
  <2>8. (\E f \in {"name", "is_final"} : written[i] \subseteq {f})
        => s.name = r.name \/ s.is_final = r.is_final
    BY <2>7
  <2> QED
    BY <2>4, <2>5, <2>6, <2>8 DEF s, r
<1> QED
  BY <1>1, Inductive, PTL

\* A restore from a snapshot of this machine that is fewer than VersionMod
\* updates old changes nothing but what a stray write had changed.
THEOREM RestoreCorrect == Spec => RestoreOnlyHeals
<1> DEFINE Heals(b) ==
      LET i == snapshots[b].id
      IN  /\ age[b] = 0
          /\ states'[i] = [states[i] EXCEPT !.version = NextVersion(@),
                                            !.name = snapshots[b].name,
                                            !.is_final = snapshots[b].is_final]
<1>1. ASSUME IndInv, NEW b \in Buffers, RestoreStateFromSnapshot(b), Young(b)
      PROVE  Heals(b)
  <2> DEFINE s == snapshots[b]
             i == s.id
  <2>1. s \in State /\ i \in StateIds /\ i < num_states /\ is_initialized
        /\ s.version = states[i].version /\ states' = [states EXCEPT ![i] = Updated(s)]
    BY <1>1 DEF IndInv, TypeOK, State, RestoreStateFromSnapshot, SameVersion
  <2>2. age[b] \in Nat /\ age[b] < VersionMod /\ s.version \in 0 .. VersionMod - 1
    BY <1>1, <2>1 DEF IndInv, TypeOK, Young, State
  <2>3. Apart(s.version, states[i].version, age[b])
        /\ (age[b] = 0 => /\ states[i].checksum = s.checksum
                          /\ states[i].is_locked = s.is_locked)
    BY <1>1, <2>1 DEF IndInv, AgeInv
  <2>4. age[b] = 0
    BY <2>1, <2>2, <2>3, ApartZero
  <2>5. states[i] \in State /\ states[i].id = s.id /\ states'[i] = Updated(s)
    BY <1>1, <2>1 DEF IndInv, TypeOK, SlotsInv
  <2>6. Updated(s) = [states[i] EXCEPT !.version = NextVersion(@), !.name = s.name,
                                !.is_final = s.is_final]
    BY <2>1, <2>3, <2>4, <2>5 DEF Updated, State
  <2> QED
    BY <2>4, <2>5, <2>6
<1>2. IndInv /\ [Next]_vars =>
        [\A b \in Buffers : RestoreStateFromSnapshot(b) /\ Young(b) => Heals(b)]_vars
  BY <1>1
<1> QED
  BY <1>2, Inductive, PTL DEF Spec, RestoreOnlyHeals

\* Nothing but lock and unlock calls, and transitions whose own callbacks
\* took the lock, updates a locked state.
THEOREM LocksHold == Spec => LockHolds
<1> DEFINE Held(i) == states[i].is_locked /\ is_initialized' /\ states'[i].version # states[i].version
                      => \/ LockState(i)
                         \/ UnlockState(i)
                         \/ ExecuteCommit /\ frame[depth].inside
<1>1. ASSUME IndInv, Next, NEW i \in StateIds PROVE Held(i)
  <2> SUFFICES ASSUME states[i].is_locked, is_initialized', states'[i].version # states[i].version
               PROVE  \/ LockState(i)
                      \/ UnlockState(i)
                      \/ ExecuteCommit /\ frame[depth].inside
    OBVIOUS
  <2> USE DEF machine, table, diagnostics, buffers, calls, history
  <2>1. i < num_states
    BY <1>1 DEF IndInv, SlotsInv, ZeroState
  <2>2. ASSUME NEW c \in BOOLEAN, Create(c) PROVE FALSE
    BY <1>1, <2>1, <2>2 DEF Create, IndInv, SlotsInv, StateIds
  <2>3. CASE Destroy
    BY <2>3 DEF Destroy
  <2>4. ASSUME NEW n \in Names, NEW f \in BOOLEAN, AddState(n, f) PROVE FALSE
    BY <1>1, <2>1, <2>4 DEF AddState, IndInv, TypeOK, StateIds
  <2>5. ASSUME NEW j \in StateIds, LockState(j) \/ UnlockState(j) PROVE j = i
    BY <1>1, <2>5 DEF LockState, UnlockState, IndInv, TypeOK
  <2>6. CASE ExecuteCommit
    <3>1. frame[depth].to_state = i
      BY <1>1, <2>6 DEF ExecuteCommit, IndInv, TypeOK
    <3>2. depth \in Frames /\ depth <= depth
      BY <1>1, <2>6 DEF ExecuteCommit, IndInv, TypeOK, Frames
    <3>3. frame[depth].inside
      BY <1>1, <3>1, <3>2 DEF IndInv, LockedOnlyFromInside
    <3> QED
      BY <2>6, <3>3
  <2>7. ASSUME NEW b \in Buffers, RestoreStateFromSnapshot(b) PROVE FALSE
    BY <1>1, <2>7 DEF RestoreStateFromSnapshot, RestoreUnlocked, IndInv, TypeOK
  <2>8. ASSUME NEW j \in StateIds, StrayWrite(j) PROVE FALSE
    BY <1>1, <2>8, StrayFields DEF IndInv
  <2>9. CASE states' = states
    BY <2>9
  <2>10. \/ states' = states
         \/ \E c \in BOOLEAN : Create(c)
         \/ Destroy
         \/ \E n \in Names, f \in BOOLEAN : AddState(n, f)
         \/ \E j \in StateIds : LockState(j) \/ UnlockState(j)
         \/ ExecuteCommit
         \/ \E b \in Buffers : RestoreStateFromSnapshot(b)
         \/ \E j \in StateIds : StrayWrite(j)
    BY <1>1 DEF Next, AddTransition, ExecuteFails, ExecuteBegin, VerifyFails, CreateStateSnapshot
  <2> QED
    BY <2>2, <2>3, <2>4, <2>5, <2>6, <2>7, <2>8, <2>9, <2>10
<1>2. IndInv /\ [Next]_vars => [\A i \in StateIds : Held(i)]_vars
  BY <1>1
<1> QED
  BY <1>2, Inductive, PTL DEF Spec, LockHolds
=============================================================================
