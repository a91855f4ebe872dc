---------------------------- MODULE LoggerProofs ----------------------------
(***************************************************************************)
(* Proofs about Logger, for any number of threads, any queue, any file     *)
(* size and number of backups, and whatever was on the disk.  What is      *)
(* proved of the queue alone carries over, for the logger uses it as it is *)
(* meant to be used.                                                       *)
(***************************************************************************)
EXTENDS Logger, SafeQueueProofs, SequenceTheorems, FiniteSetTheorems, WellFoundedInduction

\* What is logged, now, directly or by earlier processes.
AnyEvents == Events \cup DirectEvents \cup EarlierEvents

-----------------------------------------------------------------------------
(* The queue in the logger *)

\* The logger does to the queue what Push, Pop and Stop do, or nothing.
LEMMA QueueUse ==
  ASSUME [LoggerNext]_allVars
  PROVE  [Next]_vars
<1> USE LoggerAssumption
<1>1. ASSUME NEW c \in Callers, Log(c) PROVE Next \/ UNCHANGED vars
  BY <1>1 DEF Log, LogAsync, LogDirect, Next, Callers, vars
<1>2. ASSUME WorkerPops PROVE Next
  BY <1>2 DEF WorkerPops, Next
<1>3. ASSUME NEW t \in Callers \cup {Worker}, Dispatch(t) PROVE UNCHANGED vars
  BY <1>3 DEF Dispatch
<1>4. ASSUME RollStep \/ RenameThrows \/ WriteAndLeave PROVE UNCHANGED vars
  BY <1>4 DEF RollStep, RenameThrows, WriteAndLeave
<1>5. ASSUME Announce PROVE Next \/ UNCHANGED vars
  BY <1>5 DEF Announce, Next
<1>6. ASSUME SwitchToSync \/ Exit \/ JoinedSwitch \/ JoinedExit PROVE UNCHANGED vars
  BY <1>6 DEF SwitchToSync, Exit, JoinedSwitch, JoinedExit
<1>7. ASSUME StopQueue PROVE Next
  BY <1>7 DEF StopQueue, Next
<1>8. ASSUME \/ \E p \in Producers : QueueOnly(PushStep(p))
             \/ \E t \in Threads : QueueOnly(Spurious(t))
      PROVE  Next
  BY <1>8 DEF QueueOnly, Next
<1>9. CASE UNCHANGED allVars
  BY <1>9 DEF allVars
<1> QED BY <1>1, <1>2, <1>3, <1>4, <1>5, <1>6, <1>7, <1>8, <1>9
        DEF LoggerNext, DispatchStep, MainStep

\* The queue inside the logger behaves as SafeQueue does.
THEOREM UsesSafeQueue == LoggerSafety => Safety
<1>1. LoggerInit => Init
  BY DEF LoggerInit
<1>2. [LoggerNext]_allVars => [Next]_vars
  BY QueueUse
<1> QED BY <1>1, <1>2, PTL DEF LoggerSafety, Safety

\* So no wakeup is lost between the threads that log and the log thread.
THEOREM LoggerLosesNoWakeup == LoggerSafety => []NoLostWakeup
BY UsesSafeQueue, NoLostWakeupAlways, PTL

\* So the threads that log, and the log thread, share a bounded channel.
THEOREM LoggerImplementsChannel == LoggerSafety => ChannelSafety
BY UsesSafeQueue, ImplementsChannel, PTL

-----------------------------------------------------------------------------
(* The files as one text *)

\* The log is a file, and the oldest backup; before a backup comes a file.
LEMMA FileNumbers ==
  /\ 0 \in Files /\ MaxBackup \in Files /\ Files \subseteq Nat
  /\ \A i \in Files : i # 0 => i - 1 \in Files /\ i - 1 < i /\ (i - 1) + 1 = i
  /\ \A i \in Files : i + 1 # 0 /\ (i + 1) - 1 = i
  /\ \A i \in Files : 0 .. i \subseteq Files
BY FileAssumption DEF Files

\* Induction over the files: what holds of the log, and of a backup if of the file before it, holds
\* of all of them.
LEMMA FilesInduction ==
  ASSUME NEW T, 0 \in T, \A i \in Files : i + 1 \in Files /\ i \in T => i + 1 \in T
  PROVE  Files \subseteq T
<1> SUFFICES ASSUME Files \ T # {} PROVE FALSE
  OBVIOUS
<1>1. IsWellFoundedOn(OpToRel(<,Nat), Nat)
  BY NatLessThanWellFounded
<1>2. Files \ T \subseteq Nat
  BY FileNumbers
<1>3. PICK first \in Files \ T : \A i \in Files \ T : ~ (<<i, first>> \in OpToRel(<,Nat))
  BY <1>1, <1>2, WFMin
<1>4. \A i \in Files \ T : ~ (i < first)
  BY <1>2, <1>3 DEF OpToRel
<1>5. first \in Files /\ first # 0
  BY <1>3
<1>6. first - 1 \in Files /\ first - 1 < first /\ (first - 1) + 1 = first
  BY <1>5, FileNumbers
<1>7. first - 1 \in T
  BY <1>4, <1>6
<1>8. first \in T
  BY <1>5, <1>6, <1>7
<1> QED BY <1>3, <1>8


\* TextOf is the function its definition asks for.
LEMMA TextUnfolds ==
  ASSUME NEW d
  PROVE  /\ TextOf(d)[0] = d[0]
         /\ \A i \in Files : i + 1 \in Files => TextOf(d)[i + 1] = d[i + 1] \o TextOf(d)[i]
<1> USE FileAssumption
<1> DEFINE Is(f, n) == f = [i \in 0 .. n |-> IF i = 0 THEN d[0] ELSE d[i] \o f[i - 1]]
           T == {n \in Files : \E f : Is(f, n)}
<1>1. 0 \in T
  <2>1. Is([i \in 0 .. 0 |-> d[0]], 0)
    OBVIOUS
  <2>2. 0 \in Files
    BY DEF Files
  <2> HIDE DEF Is
  <2> QED BY <2>1, <2>2
<1>2. ASSUME NEW n \in Files, n + 1 \in Files, n \in T PROVE n + 1 \in T
  <2>1. PICK f : Is(f, n)
    BY <1>2
  <2> DEFINE g == [i \in 0 .. n + 1 |-> IF i = n + 1 THEN d[n + 1] \o f[n] ELSE f[i]]
  <2>2. n \in Nat
    BY DEF Files
  <2>3. ASSUME NEW i \in 0 .. n + 1
        PROVE  g[i] = IF i = 0 THEN d[0] ELSE d[i] \o g[i - 1]
    <3>1. CASE i = n + 1
      BY <2>2, <3>1
    <3>2. CASE i \in 0 .. n
      <4>1. g[i] = f[i] /\ (i # 0 => g[i - 1] = f[i - 1])
        BY <2>2, <3>2
      <4>2. f[i] = IF i = 0 THEN d[0] ELSE d[i] \o f[i - 1]
        BY <2>1, <3>2
      <4> QED BY <4>1, <4>2
    <3> QED BY <2>2, <3>1, <3>2
  <2>4. Is(g, n + 1)
    BY <2>3
  <2> HIDE DEF Is
  <2> QED BY <1>2, <2>4
<1>3. MaxBackup \in T
  <2>1. Files \subseteq T
    <3> HIDE DEF T
    <3> QED BY <1>1, <1>2, FilesInduction
  <2> HIDE DEF T
  <2> QED BY <2>1, FileNumbers
<1>4. \E f : f = [i \in Files |-> IF i = 0 THEN d[0] ELSE d[i] \o f[i - 1]]
  BY <1>3 DEF Files
<1>5. TextOf(d) = [i \in Files |-> IF i = 0 THEN d[0] ELSE d[i] \o TextOf(d)[i - 1]]
  BY <1>4 DEF TextOf
<1>6. TextOf(d)[0] = d[0]
  BY <1>5, FileNumbers
<1>7. ASSUME NEW i \in Files, i + 1 \in Files PROVE TextOf(d)[i + 1] = d[i + 1] \o TextOf(d)[i]
  <2>1. i + 1 # 0 /\ (i + 1) - 1 = i
    BY FileNumbers
  <2> QED BY <1>5, <1>7, <2>1
<1> QED BY <1>6, <1>7

\* It is a text.
LEMMA TextType ==
  ASSUME NEW E, NEW d \in [Files -> Seq(E)]
  PROVE  \A i \in Files : TextOf(d)[i] \in Seq(E)
<1> DEFINE T == {i \in Files : TextOf(d)[i] \in Seq(E)}
<1>1. 0 \in T
  BY TextUnfolds, FileNumbers
<1>2. ASSUME NEW i \in Files, i + 1 \in Files, i \in T PROVE i + 1 \in T
  <2>1. TextOf(d)[i + 1] = d[i + 1] \o TextOf(d)[i]
    BY <1>2, TextUnfolds
  <2>2. d[i + 1] \in Seq(E) /\ TextOf(d)[i] \in Seq(E)
    BY <1>2
  <2>3. TextOf(d)[i + 1] \in Seq(E)
    BY <2>1, <2>2, ConcatProperties
  <2> QED BY <1>2, <2>3
<1> HIDE DEF T
<1>3. Files \subseteq T
  BY <1>1, <1>2, FilesInduction
<1> QED BY <1>3 DEF T

\* Where texts agree they agree as long as the files do.
LEMMA TextSame ==
  ASSUME NEW c, NEW d, NEW m \in Files, NEW n \in Files, m <= n,
         TextOf(c)[m] = TextOf(d)[m], \A i \in Files : m < i /\ i <= n => c[i] = d[i]
  PROVE  TextOf(c)[n] = TextOf(d)[n]
<1> DEFINE T == {i \in Files : m <= i /\ i <= n => TextOf(c)[i] = TextOf(d)[i]}
<1>0. m \in Nat /\ n \in Nat
  BY FileNumbers
<1>1. 0 \in T
  BY <1>0, FileNumbers
<1>2. ASSUME NEW i \in Files, i + 1 \in Files, i \in T PROVE i + 1 \in T
  <2> SUFFICES ASSUME m <= i + 1, i + 1 <= n, i + 1 # m PROVE TextOf(c)[i + 1] = TextOf(d)[i + 1]
    BY <1>2
  <2>1. i \in Nat
    BY FileNumbers
  <2>2. m <= i /\ i <= n /\ m < i + 1
    BY <1>0, <2>1
  <2>3. TextOf(c)[i] = TextOf(d)[i] /\ c[i + 1] = d[i + 1]
    BY <1>2, <2>2
  <2>4. /\ TextOf(c)[i + 1] = c[i + 1] \o TextOf(c)[i]
        /\ TextOf(d)[i + 1] = d[i + 1] \o TextOf(d)[i]
    BY <1>2, TextUnfolds
  <2> QED BY <2>3, <2>4
<1> HIDE DEF T
<1>3. Files \subseteq T
  BY <1>1, <1>2, FilesInduction
<1> QED BY <1>0, <1>3 DEF T

\* An event added to the log is added to the text.
LEMMA TextWritten ==
  ASSUME NEW E, NEW d \in [Files -> Seq(E)], NEW e \in E
  PROVE  \A i \in Files : TextOf([d EXCEPT ![0] = Append(@, e)])[i] = Append(TextOf(d)[i], e)
<1> DEFINE c == [d EXCEPT ![0] = Append(@, e)]
           T == {i \in Files : TextOf(c)[i] = Append(TextOf(d)[i], e)}
<1>0. c[0] = Append(d[0], e) /\ \A i \in Files \ {0} : c[i] = d[i]
  BY FileNumbers
<1> HIDE DEF c
<1>1. 0 \in T
  BY <1>0, TextUnfolds, FileNumbers
<1>2. ASSUME NEW i \in Files, i + 1 \in Files, i \in T PROVE i + 1 \in T
  <2>1. c[i + 1] = d[i + 1]
    BY <1>0, <1>2, FileNumbers
  <2>2. /\ TextOf(c)[i + 1] = c[i + 1] \o TextOf(c)[i]
        /\ TextOf(d)[i + 1] = d[i + 1] \o TextOf(d)[i]
    BY <1>2, TextUnfolds
  <2>3. d[i + 1] \in Seq(E) /\ TextOf(d)[i] \in Seq(E) /\ <<e>> \in Seq(E)
    BY <1>2, TextType
  <2> DEFINE s == d[i + 1]  t == TextOf(d)[i]
  <2>4. s \o Append(t, e) = Append(s \o t, e)
    <3> HIDE DEF s, t
    <3>1. s \in Seq(E) /\ t \in Seq(E)
      BY <2>3 DEF s, t
    <3> QED BY <3>1
  <2>5. TextOf(c)[i] = Append(t, e)
    BY <1>2
  <2> QED BY <1>2, <2>1, <2>2, <2>4, <2>5
<1> HIDE DEF T
<1>3. Files \subseteq T
  BY <1>1, <1>2, FilesInduction
<1> QED BY <1>3 DEF T, c

\* A file that is renamed keeps its place in the text; what was at the new name is lost.
LEMMA TextMoved ==
  ASSUME NEW E, NEW d \in [Files -> Seq(E)], NEW n \in Files, n + 1 \in Files,
         NEW c, c[n] = <<>>, c[n + 1] = d[n], \A i \in Files \ {n, n + 1} : c[i] = d[i]
  PROVE  /\ d[n + 1] = <<>> => TextOf(c)[MaxBackup] = TextOf(d)[MaxBackup]
         /\ n + 1 = MaxBackup => TextOf(d)[MaxBackup] = d[MaxBackup] \o TextOf(c)[MaxBackup]
<1>0. n \in Nat /\ n + 1 # 0 /\ n # n + 1
  BY FileNumbers
<1>1. c[n] = <<>> /\ c[n + 1] = d[n] /\ \A i \in Files \ {n, n + 1} : c[i] = d[i]
  OBVIOUS
<1>2. \A i \in Files : TextOf(d)[i] \in Seq(E)
  BY TextType
<1>3. TextOf(c)[n + 1] = d[n] \o TextOf(c)[n] /\ TextOf(d)[n + 1] = d[n + 1] \o TextOf(d)[n]
  BY <1>1, TextUnfolds
<1>4. TextOf(c)[n + 1] = TextOf(d)[n]
  <2>1. CASE n = 0
    <3>1. TextOf(c)[n] = <<>> /\ TextOf(d)[n] = d[n] /\ d[n] \in Seq(E)
      BY <1>1, <2>1, TextUnfolds, FileNumbers
    <3> QED BY <1>3, <3>1, ConcatEmptySeq
  <2>2. CASE n # 0
    <3>1. n - 1 \in Files /\ (n - 1) + 1 = n /\ 0 \in Files /\ 0 <= n - 1
      BY <2>2, FileNumbers
    <3>2. TextOf(c)[n] = c[n] \o TextOf(c)[n - 1] /\ TextOf(d)[n] = d[n] \o TextOf(d)[n - 1]
      BY <3>1, TextUnfolds
    <3>3. \A i \in Files : i <= n - 1 => i # n /\ i # n + 1
      BY <1>0, FileNumbers
    <3>4. \A i \in Files : 0 < i /\ i <= n - 1 => c[i] = d[i]
      BY <1>1, <3>3
    <3>4a. TextOf(c)[0] = TextOf(d)[0]
      BY <1>1, <3>1, <3>3, TextUnfolds
    <3>5. TextOf(c)[n - 1] = TextOf(d)[n - 1]
      <4> DEFINE k == n - 1
                 m == 0
      <4>1. m \in Files /\ k \in Files /\ m <= k
        BY <3>1
      <4>2. TextOf(c)[m] = TextOf(d)[m]
        BY <3>4a
      <4>3. \A i \in Files : m < i /\ i <= k => c[i] = d[i]
        BY <3>4
      <4> HIDE DEF k, m
      <4>4. TextOf(c)[k] = TextOf(d)[k]
        BY ONLY <4>1, <4>2, <4>3, TextSame
      <4> QED BY <4>4 DEF k
    <3>6. TextOf(d)[n - 1] \in Seq(E)
      BY <1>2, <3>1
    <3>7. <<>> \o TextOf(d)[n - 1] = TextOf(d)[n - 1]
      BY <3>6, ConcatEmptySeq
    <3>8. TextOf(c)[n] = TextOf(d)[n - 1]
      BY <1>1, <3>2, <3>5, <3>7
    <3> QED BY <1>3, <3>2, <3>8
  <2> QED BY <2>1, <2>2
<1>5. ASSUME d[n + 1] = <<>> PROVE TextOf(c)[MaxBackup] = TextOf(d)[MaxBackup]
  <2>1. TextOf(c)[n + 1] = TextOf(d)[n + 1]
    BY <1>2, <1>3, <1>4, <1>5, ConcatEmptySeq
  <2>2. MaxBackup \in Files /\ n + 1 <= MaxBackup
    BY FileNumbers DEF Files
  <2>3. \A i \in Files : n + 1 < i => i # n /\ i # n + 1
    BY <1>0, FileNumbers
  <2>4. \A i \in Files : n + 1 < i /\ i <= MaxBackup => c[i] = d[i]
    BY <1>1, <2>3
  <2> DEFINE k == n + 1
  <2>5. k \in Files /\ k <= MaxBackup /\ TextOf(c)[k] = TextOf(d)[k]
        /\ \A i \in Files : k < i /\ i <= MaxBackup => c[i] = d[i]
    BY <2>1, <2>2, <2>4
  <2> HIDE DEF k
  <2> QED BY ONLY <2>2, <2>5, TextSame
<1> QED BY <1>3, <1>4, <1>5

\* The files up to i that have their size.
FullUpTo(d, i) == {f \in 0 .. i : Len(d[f]) >= MaxFileSize}

\* A text is as long as its full files.
LEMMA TextLong ==
  ASSUME NEW E, NEW d \in [Files -> Seq(E)]
  PROVE  \A i \in Files : /\ IsFiniteSet(FullUpTo(d, i)) /\ Cardinality(FullUpTo(d, i)) \in Nat
                          /\ Len(TextOf(d)[i]) >= MaxFileSize * Cardinality(FullUpTo(d, i))
<1> DEFINE Long(i, k) == Len(TextOf(d)[i]) >= MaxFileSize * k
           F(i) == FullUpTo(d, i)
           T == {i \in Files : /\ IsFiniteSet(F(i)) /\ Cardinality(F(i)) \in Nat
                               /\ Long(i, Cardinality(F(i)))}
<1>0. MaxFileSize \in Nat
  BY FileAssumption
<1>1. 0 \in T
  <2>1. TextOf(d)[0] = d[0] /\ 0 \in Files /\ Len(d[0]) \in Nat
    BY TextUnfolds, FileNumbers, LenProperties
  <2>2. Long(0, 0) /\ (Len(d[0]) >= MaxFileSize => Long(0, 1))
    BY <1>0, <2>1
  <2>3. \/ Len(d[0]) >= MaxFileSize /\ F(0) = {0}
        \/ F(0) = {}
    BY DEF FullUpTo
  <2>4. IsFiniteSet({0}) /\ Cardinality({0}) = 1 /\ IsFiniteSet({}) /\ Cardinality({}) = 0
    BY FS_Singleton, FS_EmptySet
  <2> HIDE DEF F, Long
  <2>5. IsFiniteSet(F(0)) /\ Cardinality(F(0)) \in Nat /\ Long(0, Cardinality(F(0)))
    <3>1. CASE Len(d[0]) >= MaxFileSize /\ F(0) = {0}
      <4>1. Cardinality(F(0)) = 1 /\ IsFiniteSet(F(0)) /\ Long(0, 1)
        BY <2>2, <2>4, <3>1
      <4> QED BY <4>1
    <3>2. CASE F(0) = {}
      <4>1. Cardinality(F(0)) = 0 /\ IsFiniteSet(F(0)) /\ Long(0, 0)
        BY <2>2, <2>4, <3>2
      <4> QED BY <4>1
    <3> QED BY <2>3, <3>1, <3>2
  <2> QED BY <2>1, <2>5
<1>2. ASSUME NEW i \in Files, i + 1 \in Files, i \in T PROVE i + 1 \in T
  <2>1. TextOf(d)[i + 1] = d[i + 1] \o TextOf(d)[i]
    BY <1>2, TextUnfolds
  <2>2. Len(TextOf(d)[i + 1]) = Len(d[i + 1]) + Len(TextOf(d)[i])
    BY <1>2, <2>1, TextType, ConcatProperties
  <2>3. Len(d[i + 1]) \in Nat /\ Len(TextOf(d)[i]) \in Nat
    BY <1>2, TextType, LenProperties
  <2>4. ASSUME NEW k \in Nat, Long(i, k)
        PROVE  Long(i + 1, k) /\ (Len(d[i + 1]) >= MaxFileSize => Long(i + 1, k + 1))
    <3>1. MaxFileSize * (k + 1) = MaxFileSize * k + MaxFileSize /\ MaxFileSize * k \in Nat
      BY <1>0
    <3> DEFINE l == Len(TextOf(d)[i + 1])  m == Len(d[i + 1])  h == Len(TextOf(d)[i])
               p == MaxFileSize * k  q == MaxFileSize * (k + 1)
    <3>2. l = m + h /\ m \in Nat /\ h \in Nat /\ p \in Nat /\ q = p + MaxFileSize /\ h >= p
      BY <2>2, <2>3, <2>4, <3>1
    <3> HIDE DEF l, m, h, p, q
    <3>3. l >= p /\ (m >= MaxFileSize => l >= q)
      BY <1>0, <3>2
    <3> QED BY <3>3 DEF l, m, p, q
  <2>5. i + 1 \notin F(i) /\ F(i + 1) = IF Len(d[i + 1]) >= MaxFileSize THEN F(i) \cup {i + 1} ELSE F(i)
    BY FileNumbers DEF FullUpTo
  <2>6. IsFiniteSet(F(i)) /\ Cardinality(F(i)) \in Nat /\ Long(i, Cardinality(F(i)))
    BY <1>2
  <2> HIDE DEF F, Long
  <2>7. IsFiniteSet(F(i) \cup {i + 1}) /\ Cardinality(F(i) \cup {i + 1}) = Cardinality(F(i)) + 1
    BY <2>5, <2>6, FS_AddElement
  <2> QED BY <1>2, <2>4, <2>5, <2>6, <2>7
<1> HIDE DEF T
<1>3. Files \subseteq T
  BY <1>1, <1>2, FilesInduction
<1> QED BY <1>3 DEF T

\* The end of a sequence is a suffix of it.
LEMMA EndIsSuffix ==
  ASSUME NEW E, NEW u \in Seq(E), NEW s \in Seq(E)
  PROVE  IsSuffix(s, u \o s)
<1> DEFINE r == Reverse(s)  q == Reverse(u \o s)
<1>1. Len(s) \in Nat /\ Len(u) \in Nat /\ u \o s \in Seq(E) /\ Len(u \o s) = Len(u) + Len(s)
  BY ConcatProperties, LenProperties
<1>2. r \in Seq(E) /\ Len(r) = Len(s) /\ \A i \in 1 .. Len(s) : r[i] = s[Len(s) - i + 1]
  BY <1>1 DEF Reverse
<1>3. q \in Seq(E) /\ Len(q) = Len(u) + Len(s)
      /\ \A i \in 1 .. Len(u) + Len(s) : q[i] = (u \o s)[Len(u) + Len(s) - i + 1]
  BY <1>1 DEF Reverse
<1>4. ASSUME NEW i \in 1 .. Len(s) PROVE r[i] = q[i]
  <2>1. (u \o s)[Len(u) + (Len(s) - i + 1)] = s[Len(s) - i + 1]
    BY <1>1
  <2> QED BY <1>1, <1>2, <1>3, <2>1
<1> HIDE DEF r, q
<1>5. SubSeq(r, 1, Len(r)) = SubSeq(q, 1, Len(r))
  BY <1>1, <1>2, <1>3, <1>4
<1> QED BY <1>1, <1>2, <1>3, <1>5 DEF IsSuffix, IsPrefix, r, q

-----------------------------------------------------------------------------
(* Counting the backups *)

\* The files that have their size.
Full(d) == FullUpTo(d, MaxBackup)

\* There are finitely many files.
LEMMA FilesFinite ==
  ASSUME NEW d
  PROVE  /\ IsFiniteSet(Files) /\ Cardinality(Files) = MaxBackup + 1
         /\ IsFiniteSet(Holes(d)) /\ Cardinality(Holes(d)) \in Nat
         /\ IsFiniteSet(Full(d)) /\ Cardinality(Full(d)) \in Nat
<1> USE FileAssumption
<1>1. IsFiniteSet(Files) /\ Cardinality(Files) = MaxBackup + 1
  BY FS_Interval DEF Files
<1>2. Holes(d) \subseteq Files /\ Full(d) \subseteq Files
  BY DEF Holes, Full, FullUpTo, Files
<1> QED BY <1>1, <1>2, FS_Subset, FS_CardinalityType

\* It does not matter which of two elements is left out.
LEMMA SameWithout ==
  ASSUME NEW S, IsFiniteSet(S), NEW x, NEW y, x \in S <=> y \in S
  PROVE  Cardinality(S \ {x}) = Cardinality(S \ {y})
<1>1. CASE x \in S
  BY <1>1, FS_RemoveElement
<1>2. CASE x \notin S
  <2>1. S \ {x} = S /\ S \ {y} = S
    BY <1>2
  <2> QED BY <2>1
<1> QED BY <1>1, <1>2

\* When log and oldest backup are there, a file is full or a hole.
LEMMA FullOrHole ==
  ASSUME NEW d, BackupsWhole(d), Len(d[0]) >= MaxFileSize, d[MaxBackup] # <<>>
  PROVE  Cardinality(Full(d)) >= MaxBackup + 1 - Cardinality(Holes(d))
<1> USE FileAssumption
<1>1. ASSUME NEW f \in Files, f \notin Full(d) PROVE f \in Holes(d)
  <2>1. f \in Nat /\ f <= MaxBackup /\ ~ (Len(d[f]) >= MaxFileSize)
    BY <1>1 DEF Files, Full, FullUpTo
  <2>2. f # 0
    BY <2>1
  <2>3. d[f] = <<>>
    BY <2>1, <2>2 DEF BackupsWhole
  <2>4. f # MaxBackup
    BY <2>3
  <2>5. f \in 1 .. MaxBackup - 1 /\ MaxBackup \in f + 1 .. MaxBackup
    BY <2>1, <2>2, <2>4
  <2> QED BY <2>3, <2>5 DEF Holes
<1>2. Files \ Full(d) \subseteq Holes(d)
  BY <1>1
<1>3. Full(d) \cap Files = Full(d)
  BY DEF Full, FullUpTo, Files
<1>4. /\ Cardinality(Files) = MaxBackup + 1 /\ Cardinality(Holes(d)) \in Nat /\ Cardinality(Full(d)) \in Nat
      /\ IsFiniteSet(Files) /\ IsFiniteSet(Holes(d)) /\ IsFiniteSet(Full(d))
  BY FilesFinite
<1>5. Cardinality(Files \ Full(d)) = Cardinality(Files) - Cardinality(Files \cap Full(d))
  BY <1>4, FS_Difference
<1>6. Cardinality(Files \ Full(d)) <= Cardinality(Holes(d))
  BY <1>2, <1>4, FS_Subset
<1>7. Cardinality(Files \cap Full(d)) = Cardinality(Full(d))
  BY <1>3
<1> QED BY <1>4, <1>5, <1>6, <1>7

\* File n of disk d is renamed, and nothing else: disk c.
Moved(d, c, n) ==
  /\ n \in Files /\ n + 1 \in Files
  /\ c[n] = <<>> /\ c[n + 1] = d[n] /\ \A i \in Files \ {n, n + 1} : c[i] = d[i]

\* A rename makes no hole but the one it leaves, and fills the one it finds.
LEMMA HolesMoved ==
  ASSUME NEW d, NEW c, NEW n, Moved(d, c, n), d[n] # <<>>
  PROVE  Holes(c) \ {n} \subseteq Holes(d) \ {n + 1}
<1> USE FileAssumption
<1>0. n \in Nat /\ n + 1 \in Nat /\ n + 1 <= MaxBackup
  BY DEF Moved, Files
<1>1. ASSUME NEW f \in Holes(c), f # n PROVE f \in Holes(d) /\ f # n + 1
  <2>1. f \in 1 .. MaxBackup - 1 /\ c[f] = <<>>
    BY DEF Holes
  <2>2. PICK g \in f + 1 .. MaxBackup : c[g] # <<>>
    BY DEF Holes
  <2>3. f # n + 1
    BY <2>1 DEF Moved
  <2>4. d[f] = <<>>
    BY <1>1, <2>1, <2>3 DEF Moved, Files
  <2>5. g # n /\ g \in Files
    BY <2>1, <2>2 DEF Moved, Files
  <2>6. CASE g = n + 1
    <3>1. n \in f + 1 .. MaxBackup
      BY <1>0, <1>1, <2>1, <2>2, <2>6
    <3> QED BY <2>1, <2>3, <2>4, <3>1 DEF Holes
  <2>7. CASE g # n + 1
    <3>1. d[g] # <<>>
      BY <2>2, <2>5, <2>7 DEF Moved
    <3> QED BY <2>1, <2>2, <2>3, <2>4, <3>1 DEF Holes
  <2> QED BY <2>6, <2>7
<1> QED BY <1>1

\* A rename to an empty name keeps the number of full files, another one costs one of them.
LEMMA FullMoved ==
  ASSUME NEW d, NEW c, NEW n, Moved(d, c, n), Len(d[n]) >= MaxFileSize
  PROVE  /\ d[n + 1] = <<>> => Cardinality(Full(c)) = Cardinality(Full(d))
         /\ Len(d[n + 1]) >= MaxFileSize => Cardinality(Full(c)) = Cardinality(Full(d)) - 1
<1> USE FileAssumption
<1>0. n \in Files /\ n + 1 \in Files /\ n # n + 1 /\ ~ (Len(<<>>) >= MaxFileSize)
  BY FileNumbers DEF Moved
<1>1. Full(c) = (Full(d) \ {n}) \cup {n + 1}
  BY <1>0 DEF Moved, Full, FullUpTo, Files
<1>2. n \in Full(d)
  BY <1>0 DEF Full, FullUpTo, Files
<1>3. IsFiniteSet(Full(d)) /\ Cardinality(Full(d)) \in Nat
  BY FilesFinite
<1>4. IsFiniteSet(Full(d) \ {n}) /\ Cardinality(Full(d) \ {n}) = Cardinality(Full(d)) - 1
  BY <1>2, <1>3, FS_RemoveElement
<1>5. ASSUME d[n + 1] = <<>> PROVE Cardinality(Full(c)) = Cardinality(Full(d))
  <2>1. n + 1 \notin Full(d) \ {n}
    BY <1>0, <1>5 DEF Full, FullUpTo
  <2>2. Cardinality((Full(d) \ {n}) \cup {n + 1}) = Cardinality(Full(d) \ {n}) + 1
    BY <1>4, <2>1, FS_AddElement
  <2> QED BY <1>1, <1>3, <1>4, <2>2
<1>6. ASSUME Len(d[n + 1]) >= MaxFileSize PROVE Cardinality(Full(c)) = Cardinality(Full(d)) - 1
  <2>1. n + 1 \in Full(d) \ {n}
    BY <1>0, <1>6 DEF Full, FullUpTo, Files
  <2>2. Full(c) = Full(d) \ {n}
    BY <1>1, <2>1
  <2> QED BY <1>4, <2>2
<1> QED BY <1>5, <1>6

-----------------------------------------------------------------------------
(* Types *)

\* The worker has dispatched all it has popped, but for an event it has just popped.
Behind == \/ handed = popped
          \/ at[Worker] = "idle" /\ \E e \in Events : popped = Append(handed, e)

\* Who has the mutex in DispatchLog has an event to append.
HolderHasEvent ==
  /\ holder = Worker => HasPopped
  /\ holder \in Callers => direct[holder] # NoEvent

DispatchInv == Behind /\ HolderHasEvent

\* What is added to a sequence is its last element.
LEMMA LastOfAppend ==
  ASSUME NEW q \in Seq(Events), NEW e \in Events
  PROVE  Last(Append(q, e)) = e
<1>1. Append(q, e) \in Seq(Events) /\ Len(Append(q, e)) = Len(q) + 1 /\ Append(q, e)[Len(q) + 1] = e
  BY AppendProperties
<1> QED BY <1>1 DEF Last

\* What DispatchLog appends.
LEMMA CurrentIsEvent ==
  ASSUME LoggerTypeOK, DispatchInv, Appending
  PROVE  /\ Current \in AnyEvents
         /\ holder = Worker => Current \in Events /\ Append(handed, Current) = popped
<1>1. ASSUME holder = Worker PROVE Last(popped) \in Events /\ Append(handed, Last(popped)) = popped
  <2>1. PICK e \in Events : popped = Append(handed, e)
    BY <1>1 DEF DispatchInv, Behind, HolderHasEvent, HasPopped
  <2>2. handed \in Seq(Events)
    BY DEF LoggerTypeOK
  <2> QED BY <2>1, <2>2, LastOfAppend
<1>2. ASSUME holder # Worker PROVE direct[holder] \in DirectEvents
  BY <1>2 DEF Appending, LoggerTypeOK, DispatchInv, HolderHasEvent
<1> QED BY <1>1, <1>2 DEF Current, AnyEvents

\* Others only wake the worker, and pop nothing.
LEMMA WorkerAlone ==
  ASSUME TypeOK, [LoggerNext]_allVars, ~WorkerPops
  PROVE  /\ popped' = popped
         /\ at'[Worker] = at[Worker] \/ (at[Worker] = "waiting" /\ at'[Worker] = "locking")
<1> USE LoggerAssumption, QueueAssumption
<1>0. Worker \in Threads /\ Worker \notin Producers
  BY DEF Threads
<1>1. ASSUME NEW p \in Producers, NEW e \in Events, PushCall(p, e)
      PROVE  popped' = popped /\ at'[Worker] = at[Worker]
  BY <1>0, <1>1 DEF PushCall, Move, TypeOK
<1>2. ASSUME NEW p \in Producers, PushStep(p)
      PROVE  /\ popped' = popped
             /\ at'[Worker] = at[Worker] \/ (at[Worker] = "waiting" /\ at'[Worker] = "locking")
  <2>1. CASE Park(p)
    BY <1>0, <2>1 DEF Park, Move, TypeOK
  <2>2. CASE PushEnds(p) /\ LeaveAndNotify(p, "idle", Consumers)
    <3>1. p \in Threads /\ at[p] = "locking"
      BY <2>2 DEF PushEnds, Threads
    <3>2. \A u \in Threads : u # p =>
            at'[u] = at[u] \/ (u \in Consumers /\ at[u] = "waiting" /\ at'[u] = "locking")
      <4>1. LeaveAndNotify(p, "idle", Consumers)
        BY <2>2
      <4> QED BY <3>1, <4>1, LeaveEffect
    <3>3. at'[Worker] = at[Worker] \/ (at[Worker] = "waiting" /\ at'[Worker] = "locking")
      BY <1>0, <3>2
    <3> QED BY <2>2, <3>3 DEF PushEnds
  <2>3. CASE PushEnds(p) /\ Move(p, "locking", "idle")
    BY <1>0, <2>3 DEF PushEnds, Move, TypeOK
  <2> QED BY <1>2, <2>1, <2>2, <2>3 DEF PushStep, PushEnds
<1>3. ASSUME NEW t \in Threads, Spurious(t)
      PROVE  /\ popped' = popped
             /\ at'[Worker] = at[Worker] \/ (at[Worker] = "waiting" /\ at'[Worker] = "locking")
  BY <1>0, <1>3 DEF Spurious, Move, TypeOK
<1>4. ASSUME Stop
      PROVE  /\ popped' = popped
             /\ at'[Worker] = at[Worker] \/ (at[Worker] = "waiting" /\ at'[Worker] = "locking")
  BY <1>0, <1>4 DEF Stop, In
<1>5. CASE UNCHANGED vars
  BY <1>5 DEF vars
<1>6. ASSUME NEW c \in Callers, Log(c)
      PROVE  popped' = popped /\ at'[Worker] = at[Worker]
  BY <1>1, <1>6 DEF Log, LogAsync, LogDirect, Callers, vars
<1>7. CASE Announce
  BY <1>1, <1>7 DEF Announce, vars
<1> QED BY <1>2, <1>3, <1>4, <1>5, <1>6, <1>7
        DEF LoggerNext, DispatchStep, Dispatch, RollStep, RenameThrows, WriteAndLeave, SwitchToSync, Exit,
            MainStep, StopQueue, JoinedSwitch, JoinedExit, QueueOnly, allVars

\* Every step of FileAppender keeps the types of the files.
LEMMA FileStep ==
  ASSUME NEW events, FileTypeOK(events),
         BeginRoll \/ Rename \/ OpenFile \/ Announces \/ (\E e \in events : WriteFile(e))
  PROVE  FileTypeOK(events)'
<1>1. isOpen' \in BOOLEAN /\ failed' \in BOOLEAN
  <2>1. isOpen \in BOOLEAN /\ failed \in BOOLEAN
    BY DEF FileTypeOK
  <2> QED BY <2>1, Zenon DEF BeginRoll, Rename, OpenFile, Announces, WriteFile
<1>2. disk' \in [Files -> Seq(events)]
  <2> USE FileAssumption DEF FileTypeOK, Files
  <2>1. CASE BeginRoll \/ OpenFile \/ Announces
    BY <2>1 DEF BeginRoll, OpenFile, Announces
  <2>2. CASE Rename
    <3>1. next \in Nat /\ next < MaxBackup /\ disk[next] \in Seq(events) /\ <<>> \in Seq(events)
      BY <2>2 DEF Rename
    <3> QED BY <2>2, <3>1 DEF Rename, Renamed
  <2>3. ASSUME NEW e \in events, WriteFile(e) PROVE disk' \in [Files -> Seq(events)]
    <3>1. Append(disk[0], e) \in Seq(events)
      BY <2>3
    <3> QED BY <2>3, <3>1 DEF WriteFile
  <2> QED BY <2>1, <2>2, <2>3
<1>3. currentSize' \in Nat
  BY FileAssumption DEF FileTypeOK, Files, BeginRoll, Rename, OpenFile, Announces, WriteFile
<1>4. /\ stage' \in {"check", "rename", "announce", "write"}
      /\ next' \in Nat /\ (stage' = "rename" => next' < MaxBackup) /\ holes' \in Nat
  BY FileAssumption DEF FileTypeOK, BeginRoll, Rename, OpenFile, Announces, WriteFile
<1> QED BY <1>1, <1>2, <1>3, <1>4 DEF FileTypeOK

\* Every step of the logger keeps the types.
LEMMA LoggerTypeStep ==
  ASSUME LoggerTypeOK, DispatchInv, [LoggerNext]_allVars
  PROVE  LoggerTypeOK'
<1> USE LoggerAssumption
<1>0. TypeOK'
  BY QueueUse, TypeStep DEF LoggerTypeOK
<1>1. FileTypeOK(AnyEvents)'
  <2>1. FileTypeOK(AnyEvents)
    BY DEF LoggerTypeOK, AnyEvents
  <2>2. CASE UNCHANGED fileVars
    BY <2>1, <2>2 DEF FileTypeOK, fileVars
  <2>3. CASE RollStep \/ Announce
    BY <2>1, <2>3, FileStep DEF RollStep, Announce
  <2>4. CASE WriteAndLeave
    BY <2>1, <2>4, CurrentIsEvent, FileStep DEF WriteAndLeave
  <2> QED BY <2>2, <2>3, <2>4
          DEF LoggerNext, Log, LogAsync, LogDirect, QueueOnly, WorkerPops, DispatchStep, Dispatch,
              RenameThrows, SwitchToSync, Exit, MainStep, StopQueue, JoinedSwitch, JoinedExit, allVars
<1>2. /\ isAsync' \in BOOLEAN
      /\ holder' \in Callers \cup {Worker, Main, Nobody}
      /\ main' \in {"runs", "switching", "sync", "exiting", "ended"}
  BY DEF LoggerTypeOK, LoggerNext, Log, LogAsync, LogDirect, QueueOnly, WorkerPops, DispatchStep, Dispatch,
         RollStep, Announce, WriteAndLeave, RenameThrows, SwitchToSync, Exit, MainStep, StopQueue,
         JoinedSwitch, JoinedExit, allVars, loggerVars
<1>3. down' \in BOOLEAN
  BY DEF LoggerTypeOK, LoggerNext, Log, LogAsync, LogDirect, QueueOnly, WorkerPops, DispatchStep, Dispatch,
         RollStep, Announce, WriteAndLeave, RenameThrows, SwitchToSync, Exit, MainStep, StopQueue,
         JoinedSwitch, JoinedExit, allVars, loggerVars
<1>4. direct' \in [Callers -> DirectEvents \cup {NoEvent}]
  BY DEF LoggerTypeOK, LoggerNext, Log, LogAsync, LogDirect, QueueOnly, WorkerPops, DispatchStep, Dispatch,
         RollStep, Announce, WriteAndLeave, RenameThrows, SwitchToSync, Exit, MainStep, StopQueue,
         JoinedSwitch, JoinedExit, allVars, loggerVars
<1>5. handed' \in Seq(Events)
  <2>1. CASE WriteAndLeave
    BY <2>1, CurrentIsEvent DEF WriteAndLeave, LoggerTypeOK
  <2>2. CASE UNCHANGED handed
    BY <2>2 DEF LoggerTypeOK
  <2> QED BY <2>1, <2>2
          DEF LoggerNext, Log, LogAsync, LogDirect, QueueOnly, WorkerPops, DispatchStep, Dispatch,
              RollStep, Announce, RenameThrows, SwitchToSync, Exit, MainStep, StopQueue,
              JoinedSwitch, JoinedExit, allVars, loggerVars
<1> QED BY <1>0, <1>1, <1>2, <1>3, <1>4, <1>5 DEF LoggerTypeOK, AnyEvents

\* Every step of the logger keeps the worker's account.
LEMMA DispatchInvStep ==
  ASSUME LoggerTypeOK, DispatchInv, [LoggerNext]_allVars
  PROVE  DispatchInv'
<1> USE LoggerAssumption
<1>0. TypeOK /\ handed \in Seq(Events) /\ Worker \in Consumers /\ Worker \in Threads
      /\ Worker \notin Callers /\ {Main, Nobody} \cap (Callers \cup {Worker}) = {}
  BY QueueAssumption DEF LoggerTypeOK, Threads, Callers
<1>1. CASE WorkerPops
  <2>1. ~HasPopped /\ PopStep(Worker) /\ UNCHANGED <<handed, holder, direct>>
    BY <1>1 DEF WorkerPops, loggerVars
  <2>2. handed = popped
    BY <2>1 DEF DispatchInv, Behind, HasPopped
  <2>3. holder # Worker
    BY <2>1 DEF DispatchInv, HolderHasEvent
  <2>4. Behind'
    <3>1. CASE PopTakes(Worker)
      <4>1. at'[Worker] = "idle"
        BY <1>0, <3>1, LeaveEffect DEF PopTakes
      <4>2. popped' = Append(popped, Head(queue)) /\ Head(queue) \in Events
        BY <1>0, <3>1 DEF PopTakes, TypeOK
      <4> QED BY <2>1, <2>2, <4>1, <4>2 DEF Behind
    <3>2. CASE UNCHANGED popped
      BY <2>1, <2>2, <3>2 DEF Behind
    <3> QED BY <2>1, <3>1, <3>2 DEF PopStep, PopCall, PopEnds, Park
  <2> QED BY <2>1, <2>3, <2>4 DEF DispatchInv, HolderHasEvent
<1>2. CASE WriteAndLeave
  <2>1. UNCHANGED <<popped, at>> /\ holder' = Nobody
    BY <1>2 DEF WriteAndLeave, vars
  <2>2. handed' = popped \/ handed' = handed
    BY <1>2, CurrentIsEvent DEF WriteAndLeave
  <2> QED BY <1>0, <2>1, <2>2 DEF DispatchInv, Behind, HolderHasEvent
<1>3. CASE ~WorkerPops /\ ~WriteAndLeave
  <2>1. handed' = handed
    BY <1>3 DEF LoggerNext, Log, LogAsync, LogDirect, QueueOnly, DispatchStep, Dispatch, RollStep, Announce,
                RenameThrows, SwitchToSync, Exit, MainStep, StopQueue, JoinedSwitch, JoinedExit,
                allVars, loggerVars
  <2>2. /\ popped' = popped
        /\ at'[Worker] = at[Worker] \/ (at[Worker] = "waiting" /\ at'[Worker] = "locking")
    BY <1>0, <1>3, WorkerAlone
  <2>3. Behind' /\ (HasPopped => HasPopped')
    BY <2>1, <2>2 DEF DispatchInv, Behind, HasPopped
  <2>4. \/ UNCHANGED holder
        \/ holder' \in {Main, Nobody}
        \/ holder' = Worker /\ HasPopped
        \/ holder' \in Callers /\ direct[holder'] # NoEvent /\ UNCHANGED direct
    BY <1>3 DEF LoggerNext, Log, LogAsync, LogDirect, QueueOnly, DispatchStep, Dispatch, RollStep, Announce,
                RenameThrows, SwitchToSync, Exit, MainStep, StopQueue, JoinedSwitch, JoinedExit,
                allVars, loggerVars
  <2>5. \A c \in Callers : direct[c] # NoEvent => direct'[c] = direct[c]
    BY <1>3 DEF LoggerTypeOK, LoggerNext, Log, LogAsync, LogDirect, QueueOnly, DispatchStep, Dispatch, RollStep,
                Announce, RenameThrows, SwitchToSync, Exit, MainStep, StopQueue, JoinedSwitch, JoinedExit,
                allVars, loggerVars
  <2>6. HolderHasEvent'
    BY <1>0, <2>3, <2>4, <2>5 DEF DispatchInv, HolderHasEvent
  <2> QED BY <2>3, <2>6 DEF DispatchInv
<1> QED BY <1>1, <1>2, <1>3

\* The first state has the types.
LEMMA LoggerStart ==
  ASSUME LoggerInit
  PROVE  LoggerTypeOK /\ DispatchInv
<1> USE LoggerAssumption, QueueAssumption, FileAssumption
<1>1. TypeOK
  BY DEF LoggerInit, Init, TypeOK, Stages, Threads
<1>2. FileTypeOK(AnyEvents)
  <2>1. disk \in [Files -> Seq(AnyEvents)]
    <3>1. disk \in [Files -> Seq(EarlierEvents)]
      BY DEF LoggerInit, FileInit
    <3>2. Seq(EarlierEvents) \subseteq Seq(AnyEvents)
      BY SeqMonotonic DEF AnyEvents
    <3> QED BY <3>1, <3>2
  <2>2. currentSize \in Nat
    BY <2>1 DEF LoggerInit, FileInit, Files
  <2>3. holes \in Nat
    BY FilesFinite DEF LoggerInit, FileInit
  <2> QED BY <2>1, <2>2, <2>3 DEF LoggerInit, FileInit, FileTypeOK
<1>3. /\ isAsync \in BOOLEAN /\ down \in BOOLEAN /\ direct \in [Callers -> DirectEvents \cup {NoEvent}]
      /\ handed = <<>> /\ popped = <<>> /\ holder = Nobody /\ main = "runs"
  BY DEF LoggerInit, Init
<1>4. Behind /\ HolderHasEvent
  BY <1>3 DEF Behind, HolderHasEvent, Callers, Threads
<1> QED BY <1>1, <1>2, <1>3, <1>4 DEF LoggerTypeOK, DispatchInv, AnyEvents

\* Every variable of the logger has its type, and who appends has an event to append.
LEMMA DispatchCorrect == LoggerSafety => [](LoggerTypeOK /\ DispatchInv)
<1>1. LoggerInit => LoggerTypeOK /\ DispatchInv
  BY LoggerStart
<1>2. LoggerTypeOK /\ DispatchInv /\ [LoggerNext]_allVars => (LoggerTypeOK /\ DispatchInv)'
  BY LoggerTypeStep, DispatchInvStep
<1> QED BY <1>1, <1>2, PTL DEF LoggerSafety

\* Every variable has its type.
THEOREM LoggerTypes == LoggerSafety => []LoggerTypeOK
BY DispatchCorrect, PTL

-----------------------------------------------------------------------------
(* Nothing is left behind *)

\* Whoever has ended or switched the asynchronous mode has joined the worker.
JoinedFirst ==
  /\ main = "runs" => isAsync
  /\ main \in {"sync", "ended"} => at[Worker] = "ended"

\* Every step keeps it.
LEMMA JoinedFirstStep ==
  ASSUME LoggerTypeOK, JoinedFirst, [LoggerNext]_allVars
  PROVE  JoinedFirst'
<1> USE LoggerAssumption
<1>0. TypeOK /\ Worker \in Threads
  BY DEF LoggerTypeOK, Threads
<1>1. at[Worker] = "ended" => at'[Worker] = "ended"
  <2>1. CASE WorkerPops
    BY <1>0, <2>1 DEF WorkerPops, PopStep, PopCall, PopTakes, PopEnds, Park, Move
  <2>2. CASE ~WorkerPops
    BY <1>0, <2>2, WorkerAlone
  <2> QED BY <2>1, <2>2
<1>2. \/ UNCHANGED <<isAsync, main>>
      \/ main' \in {"switching", "exiting"}
      \/ main' \in {"sync", "ended"} /\ at[Worker] = "ended"
  BY DEF JoinedFirst, WorkerHasEnded, LoggerNext, Log, LogAsync, LogDirect, QueueOnly, WorkerPops, DispatchStep,
         Dispatch, RollStep, Announce, WriteAndLeave, RenameThrows, SwitchToSync, Exit, MainStep, StopQueue,
         JoinedSwitch, JoinedExit, allVars, loggerVars
<1> QED BY <1>1, <1>2 DEF JoinedFirst

\* ~Logger, and SetAsyncMode(false), return with every accepted event handed to the appenders in order.
THEOREM FlushedAlways == LoggerSafety => []Flushed
<1>1. LoggerInit => JoinedFirst
  BY DEF LoggerInit, JoinedFirst
<1>2. LoggerTypeOK /\ JoinedFirst /\ [LoggerNext]_allVars => JoinedFirst'
  BY JoinedFirstStep
<1>3. LoggerTypeOK /\ DispatchInv /\ JoinedFirst /\ Fifo /\ NothingLeftBehind => Flushed
  <2> SUFFICES ASSUME LoggerTypeOK, DispatchInv, Fifo, NothingLeftBehind, at[Worker] = "ended"
               PROVE  handed = accepted
    BY DEF JoinedFirst, Flushed
  <2>1. handed = popped
    BY DEF DispatchInv, Behind
  <2>2. queue = <<>>
    BY LoggerAssumption DEF NothingLeftBehind, In
  <2>3. accepted = popped
    BY <2>2 DEF Fifo, LoggerTypeOK, TypeOK
  <2> QED BY <2>1, <2>3
<1>4. LoggerSafety => []Fifo /\ []NothingLeftBehind
  BY UsesSafeQueue, FifoAlways, NothingLeftBehindAlways, PTL
<1> QED BY <1>1, <1>2, <1>3, <1>4, DispatchCorrect, PTL DEF LoggerSafety
-----------------------------------------------------------------------------
(* What a roll keeps *)

\* The name a roll has just freed, and will fill unless the next file is missing.
Slot == IF stage = "rename" /\ next < MaxBackup - 1 THEN {next + 1} ELSE {}

\* _currentSize is right whenever it is read, the log is full when it is rolled and gone when it was.
SizeRight ==
  /\ stage \in {"check", "write"} => isOpen /\ currentSize = Len(disk[0])
  /\ stage = "rename" => Len(disk[0]) >= MaxFileSize
  /\ stage = "announce" => disk[0] = <<>>

\* RollFile frees names from the oldest on, and overwrites at most the oldest backup.
NamesFree ==
  /\ BackupsWhole(disk)
  /\ \A f \in Slot : disk[f] = <<>>
  /\ Cardinality(Holes(disk) \ Slot) <= holes

\* What was lost was written before all that is kept, and for enough full files.
LostIsOldest ==
  \E lost \in Seq(AnyEvents) :
    /\ written = lost \o Text
    /\ lost # <<>> => Cardinality(Full(disk)) >= MaxBackup - holes

RollInv == ~failed => SizeRight /\ NamesFree /\ LostIsOldest

\* Renaming a file keeps it.
LEMMA RenameKeepsRollInv ==
  ASSUME FileTypeOK(AnyEvents), RollInv, Rename, UNCHANGED written
  PROVE  RollInv'
<1> USE FileAssumption
<1> SUFFICES ASSUME ~failed PROVE (SizeRight /\ NamesFree /\ LostIsOldest)'
  BY DEF RollInv, Rename
<1>0. /\ SizeRight /\ NamesFree /\ LostIsOldest /\ stage = "rename"
      /\ next \in Nat /\ next < MaxBackup /\ disk \in [Files -> Seq(AnyEvents)] /\ holes' = holes
      /\ holes \in Nat
  BY DEF RollInv, Rename, FileTypeOK
<1>1. next \in Files /\ next + 1 \in Files /\ 0 \in Files /\ MaxBackup \in Files
  BY <1>0 DEF Files
<1>2. /\ next > 0 => next' = next - 1 /\ stage' = "rename"
      /\ next = 0 => stage' = "announce"
  BY <1>0 DEF Rename
<1>3. Slot' = {next} \ {0}
  BY <1>0, <1>2 DEF Slot
<1>4. IsFiniteSet(Holes(disk)) /\ 0 \notin Holes(disk) /\ 0 \notin Holes(disk')
  <2>1. IsFiniteSet(Holes(disk))
    BY FilesFinite
  <2> QED BY <2>1 DEF Holes
<1>5. PICK lost \in Seq(AnyEvents) :
        /\ written = lost \o TextOf(disk)[MaxBackup]
        /\ lost # <<>> => Cardinality(Full(disk)) >= MaxBackup - holes
  BY <1>0 DEF LostIsOldest, Text
<1>6. CASE disk[next] = <<>>
  <2>1. disk' = disk
    BY <1>6 DEF Rename
  <2>2. next # 0
    BY <1>0, <1>6 DEF SizeRight
  <2>3. SizeRight'
    BY <1>0, <1>2, <2>1, <2>2 DEF SizeRight
  <2>4. Cardinality(Holes(disk) \ {next}) <= holes
    <3>1. CASE next < MaxBackup - 1
      <4>1. Slot = {next + 1} /\ disk[next + 1] = <<>>
        BY <1>0, <3>1 DEF Slot, NamesFree
      <4>2. next \in Holes(disk) <=> next + 1 \in Holes(disk)
        <5>1. \A g \in next + 1 .. MaxBackup : disk[g] # <<>> => g \in (next + 1) + 1 .. MaxBackup
          BY <1>0, <4>1
        <5>2. \A g \in (next + 1) + 1 .. MaxBackup : g \in next + 1 .. MaxBackup
          BY <1>0
        <5>3. next \in 1 .. MaxBackup - 1 /\ next + 1 \in 1 .. MaxBackup - 1
          BY <1>0, <2>2, <3>1
        <5> QED BY <1>6, <4>1, <5>1, <5>2, <5>3 DEF Holes
      <4>3. Cardinality(Holes(disk) \ {next}) = Cardinality(Holes(disk) \ {next + 1})
        BY <1>4, <4>2, SameWithout
      <4> QED BY <1>0, <4>1, <4>3 DEF NamesFree
    <3>2. CASE ~ (next < MaxBackup - 1)
      <4>1. Holes(disk) \ Slot = Holes(disk)
        BY <3>2 DEF Slot
      <4>2. /\ Cardinality(Holes(disk) \ {next}) <= Cardinality(Holes(disk))
            /\ Cardinality(Holes(disk)) \in Nat /\ Cardinality(Holes(disk) \ {next}) \in Nat
        BY <1>4, FS_Subset, FS_CardinalityType
      <4>3. Cardinality(Holes(disk)) <= holes
        BY <1>0, <4>1 DEF NamesFree
      <4> HIDE DEF Holes
      <4> QED BY <1>0, <4>2, <4>3
    <3> QED BY <3>1, <3>2
  <2>5. NamesFree'
    <3>1. Slot' = {next}
      BY <1>3, <2>2
    <3> QED BY <1>0, <1>6, <2>1, <2>4, <3>1 DEF NamesFree
  <2>6. LostIsOldest'
    BY <1>0, <1>5, <2>1 DEF LostIsOldest, Text
  <2> QED BY <2>3, <2>5, <2>6
<1>7. CASE disk[next] # <<>>
  <2> DEFINE c == disk'
  <2>1. /\ c = [disk EXCEPT ![next + 1] = disk[next], ![next] = <<>>]
        /\ Moved(disk, c, next)
    BY <1>0, <1>1, <1>7 DEF Rename, Renamed, Moved
  <2>2. Len(disk[next]) >= MaxFileSize
    <3>1. CASE next = 0
      BY <1>0, <3>1 DEF SizeRight
    <3>2. CASE next # 0
      BY <1>0, <1>7, <3>2 DEF NamesFree, BackupsWhole
    <3> QED BY <3>1, <3>2
  <2>3. next + 1 # MaxBackup => disk[next + 1] = <<>>
    BY <1>0 DEF NamesFree, Slot
  <2>4. SizeRight'
    BY <1>0, <1>1, <1>2, <2>1 DEF SizeRight, Moved
  <2>5. BackupsWhole(c)
    <3> SUFFICES ASSUME NEW f \in 1 .. MaxBackup PROVE c[f] = <<>> \/ Len(c[f]) >= MaxFileSize
      BY DEF BackupsWhole
    <3>1. f \in Files
      BY DEF Files
    <3> QED BY <1>0, <2>1, <2>2, <3>1 DEF NamesFree, BackupsWhole, Moved
  <2>6. Cardinality(Holes(c) \ {next}) <= holes
    <3>1. Holes(c) \ {next} \subseteq Holes(disk) \ {next + 1}
      BY <1>7, <2>1, HolesMoved
    <3>2. Slot \subseteq {next + 1}
      BY DEF Slot
    <3>3. Holes(c) \ {next} \subseteq Holes(disk) \ Slot
      BY <3>1, <3>2
    <3>4. IsFiniteSet(Holes(disk) \ Slot) /\ Cardinality(Holes(disk) \ Slot) \in Nat
      BY <1>4, FS_Difference, FS_CardinalityType
    <3>5. /\ Cardinality(Holes(c) \ {next}) <= Cardinality(Holes(disk) \ Slot)
          /\ IsFiniteSet(Holes(c) \ {next})
      BY <3>3, <3>4, FS_Subset
    <3>6. Cardinality(Holes(c) \ {next}) \in Nat
      BY <3>5, FS_CardinalityType
    <3> QED BY <1>0, <3>4, <3>5, <3>6 DEF NamesFree
  <2>7. NamesFree'
    <3>1. Holes(c) \ ({next} \ {0}) = Holes(c) \ {next}
      BY <1>4
    <3>2. \A f \in {next} \ {0} : c[f] = <<>>
      BY <2>1 DEF Moved
    <3> QED BY <1>0, <1>3, <2>5, <2>6, <3>1, <3>2 DEF NamesFree
  <2>8. /\ disk[next + 1] = <<>> => TextOf(c)[MaxBackup] = TextOf(disk)[MaxBackup]
        /\ next + 1 = MaxBackup => TextOf(disk)[MaxBackup] = disk[MaxBackup] \o TextOf(c)[MaxBackup]
    <3>1. /\ disk \in [Files -> Seq(AnyEvents)] /\ next \in Files /\ next + 1 \in Files
          /\ c[next] = <<>> /\ c[next + 1] = disk[next]
          /\ \A i \in Files \ {next, next + 1} : c[i] = disk[i]
      BY <1>0, <1>1, <2>1 DEF Moved
    <3> HIDE DEF c
    <3> QED BY ONLY <3>1, TextMoved
  <2>9. LostIsOldest'
    <3>1. CASE disk[next + 1] = <<>>
      <4>1. Cardinality(Full(c)) = Cardinality(Full(disk))
        BY <2>1, <2>2, <3>1, FullMoved
      <4> QED BY <1>0, <1>5, <2>8, <3>1, <4>1 DEF LostIsOldest, Text
    <3>2. CASE disk[next + 1] # <<>>
      <4>1. next + 1 = MaxBackup /\ disk[MaxBackup] # <<>>
        BY <2>3, <3>2
      <4>2. Len(disk[next + 1]) >= MaxFileSize
        BY <1>0, <4>1 DEF NamesFree, BackupsWhole
      <4>3. Cardinality(Full(disk)) >= MaxBackup + 1 - Cardinality(Holes(disk))
        BY <1>0, <4>1, FullOrHole DEF SizeRight, NamesFree
      <4>4. Cardinality(Holes(disk)) <= holes
        BY <1>0, <4>1 DEF NamesFree, Slot
      <4>5. Cardinality(Full(c)) = Cardinality(Full(disk)) - 1
        BY <2>1, <2>2, <4>2, FullMoved
      <4>6. Cardinality(Full(c)) >= MaxBackup - holes
        BY <1>0, <4>3, <4>4, <4>5, FilesFinite
      <4>7. c \in [Files -> Seq(AnyEvents)]
        BY <1>0, <1>1, <2>1
      <4>8. disk[MaxBackup] \in Seq(AnyEvents) /\ TextOf(c)[MaxBackup] \in Seq(AnyEvents)
        BY <1>0, <1>1, <4>7, TextType
      <4>9. /\ lost \o disk[MaxBackup] \in Seq(AnyEvents)
            /\ written = (lost \o disk[MaxBackup]) \o TextOf(c)[MaxBackup]
        <5> DEFINE t == TextOf(c)[MaxBackup]  b == disk[MaxBackup]
        <5>1. b \in Seq(AnyEvents) /\ t \in Seq(AnyEvents) /\ written = lost \o (b \o t)
          BY <1>5, <2>8, <4>1, <4>8
        <5> HIDE DEF t, b
        <5>2. lost \o b \in Seq(AnyEvents) /\ lost \o (b \o t) = (lost \o b) \o t
          BY <5>1, ConcatProperties, ConcatAssociative
        <5> QED BY <5>1, <5>2 DEF t, b
      <4> QED BY <1>0, <4>6, <4>9 DEF LostIsOldest, Text
    <3> QED BY <3>1, <3>2
  <2> QED BY <2>4, <2>7, <2>9
<1> QED BY <1>6, <1>7

\* Writing adds to the text, unless it fails.
LEMMA WriteKeepsRollInv ==
  ASSUME FileTypeOK(AnyEvents), RollInv, NEW e \in AnyEvents, WriteFile(e), written' = Append(written, e)
  PROVE  RollInv'
<1> USE FileAssumption
<1> SUFFICES ASSUME ~failed' PROVE (SizeRight /\ NamesFree /\ LostIsOldest)'
  BY DEF RollInv
<1>w. ~failed /\ isOpen /\ isOpen' = isOpen /\ disk' = [disk EXCEPT ![0] = Append(@, e)]
  BY DEF WriteFile
<1>0. /\ SizeRight /\ NamesFree /\ LostIsOldest /\ stage \in {"check", "write"} /\ stage' = "check"
      /\ disk \in [Files -> Seq(AnyEvents)] /\ UNCHANGED <<isOpen, holes>>
  BY <1>w DEF RollInv, WriteFile, FileTypeOK
<1>1. isOpen /\ disk' = [disk EXCEPT ![0] = Append(@, e)] /\ 0 \in Files /\ MaxBackup \in Files
  BY <1>w, FileNumbers
<1>2. SizeRight'
  BY <1>0, <1>1 DEF SizeRight, WriteFile
<1>3. \A f \in 1 .. MaxBackup : disk'[f] = disk[f]
  BY <1>0, <1>1 DEF Files
<1>4. Holes(disk') = Holes(disk)
  BY <1>3 DEF Holes
<1>5. NamesFree'
  BY <1>0, <1>3, <1>4 DEF NamesFree, BackupsWhole, Slot
<1>6. PICK lost \in Seq(AnyEvents) :
        /\ written = lost \o TextOf(disk)[MaxBackup]
        /\ lost # <<>> => Cardinality(Full(disk)) >= MaxBackup - holes
  BY <1>0 DEF LostIsOldest, Text
<1>7. TextOf(disk')[MaxBackup] = Append(TextOf(disk)[MaxBackup], e)
  BY <1>0, <1>1, TextWritten
<1>8. written' = lost \o TextOf(disk')[MaxBackup]
  <2> DEFINE t == TextOf(disk)[MaxBackup]
  <2>1. t \in Seq(AnyEvents)
    BY <1>0, <1>1, TextType
  <2> HIDE DEF t
  <2>2. Append(lost \o t, e) = lost \o Append(t, e)
    BY <2>1
  <2> QED BY <1>6, <1>7, <2>2 DEF t
<1>9. Cardinality(Full(disk')) >= Cardinality(Full(disk))
  <2>1. Full(disk) \subseteq Full(disk')
    <3> SUFFICES ASSUME NEW f \in Full(disk) PROVE f \in Full(disk')
      OBVIOUS
    <3>1. f \in Files /\ Len(disk[f]) >= MaxFileSize /\ disk[f] \in Seq(AnyEvents)
      BY <1>0 DEF Full, FullUpTo, Files
    <3>2. Len(disk'[f]) >= MaxFileSize
      BY <1>0, <1>1, <3>1
    <3> QED BY <3>1, <3>2 DEF Full, FullUpTo, Files
  <2> QED BY <2>1, FilesFinite, FS_Subset
<1>10. lost # <<>> => Cardinality(Full(disk')) >= MaxBackup - holes
  <2>1. holes \in Nat /\ Cardinality(Full(disk)) \in Nat /\ Cardinality(Full(disk')) \in Nat
    BY FilesFinite DEF FileTypeOK
  <2> QED BY <1>6, <1>9, <2>1
<1>11. LostIsOldest'
  BY <1>0, <1>6, <1>8, <1>10 DEF LostIsOldest, Text
<1> QED BY <1>2, <1>5, <1>11

\* So do the other steps of a roll.
LEMMA RollKeepsRollInv ==
  ASSUME FileTypeOK(AnyEvents), RollInv, BeginRoll \/ OpenFile \/ Announces, UNCHANGED written
  PROVE  RollInv'
<1> USE FileAssumption
<1> SUFFICES ASSUME ~failed' PROVE (SizeRight /\ NamesFree /\ LostIsOldest)'
  BY DEF RollInv
<1>0. ~failed
  BY DEF BeginRoll, OpenFile, Announces
<1>1. SizeRight /\ NamesFree /\ LostIsOldest /\ UNCHANGED <<disk, holes>>
  BY <1>0 DEF RollInv, BeginRoll, OpenFile, Announces
<1>2. SizeRight'
  BY <1>0, <1>1 DEF SizeRight, BeginRoll, OpenFile, Announces, MustRoll
<1>3. Slot' = Slot
  BY <1>1 DEF Slot, BeginRoll, OpenFile, Announces
<1>4. NamesFree' /\ LostIsOldest'
  BY <1>1, <1>3 DEF NamesFree, LostIsOldest, Text
<1> QED BY <1>2, <1>4

\* Every step of the logger keeps what it says.
LEMMA RollInvStep ==
  ASSUME LoggerTypeOK, DispatchInv, RollInv, [LoggerNext]_allVars
  PROVE  RollInv'
<1>1. FileTypeOK(AnyEvents)
  BY DEF LoggerTypeOK, AnyEvents
<1>2. CASE RollStep \/ Announce
  <2>1. UNCHANGED written /\ (BeginRoll \/ Rename \/ OpenFile \/ Announces)
    BY <1>2 DEF RollStep, Announce, loggerVars
  <2> QED BY <1>1, <2>1, RenameKeepsRollInv, RollKeepsRollInv
<1>3. CASE WriteAndLeave
  <2>1. Current \in AnyEvents /\ WriteFile(Current) /\ written' = Append(written, Current)
    BY <1>3, CurrentIsEvent DEF WriteAndLeave
  <2> QED BY <1>1, <2>1, WriteKeepsRollInv
<1>4. CASE UNCHANGED <<fileVars, written>>
  <2>1. SizeRight' = SizeRight /\ Slot' = Slot /\ UNCHANGED <<disk, written, holes, failed>>
    BY <1>4 DEF SizeRight, Slot, fileVars
  <2>2. (NamesFree' <=> NamesFree) /\ (LostIsOldest' <=> LostIsOldest)
    BY <2>1 DEF NamesFree, LostIsOldest, Text
  <2> QED BY <2>1, <2>2 DEF RollInv
<1> QED BY <1>2, <1>3, <1>4
        DEF LoggerNext, Log, LogAsync, LogDirect, QueueOnly, WorkerPops, DispatchStep, Dispatch,
            RenameThrows, SwitchToSync, Exit, MainStep, StopQueue, JoinedSwitch, JoinedExit, allVars, loggerVars

\* It holds at the start, whatever an earlier process has left.
LEMMA RollInvStart ==
  ASSUME LoggerInit, LoggerTypeOK
  PROVE  RollInv
<1> SUFFICES ASSUME ~failed PROVE SizeRight /\ NamesFree /\ LostIsOldest
  BY DEF RollInv
<1>1. SizeRight
  BY DEF LoggerInit, FileInit, SizeRight
<1>2. NamesFree
  <2>1. Slot = {} /\ Holes(disk) \ {} = Holes(disk)
    BY DEF LoggerInit, FileInit, Slot
  <2>2. BackupsWhole(disk)
    BY LoggerAssumption DEF LoggerInit, FileInit
  <2>3. holes = Cardinality(Holes(disk)) /\ holes \in Nat
    BY DEF LoggerInit, FileInit, LoggerTypeOK, FileTypeOK
  <2> QED BY <2>1, <2>2, <2>3 DEF NamesFree
<1>3. LostIsOldest
  <2>1. disk \in [Files -> Seq(AnyEvents)]
    BY DEF LoggerTypeOK, FileTypeOK, AnyEvents
  <2>2. Text \in Seq(AnyEvents)
    BY <2>1, TextType, FileNumbers DEF Text
  <2>3. <<>> \in Seq(AnyEvents) /\ written = <<>> \o Text
    BY <2>2, ConcatEmptySeq DEF LoggerInit
  <2> QED BY <2>3 DEF LostIsOldest
<1> QED BY <1>1, <1>2, <1>3

\* So the files hold the end of what was written, and as many backups as are meant to be kept.
LEMMA RollInvEnough ==
  ASSUME LoggerTypeOK, RollInv
  PROVE  SuffixKept
<1> USE FileAssumption
<1> SUFFICES ASSUME ~failed
             PROVE  /\ IsSuffix(Text, written)
                    /\ Len(Text) < Len(written) => Len(Text) >= MaxFileSize * (MaxBackup - holes)
  BY DEF SuffixKept
<1>1. PICK lost \in Seq(AnyEvents) :
        /\ written = lost \o Text
        /\ lost # <<>> => Cardinality(Full(disk)) >= MaxBackup - holes
  BY DEF RollInv, LostIsOldest
<1>2. disk \in [Files -> Seq(AnyEvents)] /\ holes \in Nat
  BY DEF LoggerTypeOK, FileTypeOK, AnyEvents
<1>3. Text \in Seq(AnyEvents)
  BY <1>2, TextType, FileNumbers DEF Text
<1>4. IsSuffix(Text, written)
  BY <1>1, <1>3, EndIsSuffix
<1>5. ASSUME Len(Text) < Len(written) PROVE Len(Text) >= MaxFileSize * (MaxBackup - holes)
  <2> DEFINE k == Cardinality(Full(disk))  b == MaxBackup - holes
  <2>1. lost # <<>>
    BY <1>1, <1>3, <1>5, ConcatEmptySeq, LenProperties
  <2>2. k >= b /\ k \in Nat /\ b \in Int /\ MaxFileSize \in Nat
    BY <1>1, <1>2, <2>1, FilesFinite
  <2>3. Len(Text) >= MaxFileSize * k /\ Len(Text) \in Nat
    BY <1>2, <1>3, TextLong, FileNumbers, LenProperties DEF Text, Full
  <2> HIDE DEF k, b
  <2>4. MaxFileSize * k >= MaxFileSize * b
    <3>1. k - b \in Nat /\ k = (k - b) + b
      BY <2>2
    <3>2. MaxFileSize * (k - b) \in Nat
      BY <2>2, <3>1
    <3>3. MaxFileSize * k = MaxFileSize * (k - b) + MaxFileSize * b
      BY <2>2, <3>1
    <3> QED BY <2>2, <3>2, <3>3
  <2>5. MaxFileSize * k \in Int /\ MaxFileSize * b \in Int
    BY <2>2
  <2>6. Len(Text) >= MaxFileSize * b
    BY <2>3, <2>4, <2>5
  <2> QED BY <2>6 DEF b
<1> QED BY <1>4, <1>5

\* Its account of the files holds throughout.
LEMMA RollCorrect == LoggerSafety => [](LoggerTypeOK /\ RollInv)
<1>1. LoggerInit => RollInv
  BY RollInvStart, LoggerStart
<1>2. LoggerTypeOK /\ DispatchInv /\ RollInv /\ [LoggerNext]_allVars => RollInv'
  BY RollInvStep
<1> QED BY <1>1, <1>2, DispatchCorrect, PTL DEF LoggerSafety

\* At every moment of a roll the files hold an unbroken end of all that was written, and what is lost
\* is only ever lost for the backups that are meant to be kept.
THEOREM SuffixKeptAlways == LoggerSafety => []SuffixKept
BY RollCorrect, RollInvEnough, PTL

\* What a process finds on the disk it also leaves there, whenever it ends: backups that are whole.
THEOREM LeavesBackupsWhole == LoggerSafety => [](~failed => BackupsWhole(disk))
<1>1. LoggerTypeOK /\ RollInv => (~failed => BackupsWhole(disk))
  BY DEF RollInv, NamesFree
<1> QED BY <1>1, RollCorrect, PTL

-----------------------------------------------------------------------------
(* The knot *)

\* The log thread logs only while it rolls the file, which is while it holds the mutex.
NestedInside == at[Nested] # "idle" => stage = "announce" /\ holder = Worker

\* SetAsyncMode(false) keeps the mutex, and it and ~Logger are who stops the queue.
MainHolds ==
  /\ main = "switching" => holder = Main
  /\ main = "runs" => stop = "no"

\* The queue stopped or a thread moved: what each step of the logger may do to them.
LEMMA NestedMoves ==
  ASSUME LoggerTypeOK, [LoggerNext]_allVars
  PROVE  \/ at[Nested] # "idle"
         \/ at'[Nested] = "idle"
         \/ Announce
<1> USE LoggerAssumption, QueueAssumption
<1> SUFFICES ASSUME at[Nested] = "idle", ~Announce PROVE at'[Nested] = "idle"
  OBVIOUS
<1>0. TypeOK /\ Nested \in Threads /\ Nested # Worker
  BY DEF LoggerTypeOK, Threads
<1>1. ASSUME NEW t \in Threads, NEW stg, NEW waiters, t # Nested, LeaveAndNotify(t, stg, waiters)
      PROVE  at'[Nested] = "idle"
  BY <1>0, <1>1 DEF LeaveAndNotify, In, TypeOK
<1>2. ASSUME NEW p \in Producers, PushStep(p) PROVE at'[Nested] = "idle"
  <2>1. p # Nested /\ p \in Threads
    BY <1>2 DEF PushStep, PushEnds, Park, Move, Threads
  <2>2. CASE PushEnds(p)
    BY <1>0, <1>1, <2>1, <2>2 DEF PushEnds, Move, TypeOK
  <2>3. CASE Park(p)
    BY <1>0, <2>1, <2>3 DEF Park, Move, TypeOK
  <2> QED BY <1>2, <2>2, <2>3 DEF PushStep
<1>3. ASSUME NEW c \in Callers, Log(c) PROVE at'[Nested] = "idle"
  BY <1>0, <1>3 DEF Log, LogAsync, LogDirect, PushCall, Move, Callers, TypeOK, vars
<1>4. ASSUME NEW t \in Threads, Spurious(t) PROVE at'[Nested] = "idle"
  BY <1>0, <1>4 DEF Spurious, Move, TypeOK
<1>5. CASE WorkerPops
  <2>1. CASE PopTakes(Worker)
    BY <1>0, <1>1, <2>1 DEF PopTakes, Threads
  <2>2. CASE PopCall(Worker) \/ PopEnds(Worker) \/ Park(Worker)
    BY <1>0, <2>2 DEF PopCall, PopEnds, Park, Move, TypeOK
  <2> QED BY <1>5, <2>1, <2>2 DEF WorkerPops, PopStep
<1>6. CASE Stop
  BY <1>0, <1>6 DEF Stop, In
<1>7. CASE UNCHANGED vars
  BY <1>7 DEF vars
<1> QED BY <1>2, <1>3, <1>4, <1>5, <1>6, <1>7
        DEF LoggerNext, QueueOnly, DispatchStep, Dispatch, RollStep, RenameThrows, WriteAndLeave, SwitchToSync,
            Exit, MainStep, StopQueue, JoinedSwitch, JoinedExit, allVars

\* Every step keeps both.
LEMMA KnotInvStep ==
  ASSUME LoggerTypeOK, NestedInside, MainHolds, [LoggerNext]_allVars
  PROVE  NestedInside' /\ MainHolds'
<1> USE LoggerAssumption
<1>1. Worker \notin {Main, Nobody} /\ Worker \notin Callers /\ Main # Nobody
  BY QueueAssumption DEF Threads, Callers
<1>2. MainHolds'
  <2>1. CASE StopQueue
    BY <2>1 DEF StopQueue, MainHolds, loggerVars
  <2>2. CASE ~StopQueue
    <3>1. stop' = stop
      BY <2>2 DEF LoggerNext, Log, LogAsync, LogDirect, PushCall, QueueOnly, PushStep, PushEnds, Park, Spurious,
                  WorkerPops, PopStep, PopCall, PopTakes, PopEnds, DispatchStep, Dispatch, RollStep, Announce,
                  WriteAndLeave, RenameThrows, SwitchToSync, Exit, MainStep, JoinedSwitch, JoinedExit,
                  allVars, vars
    <3>2. \/ UNCHANGED main /\ (main = "switching" => UNCHANGED holder \/ Appending \/ holder = Nobody)
          \/ main' = "switching" /\ holder' = Main
          \/ main' \in {"sync", "exiting", "ended"}
      BY DEF LoggerNext, Log, LogAsync, LogDirect, QueueOnly, WorkerPops, DispatchStep, Dispatch, RollStep, Announce,
             WriteAndLeave, RenameThrows, SwitchToSync, Exit, MainStep, StopQueue, JoinedSwitch, JoinedExit,
             allVars, loggerVars
    <3>3. Main \notin Callers /\ Main # Worker
      BY DEF Callers, Threads
    <3> QED BY <1>1, <3>1, <3>2, <3>3 DEF MainHolds, Appending
  <2> QED BY <2>1, <2>2
<1>3. NestedInside'
  <2> SUFFICES ASSUME at'[Nested] # "idle" PROVE stage' = "announce" /\ holder' = Worker
    BY DEF NestedInside
  <2>1. CASE Announce
    BY <2>1 DEF Announce, Announces, loggerVars
  <2>2. CASE at[Nested] # "idle" /\ ~Announce
    <3>1. stage = "announce" /\ holder = Worker
      BY <2>2 DEF NestedInside
    <3>2. UNCHANGED <<stage, holder>>
      BY <1>1, <2>2, <3>1
         DEF MainHolds, LoggerNext, Log, LogAsync, LogDirect, QueueOnly, WorkerPops, DispatchStep, Dispatch,
             RollStep, BeginRoll, Rename, WriteAndLeave, WriteFile, RenameThrows, SwitchToSync, Exit, MainStep,
             StopQueue, JoinedSwitch, JoinedExit, allVars, fileVars, loggerVars
    <3> QED BY <3>1, <3>2
  <2> QED BY <2>1, <2>2, NestedMoves
<1> QED BY <1>2, <1>3

\* Once the log thread waits for room in its own queue nothing is accepted and nothing written any
\* more, until someone switches to synchronous mode or ends the logger: what logger_knot finds once
\* is so in every case, and it is not a delay.
KnotHolds ==
  [][BlockedOnItself /\ main' = "runs" => BlockedOnItself' /\ UNCHANGED <<accepted, written>>]_allVars

\* Every step leaves the knot tied.
LEMMA KnotStep ==
  ASSUME LoggerTypeOK, DispatchInv, NestedInside, MainHolds, [LoggerNext]_allVars,
         BlockedOnItself, main' = "runs"
  PROVE  BlockedOnItself' /\ UNCHANGED <<accepted, written>>
<1> USE LoggerAssumption
<1>0. /\ TypeOK /\ holder = Worker /\ at[Nested] # "idle" /\ Len(queue) >= MaxSize /\ MaxSize \in Nat
      /\ stage = "announce" /\ HasPopped /\ Nested \in Threads /\ Nested # Worker /\ Len(queue) \in Nat
      /\ Worker \notin {Main, Nobody} /\ Worker \notin Callers
  BY QueueAssumption
     DEF BlockedOnItself, LoggerTypeOK, NestedInside, DispatchInv, HolderHasEvent, Threads, Callers, TypeOK
<1>1. main = "runs" /\ IsRunning
  BY DEF MainHolds, IsRunning, LoggerNext, Log, LogAsync, LogDirect, QueueOnly, WorkerPops, DispatchStep, Dispatch,
         RollStep, Announce, WriteAndLeave, RenameThrows, SwitchToSync, Exit, MainStep, StopQueue, JoinedSwitch,
         JoinedExit, allVars, loggerVars
<1>2. ~MayQueue
  BY <1>0 DEF MayQueue
<1>3. ASSUME NEW p \in Producers, PushStep(p)
      PROVE  UNCHANGED <<queue, accepted>> /\ at'[Nested] # "idle"
  BY <1>0, <1>1, <1>2, <1>3 DEF PushStep, PushEnds, Park, Move, TypeOK, Threads
<1>4. ASSUME NEW t \in Threads, Spurious(t) PROVE UNCHANGED <<queue, accepted>> /\ at'[Nested] # "idle"
  BY <1>0, <1>4 DEF Spurious, Move, TypeOK
<1>5. ASSUME NEW c \in Callers, Log(c) PROVE UNCHANGED <<queue, accepted>> /\ at'[Nested] # "idle"
  BY <1>0, <1>5 DEF Log, LogAsync, LogDirect, PushCall, Move, Callers, TypeOK, vars
<1>6. ~WorkerPops /\ ~WriteAndLeave /\ ~MainStep /\ ~SwitchToSync /\ ~Exit
  <2>1. ~WriteAndLeave
    BY <1>0 DEF WriteAndLeave, WriteFile
  <2>2. ~Exit
    BY <1>1 DEF Exit
  <2> QED BY <1>0, <1>1, <2>1, <2>2 DEF WorkerPops, MainStep, StopQueue, JoinedSwitch, JoinedExit, SwitchToSync
<1>7. ASSUME Announce PROVE UNCHANGED <<queue, accepted>> /\ at'[Nested] # "idle"
  BY <1>0, <1>7 DEF Announce, PushCall, Move, vars
<1>8. ASSUME UNCHANGED vars PROVE UNCHANGED <<queue, accepted, at>>
  BY <1>8 DEF vars
<1>9. UNCHANGED <<queue, accepted>> /\ at'[Nested] # "idle"
  <2>1. \/ \E c \in Callers : Log(c)
        \/ \E p \in Producers : PushStep(p)
        \/ \E t \in Threads : Spurious(t)
        \/ Announce
        \/ UNCHANGED vars
    BY <1>6 DEF LoggerNext, QueueOnly, DispatchStep, Dispatch, RollStep, RenameThrows, allVars
  <2>2. CASE UNCHANGED vars
    BY <1>0, <1>8, <2>2
  <2> QED BY <1>3, <1>4, <1>5, <1>7, <2>1, <2>2
<1>10. UNCHANGED <<holder, written>>
  BY <1>0, <1>6 DEF LoggerNext, Log, LogAsync, LogDirect, QueueOnly, DispatchStep, Dispatch, RollStep, Announce,
                    RenameThrows, allVars, loggerVars
<1> QED BY <1>0, <1>9, <1>10 DEF BlockedOnItself

\* The knot does not come undone by itself.
THEOREM KnotIsForGood == LoggerSafety => KnotHolds
<1>1. LoggerInit => NestedInside /\ MainHolds
  BY LoggerAssumption DEF LoggerInit, Init, NestedInside, MainHolds, Threads
<1>2. LoggerTypeOK /\ NestedInside /\ MainHolds /\ [LoggerNext]_allVars => NestedInside' /\ MainHolds'
  BY KnotInvStep
<1>3. LoggerTypeOK /\ DispatchInv /\ NestedInside /\ MainHolds /\ [LoggerNext]_allVars
      => [BlockedOnItself /\ main' = "runs" => BlockedOnItself' /\ UNCHANGED <<accepted, written>>]_allVars
  BY KnotStep
<1> QED BY <1>1, <1>2, <1>3, DispatchCorrect, PTL DEF LoggerSafety, KnotHolds
=============================================================================
