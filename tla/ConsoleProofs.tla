---------------------------- MODULE ConsoleProofs ----------------------------
(***************************************************************************)
(* What the output lock keeps on any number of cores, with lines of any    *)
(* length: until a panic forces the lock the lines are whole, and each     *)
(* unlock by force lets at most one more core print at the same time.      *)
(***************************************************************************)
EXTENDS Console, FiniteSetTheorems, TLAPS

\* The variables that are truth values.
SwitchesOK == lock \in BOOLEAN /\ on \in BOOLEAN /\ exit \in [Core -> BOOLEAN]

\* What TypeOK says of the others.
CountersOK ==
    /\ checks \in Nat /\ missing_flag \in Nat /\ forced \in Nat
    /\ thr \in Char \cup {Empty} /\ last \in Char \cup {Empty}
    /\ pc \in [Core -> Places]
    /\ lines \in [Core -> 0 .. 3]
    /\ k \in [Core -> 0 .. Chars]
    /\ calls \in [Core -> 0 .. MaxCalls]
    /\ made \subseteq Core \X (0 .. MaxCalls) /\ reported \in Nat \cup {None} /\ absent \subseteq Core

\* The words of the lock and of the switch stay truth values.
LEMMA SwitchTypes ==
    ASSUME SwitchesOK, [Next]_vars
    PROVE  SwitchesOK'
<1> USE DEF SwitchesOK
<1>1. ASSUME NEW c \in Core, Step(c) PROVE SwitchesOK'
  <2>1. CASE Panic(c) BY <2>1 DEF Panic, Queue, GoTo
  <2>2. CASE Shutdown(c) \/ Report(c) BY <2>2 DEF Shutdown, Report, Queue, GoTo
  <2>3. CASE Lock(c) \/ Poll(c) \/ Out(c) \/ Unlock(c) \/ Off(c)
    BY <2>3 DEF Lock, Poll, Out, Unlock, Off, GoTo, print
  <2> QED BY <1>1, <2>1, <2>2, <2>3 DEF Step
<1>2. ASSUME NEW c \in Core, MayCall(c) PROVE SwitchesOK'
  <2>1. CASE Printf(c) BY <2>1 DEF Printf, Queue
  <2>2. CASE Check(c) \/ Missing(c) BY <2>2 DEF Check, Missing, print
  <2> QED BY <1>2, <2>1, <2>2 DEF MayCall
<1>3. ASSUME NEW c \in Core, Return(c) PROVE SwitchesOK'
  BY <1>3 DEF Return, print
<1>4. CASE Transmit BY <1>4 DEF Transmit, print
<1>5. CASE UNCHANGED vars BY <1>5 DEF vars, print
<1> QED BY <1>1, <1>2, <1>3, <1>4, <1>5 DEF Next, Halt, Ended

\* The counters stay within their bounds, and each core knows where it is in
\* what it prints.
LEMMA CounterTypes ==
    ASSUME CountersOK, Counts, [Next]_vars
    PROVE  CountersOK' /\ Counts'
<1>a. /\ Chars \in Nat \ {0} /\ MaxCalls \in Nat
      /\ \A c \in Core, n \in 1 .. Chars : [core |-> c, k |-> n] \in Char
  BY ConsoleAssumption DEF ConsoleAssumption, Char
<1>b. Places = {"kernelMain", "panic", "stopping", "report", "lock", "poll", "out", "unlock", "off", "hlt"}
  BY DEF Places
<1> USE DEF CountersOK, Counts, Printing, GoTo, print, seen
<1>1. ASSUME NEW c \in Core, Step(c) PROVE CountersOK' /\ Counts'
  <2>1. CASE Panic(c) BY <2>1, <1>b DEF Panic, Queue
  <2>2. CASE Shutdown(c) \/ Report(c) BY <2>2, <1>b DEF Shutdown, Report, Queue
  <2>3. CASE Lock(c) BY <2>3, <1>a, <1>b DEF Lock
  <2>4. CASE Poll(c) BY <2>4, <1>b DEF Poll
  <2>5. CASE Out(c)
    <3>1. k[c] + 1 \in 1 .. Chars
      BY <2>5, <1>a DEF Out
    <3>2. thr' \in Char
      BY <2>5, <3>1, <1>a DEF Out
    <3> QED BY <2>5, <3>1, <3>2, <1>a, <1>b DEF Out
  <2>6. CASE Unlock(c) BY <2>6, <1>b DEF Unlock
  <2>7. CASE Off(c) BY <2>7 DEF Off
  <2> QED BY <1>1, <2>1, <2>2, <2>3, <2>4, <2>5, <2>6, <2>7 DEF Step
<1>2. ASSUME NEW c \in Core, MayCall(c) PROVE CountersOK' /\ Counts'
  <2>1. CASE Printf(c) BY <2>1, <1>a, <1>b DEF Printf, Calls, Queue
  <2>2. CASE Check(c) BY <2>2, <1>a, <1>b DEF Check, Calls
  <2>3. CASE Missing(c) BY <2>3, <1>a, <1>b DEF Missing, Calls
  <2> QED BY <1>2, <2>1, <2>2, <2>3 DEF MayCall
<1>3. ASSUME NEW c \in Core, Return(c) PROVE CountersOK' /\ Counts'
  BY <1>3, <1>b DEF Return
<1>4. CASE Transmit BY <1>4 DEF Transmit
<1>5. CASE UNCHANGED vars BY <1>5 DEF vars
<1> QED BY <1>1, <1>2, <1>3, <1>4, <1>5 DEF Next, Halt, Ended

\* The set of the cores that print is finite.
LEMMA PrintingFinite ==
    ASSUME NEW S \in SUBSET Core
    PROVE  IsFiniteSet(S) /\ Cardinality(S) \in Nat
BY FS_Subset, FS_CardinalityType, ConsoleAssumption DEF ConsoleAssumption

\* Who prints after core c has moved on.
LEMMA Moved ==
    ASSUME CountersOK, NEW c \in Core, NEW from, NEW to, GoTo(c, from, to)
    PROVE  /\ to \in {"poll", "out", "unlock"} => Printing' = Printing \cup {c}
           /\ to \notin {"poll", "out", "unlock"} => Printing' = Printing \ {c}
           /\ from \in {"poll", "out", "unlock"} <=> c \in Printing
BY DEF CountersOK, GoTo, Printing

\* Every step other than those on the lock leaves the cores that print, the
\* word of the lock and the unlocks by force as they are.
LEMMA OthersAway ==
    ASSUME CountersOK, [Next]_vars,
           \A c \in Core : ~Panic(c) /\ ~Lock(c) /\ ~Unlock(c)
    PROVE  Printing' = Printing /\ lock' = lock /\ forced' = forced
<1> DEFINE Away == Printing' = Printing /\ lock' = lock /\ forced' = forced
<1>1. ASSUME NEW c \in Core, Step(c) PROVE Away
  <2>1. CASE Shutdown(c) \/ Report(c)
    <3>1. /\ GoTo(c, "stopping", "report") \/ GoTo(c, "stopping", "lock") \/ GoTo(c, "report", "lock")
          /\ lock' = lock /\ forced' = forced
      BY <2>1 DEF Shutdown, Report, seen
    <3> QED BY <3>1, Moved
  <2>2. CASE Poll(c)
    <3>1. GoTo(c, "poll", "out") /\ lock' = lock /\ forced' = forced
      BY <2>2 DEF Poll, seen
    <3> QED BY <3>1, Moved
  <2>3. CASE Out(c)
    <3>1. /\ GoTo(c, "out", "poll") \/ GoTo(c, "out", "unlock")
          /\ lock' = lock /\ forced' = forced
      BY <2>3 DEF Out, seen, GoTo
    <3> QED BY <3>1, Moved
  <2>4. CASE Off(c) BY <2>4 DEF Off, seen, Printing
  <2> QED BY <1>1, <2>1, <2>2, <2>3, <2>4 DEF Step
<1>2. ASSUME NEW c \in Core, MayCall(c) PROVE Away
  <2>1. PICK to \in {"lock", "kernelMain", "panic", "hlt"} : GoTo(c, "kernelMain", to)
    BY <1>2 DEF MayCall, Printf, Check, Missing, Calls
  <2>2. lock' = lock /\ forced' = forced
    BY <1>2 DEF MayCall, Printf, Check, Missing, seen
  <2> QED BY <2>1, <2>2, Moved
<1>3. ASSUME NEW c \in Core, Return(c) PROVE Away
  <2>1. GoTo(c, "kernelMain", "stopping") /\ lock' = lock /\ forced' = forced
    BY <1>3 DEF Return, seen
  <2> QED BY <2>1, Moved
<1>4. CASE Transmit BY <1>4 DEF Transmit, seen, Printing
<1>5. CASE UNCHANGED vars BY <1>5 DEF vars, seen, Printing
<1> QED BY <1>1, <1>2, <1>3, <1>4, <1>5 DEF Next, Halt, Ended

\* An unlock, by force or not, and a lock change the number of the cores that
\* print, together with the room for one more, by no more than they may.
LEMMA DamageStep ==
    ASSUME SwitchesOK, CountersOK, DamageBounded, [Next]_vars
    PROVE  DamageBounded'
<1> DEFINE n == Cardinality(Printing)
<1>0. /\ IsFiniteSet(Printing) /\ n \in Nat /\ forced \in Nat /\ lock \in BOOLEAN
      /\ Printing \subseteq Core
  BY PrintingFinite DEF Printing, CountersOK, SwitchesOK
<1>1. ASSUME NEW c \in Core, Panic(c) PROVE DamageBounded'
  <2>1. GoTo(c, "panic", "lock") /\ lock' = FALSE /\ forced' = forced + 1
    BY <1>1 DEF Panic
  <2>2. Printing' = Printing
    BY <2>1, Moved
  <2> QED BY <2>1, <2>2, <1>0 DEF DamageBounded
<1>2. ASSUME NEW c \in Core, Lock(c) PROVE DamageBounded'
  <2>1. GoTo(c, "lock", "poll") /\ ~lock /\ lock' = TRUE /\ forced' = forced
    BY <1>2 DEF Lock, seen
  <2>2. Printing' = Printing \cup {c} /\ c \notin Printing
    BY <2>1, Moved
  <2>3. Cardinality(Printing') = n + 1
    BY <2>2, <1>0, FS_AddElement
  <2> QED BY <2>1, <2>2, <2>3, <1>0 DEF DamageBounded
<1>3. ASSUME NEW c \in Core, Unlock(c) PROVE DamageBounded'
  <2>1. /\ GoTo(c, "unlock", "lock") \/ GoTo(c, "unlock", "off") \/ GoTo(c, "unlock", "kernelMain")
        /\ lock' = FALSE /\ forced' = forced
    BY <1>3 DEF Unlock, seen, GoTo
  <2>2. Printing' = Printing \ {c} /\ c \in Printing
    BY <2>1, Moved
  <2>3. Cardinality(Printing') = n - 1
    BY <2>2, <1>0, FS_RemoveElement
  <2>4. forced = 0 => n = 1
    BY <2>2, <1>0, FS_EmptySet DEF DamageBounded
  <2>5. forced = 0 => Printing' = {}
    BY <2>2, <2>3, <2>4, <1>0, FS_RemoveElement, FS_EmptySet
  <2> QED BY <2>1, <2>3, <2>5, <1>0 DEF DamageBounded
<1>4. CASE \A c \in Core : ~Panic(c) /\ ~Lock(c) /\ ~Unlock(c)
  BY <1>4, OthersAway DEF DamageBounded
<1> QED BY <1>1, <1>2, <1>3, <1>4

\* Until a panic, a core that prints is alone.
LEMMA Alone ==
    ASSUME SwitchesOK, CountersOK, DamageBounded, forced = 0,
           NEW c \in Printing, NEW d \in Printing
    PROVE  c = d
<1>1. IsFiniteSet(Printing) /\ Cardinality(Printing) \in Nat
  BY PrintingFinite DEF Printing
<1>2. Cardinality(Printing) <= 1
  BY <1>1 DEF DamageBounded, SwitchesOK
<1>3. /\ IsFiniteSet(Printing \ {c})
      /\ Cardinality(Printing \ {c}) = Cardinality(Printing) - 1
  BY <1>1, FS_RemoveElement
<1>4. Cardinality(Printing \ {c}) \in Nat
  BY <1>3, FS_CardinalityType
<1>5. Printing \ {c} = {}
  BY <1>1, <1>2, <1>3, <1>4, FS_EmptySet
<1> QED BY <1>5

\* The state of the port, and that the characters in it follow one another, in
\* the words of the two properties.
PortInv == PortTidy /\ LinesWhole

\* Every step keeps the port tidy until a panic, and what is written follows
\* what was sent.
LEMMA PortStep ==
    ASSUME SwitchesOK, CountersOK, Counts, DamageBounded, PortInv, [Next]_vars
    PROVE  PortInv'
<1> SUFFICES ASSUME forced' = 0 PROVE PortInv'
  BY DEF PortInv, PortTidy, LinesWhole
<1>a. /\ Chars \in Nat \ {0} /\ Empty \notin Char
      /\ \A c \in Core, n \in 1 .. Chars :
            [core |-> c, k |-> n] \in Char /\ [core |-> c, k |-> n] # Empty
  BY ConsoleAssumption DEF ConsoleAssumption, Char
<1>b. /\ thr \in Char \cup {Empty} /\ last \in Char \cup {Empty}
      /\ pc \in [Core -> Places] /\ k \in [Core -> 0 .. Chars] /\ forced \in Nat
  BY DEF CountersOK
<1>c. Printing \subseteq Core /\ Printing' \subseteq Core
  BY DEF Printing
<1>d. \A x : IsComplete(x)' <=> IsComplete(x)
  BY DEF IsComplete
<1> DEFINE Port == <<thr, last, k, forced>>
<1>1. ASSUME NEW c \in Core, Panic(c) PROVE FALSE
  BY <1>1, <1>b DEF Panic
<1>2. ASSUME NEW c \in Core, Lock(c) PROVE PortInv'
  <2>1. /\ GoTo(c, "lock", "poll") /\ ~lock
        /\ thr' = thr /\ last' = last /\ forced = 0 /\ k' = [k EXCEPT ![c] = 0]
    BY <1>2 DEF Lock, seen
  <2>2. Printing = {} /\ Printing' = {c}
    BY <2>1, Moved DEF DamageBounded
  <2>3. pc'[c] = "poll" /\ k'[c] = 0
    BY <2>1, <1>b DEF GoTo
  <2>4. IsComplete(Latest) /\ Latest' = Latest
    BY <2>1, <2>2 DEF PortInv, PortTidy, Latest
  <2>5. PortTidy'
    BY <2>2, <2>3, <2>4 DEF PortTidy, IsComplete
  <2>6. LinesWhole'
    BY <2>1 DEF PortInv, LinesWhole, Follows, IsComplete
  <2> QED BY <2>5, <2>6 DEF PortInv
<1>3. ASSUME NEW c \in Core, Unlock(c) PROVE PortInv'
  <2>1. /\ GoTo(c, "unlock", "lock") \/ GoTo(c, "unlock", "off") \/ GoTo(c, "unlock", "kernelMain")
        /\ thr' = thr /\ last' = last /\ forced = 0 /\ k' = k
    BY <1>3 DEF Unlock, seen, GoTo
  <2>2. c \in Printing /\ Printing' = Printing \ {c} /\ pc[c] = "unlock"
    BY <2>1, Moved DEF GoTo
  <2>3. Printing' = {}
    BY <2>1, <2>2, Alone
  <2>4. k[c] = Chars /\ Latest = [core |-> c, k |-> Chars]
    BY <2>1, <2>2, <1>a DEF Counts, PortInv, PortTidy
  <2>5. IsComplete(Latest) /\ Latest' = Latest
    BY <2>1, <2>4 DEF IsComplete, Latest
  <2>6. PortTidy'
    BY <2>3, <2>5 DEF PortTidy, IsComplete
  <2>7. LinesWhole'
    BY <2>1 DEF PortInv, LinesWhole, Follows, IsComplete
  <2> QED BY <2>6, <2>7 DEF PortInv
<1>4. ASSUME NEW c \in Core, Poll(c) PROVE PortInv'
  <2>1. /\ GoTo(c, "poll", "out") /\ thr = Empty
        /\ thr' = thr /\ last' = last /\ forced = 0 /\ k' = k
    BY <1>4 DEF Poll, print, seen
  <2>2. Printing' = Printing
    BY <2>1, Moved
  <2>3. PortTidy' /\ LinesWhole'
    BY <2>1, <2>2 DEF PortInv, PortTidy, LinesWhole, Latest, IsComplete
  <2> QED BY <2>3 DEF PortInv
<1>5. ASSUME NEW c \in Core, Out(c) PROVE PortInv'
  <2>1. /\ GoTo(c, "out", "poll") \/ GoTo(c, "out", "unlock")
        /\ thr' = [core |-> c, k |-> k[c] + 1] /\ last' = last /\ forced = 0
        /\ k' = [k EXCEPT ![c] = @ + 1]
    BY <1>5 DEF Out, seen, GoTo
  <2>2. c \in Printing /\ Printing' = Printing /\ pc[c] = "out"
    BY <2>1, Moved DEF GoTo
  <2>3. k[c] < Chars /\ k[c] \in 0 .. Chars /\ k[c] + 1 \in 1 .. Chars
    BY <2>2, <1>b, <1>a DEF Counts
  <2>4. thr = Empty /\ (IF k[c] = 0 THEN IsComplete(last) ELSE last = [core |-> c, k |-> k[c]])
    BY <2>1, <2>2 DEF PortInv, PortTidy, Latest
  <2>5. thr' # Empty /\ Latest' = [core |-> c, k |-> k'[c]] /\ k'[c] > 0
    BY <2>1, <2>3, <1>a, <1>b DEF Latest
  <2>6. \A d \in Printing' : d = c
    BY <2>1, <2>2, Alone
  <2>7. pc'[c] # "out"
    BY <2>1, <1>b DEF GoTo
  <2>8. PortTidy'
    BY <2>2, <2>5, <2>6, <2>7 DEF PortTidy
  <2>9. Follows(last, thr')
    <3>1. CASE k[c] = 0
      BY <3>1, <2>1, <2>4 DEF Follows
    <3>2. CASE k[c] # 0
      <4>1. last = [core |-> c, k |-> k[c]] /\ k[c] \in 1 .. Chars
        BY <3>2, <2>3, <2>4
      <4>2. ~IsComplete(last)
        BY <4>1, <2>3, <1>a DEF IsComplete
      <4> QED BY <4>1, <4>2, <2>1 DEF Follows
    <3> QED BY <3>1, <3>2
  <2>10. LinesWhole'
    BY <2>1, <2>9 DEF LinesWhole, Follows, IsComplete
  <2> QED BY <2>8, <2>10 DEF PortInv
<1>6. CASE Transmit
  <2>1. thr # Empty /\ last' = thr /\ thr' = Empty /\ k' = k /\ pc' = pc /\ forced = 0
    BY <1>6 DEF Transmit, print, seen
  <2>2. Printing' = Printing /\ Latest' = Latest
    BY <2>1 DEF Printing, Latest
  <2> QED BY <2>1, <2>2 DEF PortInv, PortTidy, LinesWhole, IsComplete
<1>7. ASSUME thr' = thr, last' = last, k' = k, forced = 0, Printing' = Printing,
             \A c \in Printing : pc'[c] = pc[c]
      PROVE  PortInv'
  <2>1. PortTidy' /\ LinesWhole'
    BY <1>7 DEF PortInv, PortTidy, LinesWhole, Latest, Follows, IsComplete
  <2> QED BY <2>1 DEF PortInv
<1>8. ASSUME NEW c \in Core, Shutdown(c) \/ Report(c) \/ MayCall(c) \/ Return(c) PROVE PortInv'
  <2>1. PICK from \in {"stopping", "report", "kernelMain"},
             to \in {"lock", "report", "kernelMain", "panic", "hlt", "stopping"} : GoTo(c, from, to)
    BY <1>8 DEF Shutdown, Report, MayCall, Return, Printf, Check, Missing, Calls
  <2>2. thr' = thr /\ last' = last /\ k' = k /\ forced = 0
    BY <1>8 DEF Shutdown, Report, MayCall, Return, Printf, Check, Missing, Queue, print, seen
  <2>3. Printing' = Printing /\ c \notin Printing
    BY <2>1, Moved
  <2>4. \A d \in Printing : pc'[d] = pc[d]
    BY <2>1, <2>3, <1>b, <1>c DEF GoTo
  <2> QED BY <2>2, <2>3, <2>4, <1>7
<1>9. ASSUME NEW c \in Core, Off(c) PROVE PortInv'
  BY <1>9, <1>7 DEF Off, print, seen, Printing
<1>10. CASE UNCHANGED vars
  BY <1>10, <1>7 DEF vars, print, seen, Printing
<1> QED BY <1>1, <1>2, <1>3, <1>4, <1>5, <1>6, <1>8, <1>9, <1>10 DEF Next, Step, Halt, Ended

\* The kernel starts with the lock free, the port empty and nobody printing.
LEMMA InitInv == Init => SwitchesOK /\ CountersOK /\ Counts /\ DamageBounded /\ PortInv
<1> SUFFICES ASSUME Init PROVE SwitchesOK /\ CountersOK /\ Counts /\ DamageBounded /\ PortInv
  OBVIOUS
<1>1. SwitchesOK
  BY DEF Init, SwitchesOK
<1>2. CountersOK
  BY ConsoleAssumption DEF ConsoleAssumption, Init, CountersOK, Places
<1>3. Printing = {} /\ Cardinality(Printing) = 0
  BY FS_EmptySet DEF Init, Printing
<1>4. Counts /\ DamageBounded /\ PortInv
  BY <1>3 DEF Init, Counts, DamageBounded, PortInv, PortTidy, LinesWhole, IsComplete, Latest
<1> QED BY <1>1, <1>2, <1>4

\* The inductive invariant of the output path, for any number of cores, of
\* calls and of characters: the types, where each core is, how many print, and
\* what the port holds.
THEOREM Invariance == SafeSpec => []Inv
<1> DEFINE All == SwitchesOK /\ CountersOK /\ Counts /\ DamageBounded /\ PortInv
<1>1. Init => All
  BY InitInv
<1>2. All /\ [Next]_vars => All'
  BY SwitchTypes, CounterTypes, DamageStep, PortStep
<1>3. All => Inv
  BY DEF SwitchesOK, CountersOK, Inv, TypeOK, PortInv
<1> QED BY <1>1, <1>2, <1>3, PTL DEF SafeSpec

\* The lines of different cores do not mix and lose no character until a panic
\* forces the lock.
THEOREM Lines == SafeSpec => []LinesWhole
<1> DEFINE All == SwitchesOK /\ CountersOK /\ Counts /\ DamageBounded /\ PortInv
<1>1. Init => All
  BY InitInv
<1>2. All /\ [Next]_vars => All'
  BY SwitchTypes, CounterTypes, DamageStep, PortStep
<1>3. All => LinesWhole
  BY DEF PortInv
<1> QED BY <1>1, <1>2, <1>3, PTL DEF SafeSpec

\* Whoever has found the flag of missing() down has raised it, so there is at most one.
MissingInv ==
    /\ missing_flag \in Nat /\ (missing_flag = 0 <=> absent = {})
    /\ \A c, d \in absent : c = d

\* Only the core that finds missing_flag at zero is one that reports, and it finds it so once.
LEMMA MissingStep == MissingInv /\ [Next]_vars => MissingInv'
<1> SUFFICES ASSUME MissingInv, [Next]_vars PROVE MissingInv'
  OBVIOUS
<1>1. ASSUME NEW c \in Core, Missing(c) PROVE MissingInv'
  <2>1. /\ missing_flag' = missing_flag + 1
        /\ absent' = IF missing_flag = 0 THEN absent \cup {c} ELSE absent
    BY <1>1 DEF Missing
  <2>2. missing_flag \in Nat /\ missing_flag' \in Nat /\ missing_flag' # 0
    BY <2>1 DEF MissingInv
  <2>3. CASE missing_flag = 0
    <3>1. absent = {} /\ absent' = {c}
      BY <2>1, <2>3 DEF MissingInv
    <3> QED BY <2>2, <3>1 DEF MissingInv
  <2>4. CASE missing_flag # 0
    <3>1. absent' = absent
      BY <2>1, <2>4
    <3> QED BY <2>2, <2>4, <3>1 DEF MissingInv
  <2> QED BY <2>3, <2>4
<1>2. ASSUME UNCHANGED <<missing_flag, absent>> PROVE MissingInv'
  BY <1>2 DEF MissingInv
<1>3. ASSUME NEW c \in Core, Step(c) PROVE UNCHANGED <<missing_flag, absent>>
  BY <1>3 DEF Step, Panic, Shutdown, Report, Lock, Poll, Out, Unlock, Off, seen
<1>4. ASSUME NEW c \in Core, Printf(c) \/ Check(c) \/ Return(c) \/ Halt(c)
      PROVE  UNCHANGED <<missing_flag, absent>>
  BY <1>4 DEF Printf, Check, Return, Halt, vars, seen
<1>5. CASE Transmit \/ Ended \/ UNCHANGED vars
  <2>1. UNCHANGED <<missing_flag, absent>>
    BY <1>5 DEF Transmit, Ended, vars, seen
  <2> QED BY <2>1, <1>2
<1> QED BY <1>1, <1>2, <1>3, <1>4, <1>5 DEF Next, MayCall

\* However many cores run into missing code at the same time, exactly one of them finds
\* the flag of missing() down and goes on to the panic.
THEOREM Reported == SafeSpec => []MissingOnce
<1>1. Init => MissingInv
  BY DEF Init, MissingInv
<1>2. MissingInv => MissingOnce
  <2> SUFFICES ASSUME MissingInv PROVE MissingOnce
    OBVIOUS
  <2>1. CASE absent = {}
    BY <2>1, FS_EmptySet DEF MissingInv, MissingOnce
  <2>2. CASE absent # {}
    <3>1. PICK c \in absent : absent = {c}
      BY <2>2 DEF MissingInv
    <3>2. Cardinality(absent) = 1
      BY <3>1, FS_Singleton
    <3> QED BY <2>2, <3>2 DEF MissingOnce
  <2> QED BY <2>1, <2>2
<1> QED BY <1>1, <1>2, MissingStep, PTL DEF SafeSpec

(***************************************************************************)
(* The checks.                                                             *)
(***************************************************************************)

\* Debug::checks has counted each check, and once its value is printed no core is where
\* it could make another: the others wait at the barrier, and the one that prints goes
\* off behind it.
ChecksInv ==
    /\ pc \in [Core -> Places] /\ calls \in [Core -> 0 .. MaxCalls] /\ exit \in [Core -> BOOLEAN]
    /\ IsFiniteSet(made) /\ checks = Cardinality(made)
    /\ \A c \in Core, n \in Int : <<c, n>> \in made => n < calls[c]
    /\ \A c \in Core : pc[c] = "report" => \A d \in Core \ {c} : pc[d] = "stopping"
    /\ reported # None =>
          /\ reported = checks
          /\ \A c \in Core : /\ pc[c] \in {"stopping", "report", "off"} \cup {"lock", "poll", "out", "unlock"}
                             /\ pc[c] \notin {"stopping", "off"} => exit[c]

\* A core that makes a check is in kernelMain(), and it is one that was not yet counted.
LEMMA CheckCounted == ASSUME ChecksInv, NEW c \in Core, Check(c) PROVE ChecksInv'
<1>1. /\ pc[c] = "kernelMain" /\ reported = None /\ UNCHANGED <<reported, exit>>
      /\ checks' = checks + 1 /\ made' = made \cup {<<c, calls[c]>>}
      /\ calls[c] < MaxCalls /\ calls' = [calls EXCEPT ![c] = @ + 1]
      /\ pc' \in [Core -> Places] /\ \A d \in Core : pc'[d] # "report"
  BY DEF Check, Calls, GoTo, ChecksInv, Places, print
<1>2. calls \in [Core -> Nat] /\ calls' \in [Core -> 0 .. MaxCalls] /\ calls'[c] = calls[c] + 1
  BY <1>1, ConsoleAssumption DEF ChecksInv
<1>3. <<c, calls[c]>> \notin made
  BY <1>2 DEF ChecksInv
<1>4. IsFiniteSet(made') /\ checks' = Cardinality(made')
  BY <1>1, <1>3, FS_AddElement DEF ChecksInv
<1>5. ASSUME NEW d \in Core, NEW n \in Int, <<d, n>> \in made' PROVE n < calls'[d]
  <2>1. CASE <<d, n>> = <<c, calls[c]>>
    BY <2>1, <1>2
  <2>2. CASE <<d, n>> \in made
    <3>1. n < calls[d]
      BY <2>2 DEF ChecksInv
    <3>2. calls[d] \in Nat /\ (calls'[d] = calls[d] \/ calls'[d] = calls[d] + 1)
      BY <1>1, <1>2
    <3> QED
      BY <3>1, <3>2
  <2> QED
    BY <1>1, <1>5, <2>1, <2>2
<1> QED
  BY <1>1, <1>2, <1>4, <1>5 DEF ChecksInv

\* No other call is a check.
LEMMA NotACheck ==
    ASSUME ChecksInv, NEW c \in Core, Printf(c) \/ Missing(c) PROVE ChecksInv'
<1>1. /\ pc[c] = "kernelMain" /\ reported = None /\ UNCHANGED <<reported, checks, made>>
      /\ calls[c] < MaxCalls /\ calls' = [calls EXCEPT ![c] = @ + 1]
      /\ pc' \in [Core -> Places] /\ exit' \in [Core -> BOOLEAN]
      /\ \A d \in Core \ {c} : pc'[d] = pc[d]
      /\ pc'[c] # "report"
  BY DEF Printf, Missing, Calls, Queue, GoTo, ChecksInv, Places, print, seen
<1>4. \A d \in Core : pc'[d] # "report"
  BY <1>1 DEF ChecksInv
<1>2. calls \in [Core -> Nat] /\ calls' \in [Core -> 0 .. MaxCalls] /\ calls'[c] = calls[c] + 1
  BY <1>1, ConsoleAssumption DEF ChecksInv
<1>3. ASSUME NEW d \in Core, NEW n \in Int, <<d, n>> \in made' PROVE n < calls'[d]
  <2>1. n < calls[d]
    BY <1>1, <1>3 DEF ChecksInv
  <2>2. calls[d] \in Nat /\ (calls'[d] = calls[d] \/ calls'[d] = calls[d] + 1)
    BY <1>1, <1>2
  <2> QED
    BY <2>1, <2>2
<1> QED
  BY <1>1, <1>2, <1>3, <1>4 DEF ChecksInv

\* Printing and ending make no check either.
LEMMA ChecksStep == ChecksInv /\ [Next]_vars => ChecksInv'
<1> SUFFICES ASSUME ChecksInv, [Next]_vars PROVE ChecksInv'
  OBVIOUS
<1>1. ASSUME NEW c \in Core, Panic(c) PROVE ChecksInv'
  BY <1>1 DEF Panic, Queue, GoTo, ChecksInv, Places
<1>2. ASSUME NEW c \in Core, Shutdown(c) PROVE ChecksInv'
  <2>1. /\ \A d \in Core : pc[d] = "stopping"
        /\ \/ pc' = [pc EXCEPT ![c] = "lock"]
           \/ pc' = [pc EXCEPT ![c] = "report"]
        /\ exit' = [exit EXCEPT ![c] = TRUE]
        /\ UNCHANGED <<checks, made, calls, reported>>
    BY <1>2 DEF Shutdown, Queue, GoTo, seen
  <2> QED
    BY <2>1 DEF ChecksInv, Places
<1>6. ASSUME NEW c \in Core, Report(c) PROVE ChecksInv'
  <2>1. /\ pc[c] = "report" /\ pc' = [pc EXCEPT ![c] = "lock"]
        /\ exit' = [exit EXCEPT ![c] = TRUE] /\ reported' = checks
        /\ UNCHANGED <<checks, made, calls>>
    BY <1>6 DEF Report, Queue, GoTo
  <2>2. \A d \in Core \ {c} : pc[d] = "stopping"
    BY <2>1 DEF ChecksInv
  <2>3. pc' \in [Core -> Places] /\ exit' \in [Core -> BOOLEAN]
    BY <2>1 DEF ChecksInv, Places
  <2>4. \A d \in Core : pc'[d] = "stopping" \/ (pc'[d] = "lock" /\ exit'[d])
    BY <2>1, <2>2 DEF ChecksInv
  <2> QED
    BY <2>1, <2>3, <2>4 DEF ChecksInv
<1>3. ASSUME NEW c \in Core, Lock(c) \/ Poll(c) \/ Out(c) \/ Unlock(c) PROVE ChecksInv'
  BY <1>3 DEF Lock, Poll, Out, Unlock, GoTo, ChecksInv, Places, print, seen
<1>4. ASSUME NEW c \in Core, Off(c) \/ Return(c) \/ Halt(c) PROVE ChecksInv'
  BY <1>4 DEF Off, Return, Halt, GoTo, ChecksInv, Places, print, seen, vars
<1>5. CASE Transmit \/ Ended \/ UNCHANGED vars
  BY <1>5 DEF Transmit, Ended, ChecksInv, print, seen, vars
<1> QED
  BY <1>1, <1>2, <1>3, <1>4, <1>5, <1>6, CheckCounted, NotACheck DEF Next, Step, MayCall

\* The number that shutdown() prints is that of all checks that all cores have made.
THEOREM Counted == SafeSpec => []ChecksReported
<1>1. Init => ChecksInv
  BY FS_EmptySet, ConsoleAssumption DEF Init, ChecksInv, Places
<1>2. ChecksInv => ChecksReported
  BY DEF ChecksInv, ChecksReported
<1> QED
  BY <1>1, <1>2, ChecksStep, PTL DEF SafeSpec
=============================================================================
