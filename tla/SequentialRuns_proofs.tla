------------------------ MODULE SequentialRuns_proofs ------------------------
(***************************************************************************)
(* Runs without parallel branches are in one place, give a robot one       *)
(* command at a time and make no more attempts than their nodes have, for  *)
(* every value of the constants.                                           *)
(*                                                                         *)
(* The executor has no lock per run and re-reads nothing: what keeps two   *)
(* handlers of such a run apart is that each one is brought in by the one  *)
(* before.  Alone(r) says so: the calls that carry run r on, its timer     *)
(* tasks, its commands at a robot and its PAUSED confirmations are one in  *)
(* all, and a command of r is open only while it is the command's turn.    *)
(* It is inductive as it stands, given the types of the rows and copies    *)
(* (Typing) and what frames may hold (HandlersStaySuited).  A step of      *)
(* another run changes nothing of r but to add a frame on top of a stack,  *)
(* which is why places in a stack are counted from its bottom; a step of r *)
(* either makes the call at the place where r is and leaves at most one    *)
(* place behind (Goes), or makes one that carries nothing on (Fades).      *)
(*                                                                         *)
(* Counts(r) says what that gives command_attempt: the copy of the handler *)
(* that carries r on agrees with the rows about the attempts of each node, *)
(* and an attempt that is going to be dispatched has no command.  It is    *)
(* inductive given Alone(r): a step that counts is taken where r is, so    *)
(* nobody is left with an older count (TurnCounts), and all other steps    *)
(* leave attempts and commands as they are (Steady).                       *)
(***************************************************************************)
EXTENDS FiniteSets, BagsExt, FiniteSetTheorems, WorkflowExecutor_proofs

-----------------------------------------------------------------------------
\* What it is to be a token of each kind.
LEMMA TokenParts ==
  /\ \A stacks, r, p : p \in CallTokens(stacks, r) <=>
       \E t \in Thread : \E h, g, call :
         p = <<"call", t, h, g, call>> /\ StackToken(stacks[t], r, h, g, call)
  /\ \A tasks, r, p : p \in TaskTokens(tasks, r) <=>
       \E task \in DOMAIN tasks : p = <<"task", task>> /\ task.run = r
  /\ \A cmds, r, p : p \in LiveTokens(cmds, r) <=>
       \E i \in DOMAIN cmds : p = <<"cmd", i>> /\ cmds[i].run = r /\ cmds[i].live
  /\ \A rows, r, p : p \in RowTokens(rows, r) <=>
       \E c \in DOMAIN rows, k \in Key(r) :
         p = <<"row", c, k>> /\ rows[c][k].state = "PAUSED"
<1>1. ASSUME NEW stacks, NEW r, NEW p
      PROVE  p \in CallTokens(stacks, r) <=>
               \E t \in Thread : \E h, g, call :
                 p = <<"call", t, h, g, call>> /\ StackToken(stacks[t], r, h, g, call)
  <2>1. ASSUME NEW t \in Thread, NEW h, NEW g, NEW call,
               p = <<"call", t, h, g, call>>, StackToken(stacks[t], r, h, g, call)
        PROVE  p \in CallTokens(stacks, r)
    <3>1. /\ h \in 1..Len(stacks[t]) /\ g \in 1..Len(Nth(stacks[t], h).todo)
          /\ call = CallAt(stacks[t], h, g)
      BY <2>1 DEF StackToken, FrameToken, ListToken, CallAt
    <3>2. <<h, g>> \in PlacesOf(stacks[t])
      BY <3>1 DEF PlacesOf
    <3>3. p \in {<<"call", t, q[1], q[2], CallAt(stacks[t], q[1], q[2])>> :
                   q \in {q \in PlacesOf(stacks[t]) :
                            StackToken(stacks[t], r, q[1], q[2], CallAt(stacks[t], q[1], q[2]))}}
      BY <2>1, <3>1, <3>2
    <3> QED
      BY <3>3 DEF CallTokens
  <2>2. ASSUME p \in CallTokens(stacks, r)
        PROVE  \E t \in Thread : \E h, g, call :
                 p = <<"call", t, h, g, call>> /\ StackToken(stacks[t], r, h, g, call)
    <3>1. PICK t \in Thread : \E q \in PlacesOf(stacks[t]) :
            /\ p = <<"call", t, q[1], q[2], CallAt(stacks[t], q[1], q[2])>>
            /\ StackToken(stacks[t], r, q[1], q[2], CallAt(stacks[t], q[1], q[2]))
      BY <2>2 DEF CallTokens
    <3> QED
      BY <3>1
  <2> QED
    BY <2>1, <2>2
<1>2. \A tasks, r, p : p \in TaskTokens(tasks, r) <=>
        \E task \in DOMAIN tasks : p = <<"task", task>> /\ task.run = r
  BY DEF TaskTokens
<1>3. \A cmds, r, p : p \in LiveTokens(cmds, r) <=>
        \E i \in DOMAIN cmds : p = <<"cmd", i>> /\ cmds[i].run = r /\ cmds[i].live
  BY DEF LiveTokens
<1>4. ASSUME NEW rows, NEW r, NEW p
      PROVE  p \in RowTokens(rows, r) <=>
               \E c \in DOMAIN rows, k \in Key(r) :
                 p = <<"row", c, k>> /\ rows[c][k].state = "PAUSED"
  <2>1. ASSUME NEW c \in DOMAIN rows, NEW k \in Key(r),
               p = <<"row", c, k>>, rows[c][k].state = "PAUSED"
        PROVE  p \in RowTokens(rows, r)
    <3>1. <<c, k>> \in {m \in (DOMAIN rows) \X Key(r) : rows[m[1]][m[2]].state = "PAUSED"}
      BY <2>1
    <3> QED
      BY <2>1, <3>1 DEF RowTokens
  <2>2. ASSUME p \in RowTokens(rows, r)
        PROVE  \E c \in DOMAIN rows, k \in Key(r) :
                 p = <<"row", c, k>> /\ rows[c][k].state = "PAUSED"
    <3>1. PICK n \in (DOMAIN rows) \X Key(r) :
            p = <<"row", n[1], n[2]>> /\ rows[n[1]][n[2]].state = "PAUSED"
      BY <2>2 DEF RowTokens
    <3>2. n[1] \in DOMAIN rows /\ n[2] \in Key(r)
      OBVIOUS
    <3> QED
      BY <3>1, <3>2
  <2> QED
    BY <2>1, <2>2
<1> QED
  BY <1>1, <1>2, <1>3, <1>4

\* A list of calls in front of another keeps the places of the other.
LEMMA ListTogether ==
  ASSUME NEW S, NEW T, NEW u \in Seq(S), NEW v \in Seq(T), NEW g, NEW call
  PROVE  ListToken(u \o v, g, call) <=>
           ListToken(v, g, call) \/ (g \in Nat /\ g > Len(v) /\ ListToken(u, g - Len(v), call))
<1>1. /\ Len(u) \in Nat /\ Len(v) \in Nat /\ Len(u \o v) = Len(u) + Len(v)
      /\ \A i \in 1..Len(u) : (u \o v)[i] = u[i]
      /\ \A i \in 1..Len(v) : (u \o v)[Len(u) + i] = v[i]
  OBVIOUS
<1>2. ASSUME NEW n \in 1..Len(v) PROVE Nth(u \o v, n) = Nth(v, n)
  BY <1>1 DEF Nth
<1>3. ASSUME NEW n \in 1..Len(u) PROVE Nth(u \o v, n + Len(v)) = Nth(u, n)
  BY <1>1 DEF Nth
<1>4. CASE g \in 1..Len(v)
  BY <1>1, <1>2, <1>4 DEF ListToken
<1>5. CASE g \in (Len(v) + 1)..(Len(u) + Len(v))
  <2>1. g - Len(v) \in 1..Len(u) /\ (g - Len(v)) + Len(v) = g /\ g \notin 1..Len(v)
        /\ g \in 1..Len(u \o v) /\ g \in Nat /\ g > Len(v)
    BY <1>1, <1>5
  <2>2. Nth(u \o v, g) = Nth(u, g - Len(v))
    BY <1>3, <2>1
  <2> QED
    BY <2>1, <2>2 DEF ListToken
<1>6. CASE g \notin 1..(Len(u) + Len(v))
  <2>1. g \notin 1..Len(v) /\ ~(g \in Nat /\ g > Len(v) /\ g - Len(v) \in 1..Len(u))
    BY <1>1, <1>6
  <2> QED
    BY <1>1, <1>6, <2>1 DEF ListToken
<1> QED
  BY <1>1, <1>4, <1>5, <1>6

\* A frame on top of a stack keeps the places below it.
LEMMA TopTogether ==
  ASSUME NEW S, NEW s \in Seq(S), NEW f, NEW r, NEW h, NEW g, NEW call
  PROVE  StackToken(<<f>> \o s, r, h, g, call) <=>
           StackToken(s, r, h, g, call) \/ (h = Len(s) + 1 /\ FrameToken(f, r, g, call))
<1>1. /\ Len(s) \in Nat /\ Len(<<f>> \o s) = Len(s) + 1 /\ (<<f>> \o s)[1] = f
      /\ \A i \in 1..Len(s) : (<<f>> \o s)[i + 1] = s[i]
  OBVIOUS
<1>2. ASSUME NEW n \in 1..Len(s) PROVE Nth(<<f>> \o s, n) = Nth(s, n)
  <2>1. Len(s) + 1 - n \in 1..Len(s) /\ (Len(s) + 1) + 1 - n = (Len(s) + 1 - n) + 1
    BY <1>1
  <2> QED
    BY <1>1, <2>1 DEF Nth
<1>3. Nth(<<f>> \o s, Len(s) + 1) = f
  <2>1. (Len(s) + 1) + 1 - (Len(s) + 1) = 1
    BY <1>1
  <2> QED
    BY <1>1, <2>1 DEF Nth
<1>4. CASE h \in 1..Len(s)
  BY <1>1, <1>2, <1>4 DEF StackToken
<1>5. CASE h = Len(s) + 1
  BY <1>1, <1>3, <1>5 DEF StackToken
<1>6. CASE h \notin 1..(Len(s) + 1)
  BY <1>1, <1>6 DEF StackToken
<1> QED
  BY <1>1, <1>4, <1>5, <1>6

\* So does one that is put there only if it has something to do.
LEMMA PushTogether ==
  ASSUME NEW S, NEW s \in Seq(S), NEW f, NEW r, NEW h, NEW g, NEW call
  PROVE  StackToken(Push(f, s), r, h, g, call) <=>
           StackToken(s, r, h, g, call) \/ (h = Len(s) + 1 /\ FrameToken(f, r, g, call))
<1>1. CASE f.todo = <<>>
  <2>1. ~FrameToken(f, r, g, call)
    BY <1>1 DEF FrameToken, ListToken
  <2> QED
    BY <1>1, <2>1 DEF Push
<1>2. CASE f.todo # <<>>
  BY <1>2, TopTogether DEF Push
<1> QED
  BY <1>1, <1>2

-----------------------------------------------------------------------------
\* At most one of the calls carries the run on; none does.
OneToken(calls) ==
  /\ calls \in Seq(FramesOf(calls))
  /\ \A m, n \in DOMAIN calls :
       calls[m].op \in TokenOps /\ calls[n].op \in TokenOps => m = n
Quiet(calls) ==
  calls \in Seq(FramesOf(calls)) /\ \A call \in FramesOf(calls) : call.op \notin TokenOps

\* In such a list there is one place of a token.
LEMMA SolePlace ==
  ASSUME NEW calls, OneToken(calls), NEW g, NEW a, NEW h, NEW b,
         ListToken(calls, g, a), ListToken(calls, h, b)
  PROVE  g = h /\ a = b /\ a \in FramesOf(calls)
<1>1. DOMAIN calls = 1..Len(calls) /\ Len(calls) \in Nat
  BY LenProperties DEF OneToken
<1>2. /\ Len(calls) + 1 - g \in DOMAIN calls /\ Len(calls) + 1 - h \in DOMAIN calls
      /\ g \in Nat /\ h \in Nat
  BY <1>1 DEF ListToken
<1>3. /\ a = calls[Len(calls) + 1 - g] /\ b = calls[Len(calls) + 1 - h]
      /\ a.op \in TokenOps /\ b.op \in TokenOps
  BY DEF ListToken, Nth
<1>4. Len(calls) + 1 - g = Len(calls) + 1 - h
  BY <1>2, <1>3 DEF OneToken
<1>5. g = h
  BY <1>1, <1>2, <1>4
<1> QED
  BY <1>2, <1>3, <1>5 DEF FramesOf

\* And in a quiet one there is none.
LEMMA NoPlace ==
  ASSUME NEW calls, Quiet(calls), NEW g, NEW a
  PROVE  ~ListToken(calls, g, a)
<1>1. DOMAIN calls = 1..Len(calls) /\ Len(calls) \in Nat
  BY LenProperties DEF Quiet
<1>2. SUFFICES ASSUME ListToken(calls, g, a) PROVE FALSE
  OBVIOUS
<1>3. Len(calls) + 1 - g \in DOMAIN calls /\ a = calls[Len(calls) + 1 - g]
  BY <1>1, <1>2 DEF ListToken, Nth
<1> QED
  BY <1>2, <1>3 DEF Quiet, FramesOf, ListToken

\* Lists of one call, and lists with a quiet part.
LEMMA OneTogether ==
  /\ Quiet(<<>>) /\ OneToken(<<>>)
  /\ \A a : OneToken(<<a>>) /\ (a.op \notin TokenOps => Quiet(<<a>>))
  /\ \A u, v : OneToken(u) /\ Quiet(v) => OneToken(u \o v) /\ OneToken(v \o u)
  /\ \A u, v : Quiet(u) /\ Quiet(v) => Quiet(u \o v)
  /\ \A u : Quiet(u) => OneToken(u)
<1>1. Quiet(<<>>) /\ OneToken(<<>>)
  <2>1. <<>> \in Seq(FramesOf(<<>>)) /\ FramesOf(<<>>) = {}
    BY TupleElements
  <2>2. DOMAIN <<>> = {}
    OBVIOUS
  <2> QED
    BY <2>1, <2>2 DEF Quiet, OneToken
<1>2. ASSUME NEW a PROVE OneToken(<<a>>) /\ (a.op \notin TokenOps => Quiet(<<a>>))
  <2>1. <<a>> \in Seq(FramesOf(<<a>>)) /\ FramesOf(<<a>>) = {a}
    BY TupleElements
  <2>2. DOMAIN <<a>> = {1}
    OBVIOUS
  <2> QED
    BY <2>1, <2>2 DEF Quiet, OneToken
<1>3. ASSUME NEW u, NEW v, OneToken(u), Quiet(v)
      PROVE  OneToken(u \o v) /\ OneToken(v \o u)
  <2>1. /\ u \in Seq(FramesOf(u)) /\ v \in Seq(FramesOf(v))
        /\ DOMAIN u = 1..Len(u) /\ Len(u) \in Nat /\ DOMAIN v = 1..Len(v) /\ Len(v) \in Nat
    BY <1>3, LenProperties DEF OneToken, Quiet
  <2>2. /\ \A i \in DOMAIN v : v[i].op \notin TokenOps
        /\ \A m, n \in DOMAIN u : u[m].op \in TokenOps /\ u[n].op \in TokenOps => m = n
    BY <1>3 DEF OneToken, Quiet, FramesOf
  <2>3. u \o v \in Seq(FramesOf(u \o v)) /\ v \o u \in Seq(FramesOf(v \o u))
    BY <2>1, ConcatElements
  <2>4. /\ DOMAIN (u \o v) = 1..(Len(u) + Len(v)) /\ DOMAIN (v \o u) = 1..(Len(u) + Len(v))
        /\ \A i \in 1..(Len(u) + Len(v)) :
             /\ (u \o v)[i] = IF i <= Len(u) THEN u[i] ELSE v[i - Len(u)]
             /\ (v \o u)[i] = IF i <= Len(v) THEN v[i] ELSE u[i - Len(v)]
    BY <2>1
  <2>5. ASSUME NEW m \in DOMAIN (u \o v), NEW n \in DOMAIN (u \o v),
               (u \o v)[m].op \in TokenOps, (u \o v)[n].op \in TokenOps
        PROVE  m = n
    <3>1. ASSUME NEW i \in DOMAIN (u \o v), (u \o v)[i].op \in TokenOps
          PROVE  i \in DOMAIN u /\ u[i].op \in TokenOps
      <4>1. i <= Len(u) \/ i - Len(u) \in DOMAIN v
        BY <2>1, <2>4, <3>1
      <4>2. CASE i <= Len(u)
        BY <2>1, <2>4, <3>1, <4>2
      <4>3. CASE ~(i <= Len(u))
        BY <2>1, <2>2, <2>4, <3>1, <4>1, <4>3
      <4> QED
        BY <4>2, <4>3
    <3> QED
      BY <2>2, <2>5, <3>1
  <2>6. ASSUME NEW m \in DOMAIN (v \o u), NEW n \in DOMAIN (v \o u),
               (v \o u)[m].op \in TokenOps, (v \o u)[n].op \in TokenOps
        PROVE  m = n
    <3>1. ASSUME NEW i \in DOMAIN (v \o u), (v \o u)[i].op \in TokenOps
          PROVE  i \in Int /\ i - Len(v) \in DOMAIN u /\ u[i - Len(v)].op \in TokenOps
      <4>1. i <= Len(v) => i \in DOMAIN v
        BY <2>1, <2>4, <3>1
      <4>2. CASE i <= Len(v)
        BY <2>1, <2>2, <2>4, <3>1, <4>1, <4>2
      <4>3. CASE ~(i <= Len(v))
        BY <2>1, <2>4, <3>1, <4>3
      <4> QED
        BY <4>2, <4>3
    <3>2. m - Len(v) = n - Len(v) /\ m \in Int /\ n \in Int
      BY <2>2, <2>6, <3>1
    <3> QED
      BY <2>1, <3>2
  <2> QED
    BY <2>3, <2>5, <2>6 DEF OneToken
<1>4. ASSUME NEW u, NEW v, Quiet(u), Quiet(v) PROVE Quiet(u \o v)
  BY <1>4, ConcatElements DEF Quiet
<1>5. ASSUME NEW u, Quiet(u) PROVE OneToken(u)
  BY <1>5 DEF Quiet, OneToken, FramesOf
<1> QED
  BY <1>1, <1>2, <1>3, <1>4, <1>5

-----------------------------------------------------------------------------
\* The place of the call a thread is about to make.
Here(t) == <<"call", t, Len(stack[t]), Len(Top(t).todo), Call(t)>>

\* The places of a stack are those below its top, those of the calls the top has
\* after this one, and this one.
LEMMA TopPlaces ==
  ASSUME TypeOK, NEW t \in Thread, ~Idle(t)
  PROVE  /\ Tail(stack[t]) \in Seq(Frames(Owner, Attempts))
         /\ Len(Tail(stack[t])) \in Nat /\ Len(stack[t]) = Len(Tail(stack[t])) + 1
         /\ Tail(Top(t).todo) \in Seq(FramesOf(Tail(Top(t).todo)))
         /\ Len(Tail(Top(t).todo)) \in Nat /\ Len(Top(t).todo) = Len(Tail(Top(t).todo)) + 1
         /\ \A r, h, g, call : StackToken(stack[t], r, h, g, call) <=>
              \/ StackToken(Tail(stack[t]), r, h, g, call)
              \/ /\ h = Len(stack[t]) /\ r = RunOf(t)
                 /\ \/ ListToken(Tail(Top(t).todo), g, call)
                    \/ g = Len(Top(t).todo) /\ call = Call(t) /\ call.op \in TokenOps
<1> DEFINE S == Frames(Owner, Attempts)
           s == Tail(stack[t])
           v == Tail(Top(t).todo)
<1>1. stack[t] \in Seq(S) /\ stack[t] # <<>>
  BY StackFrames DEF TypeOK, StacksOK, Idle
<1>2. s \in Seq(S) /\ Len(s) \in Nat /\ Len(stack[t]) = Len(s) + 1 /\ stack[t] = <<Top(t)>> \o s
  BY <1>1 DEF Top
<1>3. Top(t) \in S
  BY <1>1, HeadTailProperties DEF Top
<1>4. PICK C : Top(t).todo \in Seq(C) /\ Top(t).todo # <<>>
  BY <1>3, FrameParts
<1>5. /\ v \in Seq(C) /\ Len(v) \in Nat /\ Len(Top(t).todo) = Len(v) + 1
      /\ Top(t).todo = <<Call(t)>> \o v
  BY <1>4 DEF Call
<1>6. v \in Seq(FramesOf(v))
  BY <1>5, ElementsOf
<1>7. \A r, h, g, call : StackToken(stack[t], r, h, g, call) <=>
        StackToken(s, r, h, g, call) \/ (h = Len(s) + 1 /\ FrameToken(Top(t), r, g, call))
  BY <1>2, TopTogether
<1>8. ASSUME NEW g, NEW call
      PROVE  ListToken(Top(t).todo, g, call) <=>
               \/ ListToken(v, g, call)
               \/ g = Len(Top(t).todo) /\ call = Call(t) /\ call.op \in TokenOps
  <2>1. <<Call(t)>> \in Seq({Call(t)}) /\ Len(<<Call(t)>>) = 1 /\ <<Call(t)>>[1] = Call(t)
    OBVIOUS
  <2>2. ListToken(<<Call(t)>> \o v, g, call) <=>
          \/ ListToken(v, g, call)
          \/ g \in Nat /\ g > Len(v) /\ ListToken(<<Call(t)>>, g - Len(v), call)
    BY <1>5, <2>1, ListTogether
  <2>3. ASSUME g \in Nat
        PROVE  ListToken(<<Call(t)>>, g - Len(v), call) <=>
                 g = Len(v) + 1 /\ call = Call(t) /\ call.op \in TokenOps
    <3>1. CASE g = Len(v) + 1
      BY <1>5, <2>1, <3>1 DEF ListToken, Nth
    <3>2. CASE g # Len(v) + 1
      <4>1. g - Len(v) \notin 1..1
        BY <1>5, <2>3, <3>2
      <4> QED
        BY <2>1, <3>2, <4>1 DEF ListToken
    <3> QED
      BY <3>1, <3>2
  <2>4. g = Len(v) + 1 => g \in Nat /\ g > Len(v)
    BY <1>5
  <2> QED
    BY <1>5, <2>2, <2>3, <2>4
<1> HIDE DEF S, s, v
<1>9. \A r, g, call : FrameToken(Top(t), r, g, call) <=>
        r = RunOf(t) /\ ListToken(Top(t).todo, g, call)
  BY DEF FrameToken, RunOf
<1>10. \A r, h, g, call : StackToken(stack[t], r, h, g, call) <=>
         \/ StackToken(s, r, h, g, call)
         \/ /\ h = Len(stack[t]) /\ r = RunOf(t)
            /\ \/ ListToken(v, g, call)
               \/ g = Len(Top(t).todo) /\ call = Call(t) /\ call.op \in TokenOps
  BY <1>2, <1>7, <1>8, <1>9
<1> QED
  BY <1>2, <1>5, <1>6, <1>10 DEF s, v, S

\* A call that carries the run on is where the run is.
LEMMA HereToken ==
  ASSUME TypeOK, NEW t \in Thread, ~Idle(t), Call(t).op \in TokenOps
  PROVE  Here(t) \in CallTokens(stack, RunOf(t)) /\ Here(t) \in Tokens(RunOf(t))
<1>1. StackToken(stack[t], RunOf(t), Len(stack[t]), Len(Top(t).todo), Call(t))
  BY TopPlaces
<1>2. Here(t) \in CallTokens(stack, RunOf(t))
  BY <1>1, TokenParts DEF Here
<1> QED
  BY <1>2 DEF Tokens

\* The thread's stack becomes s: place x is left, and those of N are new.
Moved(t, s, r, x, N) ==
  \A h, g, call : StackToken(s, r, h, g, call) =>
    \/ <<"call", t, h, g, call>> \in N
    \/ StackToken(stack[t], r, h, g, call) /\ <<"call", t, h, g, call>> # x

\* When a thread's stack is replaced, the others' places stay.
LEMMA StackMoved ==
  ASSUME TypeOK, NEW t \in Thread, NEW s, stack' = [stack EXCEPT ![t] = s],
         NEW r, NEW x, NEW N, x[2] = t, Moved(t, s, r, x, N)
  PROVE  CallTokens(stack', r) \subseteq (CallTokens(stack, r) \ {x}) \cup N
<1> SUFFICES ASSUME NEW p \in CallTokens(stack', r), p \notin N
             PROVE  p \in CallTokens(stack, r) /\ p # x
  OBVIOUS
<1>1. PICK u \in Thread : \E h, g, call :
        p = <<"call", u, h, g, call>> /\ StackToken(stack'[u], r, h, g, call)
  <2>1. \A stacks : p \in CallTokens(stacks, r) <=>
          \E u \in Thread : \E h, g, call :
            p = <<"call", u, h, g, call>> /\ StackToken(stacks[u], r, h, g, call)
    BY TokenParts
  <2> QED
    BY <2>1
<1>2. PICK h, g, call : p = <<"call", u, h, g, call>> /\ StackToken(stack'[u], r, h, g, call)
  BY <1>1
<1>3. DOMAIN stack = Thread
  BY DEF TypeOK, StacksOK
<1>4. StackToken(stack[u], r, h, g, call) /\ p # x
  <2>1. CASE u = t
    <3>1. stack'[u] = s
      BY <1>3, <2>1
    <3> QED
      BY <1>2, <2>1, <3>1 DEF Moved
  <2>2. CASE u # t
    <3>1. stack'[u] = stack[u] /\ p[2] = u
      BY <1>2, <1>3, <2>2
    <3> QED
      BY <1>2, <2>2, <3>1
  <2> QED
    BY <2>1, <2>2
<1> QED
  BY <1>2, <1>4, TokenParts

\* What a handler that returns leaves: its own place is gone, and the run is at
\* the one place there is among the calls it names.
LEMMA ReturnTokens ==
  ASSUME TypeOK, NEW t \in Thread, ~Idle(t), NEW snap, NEW calls, Return(t, snap, calls),
         NEW r, r = RunOf(t) => OneToken(calls)
  PROVE  \E N : /\ Sole(N)
                /\ \A p \in N : /\ r = RunOf(t) /\ p[1] = "call" /\ ~Quiet(calls)
                                /\ p[5] \in FramesOf(calls) /\ p[5].op \in TokenOps
                /\ CallTokens(stack', r) \subseteq (CallTokens(stack, r) \ {Here(t)}) \cup N
<1> DEFINE s == Tail(stack[t])
           v == Tail(Top(t).todo)
           f == Frame(RunOf(t), snap, calls \o v)
           N == {p \in CallTokens(stack', r) :
                   /\ r = RunOf(t) /\ p[2] = t /\ p[3] = Len(stack[t])
                   /\ ListToken(calls, p[4] - Len(v), p[5])
                   /\ p[4] \in Nat}
<1>1. /\ s \in Seq(Frames(Owner, Attempts)) /\ Len(stack[t]) = Len(s) + 1 /\ Len(s) \in Nat
      /\ v \in Seq(FramesOf(v)) /\ Len(v) \in Nat /\ Len(Top(t).todo) = Len(v) + 1
      /\ \A h, g, call : StackToken(stack[t], r, h, g, call) <=>
           \/ StackToken(s, r, h, g, call)
           \/ /\ h = Len(stack[t]) /\ r = RunOf(t)
              /\ \/ ListToken(v, g, call)
                 \/ g = Len(Top(t).todo) /\ call = Call(t) /\ call.op \in TokenOps
  BY TopPlaces
<1>2. stack' = [stack EXCEPT ![t] = Push(f, s)] /\ f.run = RunOf(t) /\ f.todo = calls \o v
  BY DEF Return, SetStack, Frame
<1>p. stack'[t] = Push(f, s)
  BY <1>2 DEF TypeOK, StacksOK
<1> HIDE DEF s, v, f
<1>3. \A h, g, call : StackToken(Push(f, s), r, h, g, call) <=>
        StackToken(s, r, h, g, call) \/ (h = Len(s) + 1 /\ FrameToken(f, r, g, call))
  BY <1>1, PushTogether
<1>4. ASSUME NEW h, NEW g, NEW call, StackToken(Push(f, s), r, h, g, call)
      PROVE  \/ <<"call", t, h, g, call>> \in N
             \/ StackToken(stack[t], r, h, g, call) /\ <<"call", t, h, g, call>> # Here(t)
  <2>1. CASE StackToken(s, r, h, g, call)
    <3>1. h \in 1..Len(s) /\ h # Len(stack[t])
      BY <1>1, <2>1 DEF StackToken
    <3>2. <<"call", t, h, g, call>>[3] # Here(t)[3]
      BY <3>1 DEF Here
    <3> QED
      BY <1>1, <2>1, <3>2
  <2>2. CASE h = Len(s) + 1 /\ FrameToken(f, r, g, call)
    <3>1. r = RunOf(t) /\ ListToken(calls \o v, g, call) /\ calls \in Seq(FramesOf(calls))
      BY <1>2, <2>2 DEF FrameToken, OneToken
    <3>2. \/ ListToken(v, g, call)
          \/ g \in Nat /\ g > Len(v) /\ ListToken(calls, g - Len(v), call)
      BY <1>1, <3>1, ListTogether
    <3>3. CASE ListToken(v, g, call)
      <4>1. g \in 1..Len(v) /\ g # Len(Top(t).todo)
        BY <1>1, <3>3 DEF ListToken
      <4>2. <<"call", t, h, g, call>>[4] # Here(t)[4]
        BY <4>1 DEF Here
      <4> QED
        BY <1>1, <2>2, <3>1, <3>3, <4>2
    <3>4. CASE g \in Nat /\ g > Len(v) /\ ListToken(calls, g - Len(v), call)
      <4>1. <<"call", t, h, g, call>> \in CallTokens(stack', r)
        BY <1>p, <1>4, TokenParts
      <4> QED
        BY <1>1, <2>2, <3>1, <3>4, <4>1
    <3> QED
      BY <3>2, <3>3, <3>4
  <2> QED
    BY <1>3, <1>4, <2>1, <2>2
<1>5. CallTokens(stack', r) \subseteq (CallTokens(stack, r) \ {Here(t)}) \cup N
  <2>1. Here(t)[2] = t
    BY DEF Here
  <2>2. PICK w, x, M : w = Push(f, s) /\ x = Here(t) /\ M = N
    OBVIOUS
  <2> HIDE DEF N
  <2>3. Moved(t, w, r, x, M)
    BY <1>4, <2>2 DEF Moved
  <2>4. stack' = [stack EXCEPT ![t] = w] /\ x[2] = t
    BY <1>2, <2>1, <2>2
  <2>5. CallTokens(stack', r) \subseteq (CallTokens(stack, r) \ {x}) \cup M
    BY <2>3, <2>4, StackMoved
  <2> QED
    BY <2>2, <2>5
<1>6. ASSUME NEW p \in N
      PROVE  /\ r = RunOf(t) /\ p[1] = "call" /\ ~Quiet(calls)
             /\ p[5] \in FramesOf(calls) /\ p[5].op \in TokenOps
             /\ \E g, call : p = <<"call", t, Len(stack[t]), g, call>>
  <2>1. r = RunOf(t) /\ ListToken(calls, p[4] - Len(v), p[5]) /\ p \in CallTokens(stack', r)
        /\ p[2] = t /\ p[3] = Len(stack[t])
    BY <1>6
  <2>2. ~Quiet(calls) /\ p[5] \in FramesOf(calls) /\ p[5].op \in TokenOps
    BY <2>1, NoPlace, SolePlace DEF ListToken
  <2>3. PICK u, h, g, call : p = <<"call", u, h, g, call>>
    BY <2>1, TokenParts
  <2>4. p[1] = "call" /\ p[2] = u /\ p[3] = h
    BY <2>3
  <2> QED
    BY <2>1, <2>2, <2>3, <2>4
<1>7. ASSUME NEW p \in N, NEW q \in N PROVE p = q
  <2>1. /\ r = RunOf(t) /\ p[4] \in Nat /\ q[4] \in Nat
        /\ ListToken(calls, p[4] - Len(v), p[5]) /\ ListToken(calls, q[4] - Len(v), q[5])
    BY <1>7
  <2>2. p[4] - Len(v) = q[4] - Len(v) /\ p[5] = q[5]
    BY <2>1, SolePlace
  <2>3. p[4] = q[4]
    BY <1>1, <2>1, <2>2
  <2>4. PICK a, b : p = <<"call", t, Len(stack[t]), a, b>>
    BY <1>6
  <2>5. PICK c, d : q = <<"call", t, Len(stack[t]), c, d>>
    BY <1>6
  <2>6. a = c /\ b = d
    BY <2>2, <2>3, <2>4, <2>5
  <2> QED
    BY <2>4, <2>5, <2>6
<1> HIDE DEF N
<1> QED
  BY <1>5, <1>6, <1>7 DEF Sole

\* A handler that throws leaves no place in its stack.
LEMMA ThrowTokens ==
  ASSUME TypeOK, NEW t \in Thread, ~Idle(t), Throw(t), NEW r
  PROVE  CallTokens(stack', r) \subseteq CallTokens(stack, r) \ {Here(t)}
<1>1. PICK w, x, M : w = <<>> /\ x = Here(t) /\ M = {}
  OBVIOUS
<1>2. Moved(t, w, r, x, M)
  BY <1>1 DEF Moved, StackToken
<1>3. stack' = [stack EXCEPT ![t] = w] /\ x[2] = t
  BY <1>1 DEF Throw, SetStack, Here
<1>4. CallTokens(stack', r) \subseteq (CallTokens(stack, r) \ {x}) \cup M
  BY <1>2, <1>3, StackMoved
<1> QED
  BY <1>1, <1>4

\* The place a new frame brings.
LEMMA FramePlaces ==
  ASSUME NEW t, NEW f, NEW r, NEW n, f.run = r => OneToken(f.todo)
  PROVE  \E N : /\ Sole(N)
                /\ \A p \in N : /\ f.run = r /\ p[1] = "call" /\ ~Quiet(f.todo)
                                /\ p[5] \in FramesOf(f.todo) /\ p[5].op \in TokenOps
                /\ \A g, call : FrameToken(f, r, g, call) => <<"call", t, n, g, call>> \in N
<1> DEFINE at(g) == <<"call", t, n, g, Nth(f.todo, g)>>
           G == {g \in 1..Len(f.todo) : f.run = r /\ Nth(f.todo, g).op \in TokenOps}
           N == {at(g) : g \in G}
<1>1. ASSUME NEW g \in G
      PROVE  f.run = r /\ OneToken(f.todo) /\ ListToken(f.todo, g, Nth(f.todo, g))
  BY <1>1 DEF ListToken
<1>2. ASSUME NEW p \in N, NEW q \in N PROVE p = q
  <2>1. PICK g \in G, h \in G : p = at(g) /\ q = at(h)
    BY <1>2
  <2>2. g = h
    BY <1>1, SolePlace
  <2> QED
    BY <2>1, <2>2
<1>3. ASSUME NEW p \in N
      PROVE  /\ f.run = r /\ p[1] = "call" /\ ~Quiet(f.todo)
             /\ p[5] \in FramesOf(f.todo) /\ p[5].op \in TokenOps
  <2>1. PICK g \in G : p = at(g)
    BY <1>3
  <2>2. /\ f.run = r /\ ~Quiet(f.todo) /\ Nth(f.todo, g) \in FramesOf(f.todo)
        /\ Nth(f.todo, g).op \in TokenOps
    BY <1>1, SolePlace, NoPlace
  <2> QED
    BY <2>1, <2>2
<1>4. ASSUME NEW g, NEW call, FrameToken(f, r, g, call)
      PROVE  <<"call", t, n, g, call>> \in N
  <2>1. g \in G /\ call = Nth(f.todo, g)
    BY <1>4 DEF FrameToken, ListToken
  <2> QED
    BY <2>1
<1> HIDE DEF N
<1> QED
  BY <1>2, <1>3, <1>4 DEF Sole

\* The stack once the running call is taken from it, under whatever is pushed.
LEMMA CallerPlaces ==
  ASSUME TypeOK, NEW t \in Thread, ~Idle(t)
  PROVE  LET s == Push(Caller(t), Tail(stack[t]))
         IN /\ s \in Seq(Frames(Owner, Attempts)) /\ Len(s) \in Nat
            /\ \A r, h, g, call : StackToken(s, r, h, g, call) =>
                 /\ StackToken(stack[t], r, h, g, call)
                 /\ <<"call", t, h, g, call>> # Here(t)
            /\ Len(s) <= Len(stack[t])
<1> DEFINE b == Tail(stack[t])
           f == Caller(t)
           v == Tail(Top(t).todo)
           s == Push(f, b)
<1>1. s \in Seq(Frames(Owner, Attempts))
  <2>1. /\ RunOf(t) \in Run /\ Snap(t) \in Snapshot(RunOf(t), Owner, Attempts)
        /\ v \in Seq(CallsOn(RunOf(t), Len(Snap(t).node), Owner, Attempts))
        /\ b \in Seq(Frames(Owner, Attempts)) /\ f = Frame(RunOf(t), Snap(t), v)
    BY TopParts DEF TypeOK, Caller
  <2> HIDE DEF b, f, v
  <2> QED
    BY <2>1, PushOK
<1>2. /\ b \in Seq(Frames(Owner, Attempts)) /\ Len(stack[t]) = Len(b) + 1 /\ Len(b) \in Nat
      /\ Len(v) \in Nat /\ Len(Top(t).todo) = Len(v) + 1
      /\ \A r, h, g, call : StackToken(stack[t], r, h, g, call) <=>
           \/ StackToken(b, r, h, g, call)
           \/ /\ h = Len(stack[t]) /\ r = RunOf(t)
              /\ \/ ListToken(v, g, call)
                 \/ g = Len(Top(t).todo) /\ call = Call(t) /\ call.op \in TokenOps
  BY TopPlaces
<1>3. f.run = RunOf(t) /\ f.todo = v
  BY DEF Caller, Frame
<1> HIDE DEF f, b
<1>6. Len(s) \in Nat /\ Len(s) <= Len(stack[t])
  <2>1. s = b \/ s = <<f>> \o b
    BY DEF Push
  <2>2. Len(<<f>> \o b) = Len(b) + 1
    BY <1>2
  <2> QED
    BY <1>2, <2>1, <2>2
<1> HIDE DEF b, f, v
<1>4. \A r, h, g, call : StackToken(s, r, h, g, call) <=>
        StackToken(b, r, h, g, call) \/ (h = Len(b) + 1 /\ FrameToken(f, r, g, call))
  BY <1>2, PushTogether
<1> HIDE DEF s
<1>5. ASSUME NEW r, NEW h, NEW g, NEW call, StackToken(s, r, h, g, call)
      PROVE  /\ StackToken(stack[t], r, h, g, call)
             /\ <<"call", t, h, g, call>> # Here(t)
  <2>1. CASE StackToken(b, r, h, g, call)
    <3>1. h \in 1..Len(b) /\ h # Len(stack[t])
      BY <1>2, <2>1 DEF StackToken
    <3>2. <<"call", t, h, g, call>>[3] # Here(t)[3]
      BY <3>1 DEF Here
    <3> QED
      BY <1>2, <2>1, <3>2
  <2>2. CASE h = Len(b) + 1 /\ FrameToken(f, r, g, call)
    <3>1. r = RunOf(t) /\ ListToken(v, g, call)
      BY <1>3, <2>2 DEF FrameToken
    <3>2. g \in 1..Len(v) /\ g # Len(Top(t).todo)
      BY <1>2, <3>1 DEF ListToken
    <3>3. <<"call", t, h, g, call>>[4] # Here(t)[4]
      BY <3>2 DEF Here
    <3> QED
      BY <1>2, <2>2, <3>1, <3>3
  <2> QED
    BY <1>4, <1>5, <2>1, <2>2
<1> QED
  BY <1>1, <1>5, <1>6 DEF s, f, b

\* A handler that works on a frame of its own.
LEMMA EnterTokens ==
  ASSUME TypeOK, NEW t \in Thread, ~Idle(t), NEW f, Enter(t, f),
         NEW r, f.run = r => OneToken(f.todo)
  PROVE  \E N : /\ Sole(N)
                /\ \A p \in N : /\ f.run = r /\ p[1] = "call" /\ ~Quiet(f.todo)
                                /\ p[5] \in FramesOf(f.todo) /\ p[5].op \in TokenOps
                /\ CallTokens(stack', r) \subseteq (CallTokens(stack, r) \ {Here(t)}) \cup N
<1>1. PICK s, w, x : s = Push(Caller(t), Tail(stack[t])) /\ w = Push(f, s) /\ x = Here(t)
  OBVIOUS
<1>2. /\ s \in Seq(Frames(Owner, Attempts))
      /\ \A h, g, call : StackToken(s, r, h, g, call) =>
           StackToken(stack[t], r, h, g, call) /\ <<"call", t, h, g, call>> # x
  BY <1>1, CallerPlaces
<1>3. PICK N : /\ Sole(N)
               /\ \A p \in N : /\ f.run = r /\ p[1] = "call" /\ ~Quiet(f.todo)
                               /\ p[5] \in FramesOf(f.todo) /\ p[5].op \in TokenOps
               /\ \A g, call : FrameToken(f, r, g, call) =>
                    <<"call", t, Len(s) + 1, g, call>> \in N
  BY FramePlaces
<1>4. \A h, g, call : StackToken(w, r, h, g, call) <=>
        StackToken(s, r, h, g, call) \/ (h = Len(s) + 1 /\ FrameToken(f, r, g, call))
  BY <1>1, <1>2, PushTogether
<1>5. Moved(t, w, r, x, N)
  BY <1>2, <1>3, <1>4 DEF Moved
<1>6. stack' = [stack EXCEPT ![t] = w] /\ x[2] = t
  BY <1>1 DEF Enter, SetStack, Here
<1>7. CallTokens(stack', r) \subseteq (CallTokens(stack, r) \ {x}) \cup N
  BY <1>5, <1>6, StackMoved
<1> QED
  BY <1>1, <1>3, <1>7

\* A thread that was idle takes up a frame.
LEMMA StartTokens ==
  ASSUME TypeOK, NEW t \in Thread, Idle(t), NEW f, stack' = [stack EXCEPT ![t] = <<f>>],
         NEW r, f.run = r => OneToken(f.todo)
  PROVE  \E N : /\ Sole(N)
                /\ \A p \in N : /\ f.run = r /\ p[1] = "call" /\ ~Quiet(f.todo)
                                /\ p[5] \in FramesOf(f.todo) /\ p[5].op \in TokenOps
                /\ CallTokens(stack', r) \subseteq CallTokens(stack, r) \cup N
<1>1. PICK s, w, x : s = <<>> /\ w = <<f>> /\ x = <<0, t>>
  OBVIOUS
<1>2. s \in Seq({f}) /\ w = <<f>> \o s
  BY <1>1
<1>3. PICK N : /\ Sole(N)
               /\ \A p \in N : /\ f.run = r /\ p[1] = "call" /\ ~Quiet(f.todo)
                               /\ p[5] \in FramesOf(f.todo) /\ p[5].op \in TokenOps
               /\ \A g, call : FrameToken(f, r, g, call) =>
                    <<"call", t, Len(s) + 1, g, call>> \in N
  BY FramePlaces
<1>4. \A h, g, call : StackToken(w, r, h, g, call) <=>
        StackToken(s, r, h, g, call) \/ (h = Len(s) + 1 /\ FrameToken(f, r, g, call))
  BY <1>2, TopTogether
<1>5. \A h, g, call : ~StackToken(s, r, h, g, call)
  BY <1>1 DEF StackToken
<1>6. Moved(t, w, r, x, N)
  BY <1>3, <1>4, <1>5 DEF Moved
<1>7. stack' = [stack EXCEPT ![t] = w] /\ x[2] = t
  BY <1>1
<1>8. CallTokens(stack', r) \subseteq (CallTokens(stack, r) \ {x}) \cup N
  BY <1>6, <1>7, StackMoved
<1> QED
  BY <1>3, <1>8

-----------------------------------------------------------------------------
\* Where a run may be after a step.
LEMMA TokensAfter ==
  ASSUME NEW r
  PROVE  /\ Tokens(r)' = CallTokens(stack', r) \cup TaskTokens(timer', r)
                         \cup LiveTokens(cmd', r) \cup RowTokens(node'[r], r)
         /\ Alone(r)' <=>
              /\ Sole(Tokens(r)') /\ Once(timer', r) /\ Sole(OpenOf(cmd', r))
              /\ \A p \in Tokens(r)' : \A i \in OpenOf(cmd', r) : Concerns(p, i)
BY DEF Tokens, CallTokens, CallAt, PlacesOf, TaskTokens, LiveTokens, RowTokens, Alone, Sole, Once, OpenOf,
       Concerns, StackToken, FrameToken, ListToken, Nth, Key, TokenOps, HandOps, OpenCommand,
       Thread

\* A run that is nowhere else than before, with no more open commands.
LEMMA Fades ==
  ASSUME NEW r, Alone(r), Once(timer', r), OpenOf(cmd', r) \subseteq OpenOf(cmd, r),
         CallTokens(stack', r) \cup TaskTokens(timer', r) \cup LiveTokens(cmd', r)
           \cup RowTokens(node'[r], r) \subseteq Tokens(r)
  PROVE  Alone(r)'
BY TokensAfter DEF Alone, Sole

\* A run that leaves the place where it was for another.
LEMMA Goes ==
  ASSUME NEW r, Alone(r), Once(timer', r), NEW x \in Tokens(r), NEW N, Sole(N),
         NEW O, OpenOf(cmd', r) \subseteq O, Sole(O),
         \A p \in N : \A i \in OpenOf(cmd', r) : Concerns(p, i),
         CallTokens(stack', r) \cup TaskTokens(timer', r) \cup LiveTokens(cmd', r)
           \cup RowTokens(node'[r], r) \subseteq (Tokens(r) \ {x}) \cup N
  PROVE  Alone(r)'
<1>1. Tokens(r) \subseteq {x}
  BY DEF Alone, Sole
<1>2. Tokens(r)' \subseteq N
  BY <1>1, TokensAfter
<1> QED
  BY <1>2, TokensAfter DEF Sole

-----------------------------------------------------------------------------
\* A step pauses none of a run's nodes, gives no command of it to a robot, and
\* opens none.
Quieter(r) ==
  /\ RowTokens(node'[r], r) \subseteq RowTokens(node[r], r)
  /\ LiveTokens(cmd', r) \subseteq LiveTokens(cmd, r)
  /\ OpenOf(cmd', r) \subseteq OpenOf(cmd, r)

\* A node is written by a handler, in a state that is not PAUSED, or none is.
Unpaused ==
  \/ UNCHANGED node
  \/ \E r, c, k, state : UpdateNodeRun(r, c, k, state) /\ state # "PAUSED"
  \/ \E r, c, k, tries : WriteRow(r, c, k, [state |-> "RUNNING", tries |-> tries])

\* Writing a row changes no other.
LEMMA WrittenRows ==
  ASSUME TypeOK, NEW r, NEW c, NEW k, NEW row, WriteRow(r, c, k, row), NEW s \in Run
  PROVE  /\ DOMAIN node'[s] = DOMAIN node[s]
         /\ \A d \in DOMAIN node[s], j \in Key(s) :
              /\ node[s][d][j] \in NodeRow
              /\ node'[s][d][j] = IF s = r /\ d = c /\ j = k THEN row ELSE node[s][d][j]
<1>1. /\ DOMAIN node = Run /\ node[s] \in Seq([Key(s) -> NodeRow])
  BY DEF TypeOK, RunsOK, NodeRows
<1>2. DOMAIN node[s] = 1..Len(node[s]) /\ node[s] \in [1..Len(node[s]) -> [Key(s) -> NodeRow]]
  BY <1>1, LenProperties
<1>3. node' = [node EXCEPT ![r][c][k] = row]
  BY DEF WriteRow
<1>4. DOMAIN node'[s] = DOMAIN node[s]
  BY <1>1, <1>3
<1>5. ASSUME NEW d \in DOMAIN node[s], NEW j \in Key(s)
      PROVE  /\ node[s][d][j] \in NodeRow
             /\ node'[s][d][j] = IF s = r /\ d = c /\ j = k THEN row ELSE node[s][d][j]
  <2>1. node[s][d] \in [Key(s) -> NodeRow]
    BY <1>2, <1>5
  <2>2. CASE s # r
    BY <1>1, <1>3, <2>1, <2>2
  <2>3. CASE s = r
    <3>1. node'[s] = [node[s] EXCEPT ![c][k] = row]
      BY <1>1, <1>3, <2>3
    <3> QED
      BY <1>2, <1>5, <2>1, <2>3, <3>1
  <2> QED
    BY <2>2, <2>3
<1> QED
  BY <1>4, <1>5

\* The nodes a step leaves paused were paused, but for the one it wrote.
LEMMA PausedRows ==
  ASSUME TypeOK, NEW r \in Run
  PROVE  /\ \A s, c, k, row : WriteRow(s, c, k, row) =>
              /\ row.state # "PAUSED" => RowTokens(node'[r], r) \subseteq RowTokens(node[r], r)
              /\ r # s => RowTokens(node'[r], r) \subseteq RowTokens(node[r], r)
              /\ RowTokens(node'[r], r) \subseteq RowTokens(node[r], r) \cup {<<"row", c, k>>}
              /\ row.state # "PAUSED" /\ r = s => <<"row", c, k>> \notin RowTokens(node'[r], r)
         /\ Unpaused => RowTokens(node'[r], r) \subseteq RowTokens(node[r], r)
<1>1. \A rows, p : p \in RowTokens(rows, r) <=>
        \E c \in DOMAIN rows, k \in Key(r) :
          p = <<"row", c, k>> /\ rows[c][k].state = "PAUSED"
  BY TokenParts
<1>2. ASSUME NEW s, NEW c, NEW k, NEW row, WriteRow(s, c, k, row)
      PROVE  /\ row.state # "PAUSED" => RowTokens(node'[r], r) \subseteq RowTokens(node[r], r)
             /\ r # s => RowTokens(node'[r], r) \subseteq RowTokens(node[r], r)
             /\ RowTokens(node'[r], r) \subseteq RowTokens(node[r], r) \cup {<<"row", c, k>>}
             /\ row.state # "PAUSED" /\ r = s => <<"row", c, k>> \notin RowTokens(node'[r], r)
  <2>0. /\ DOMAIN node'[r] = DOMAIN node[r]
        /\ \A d \in DOMAIN node[r], j \in Key(r) :
             node'[r][d][j] = IF r = s /\ d = c /\ j = k THEN row ELSE node[r][d][j]
    BY <1>2, WrittenRows
  <2>1. ASSUME NEW p \in RowTokens(node'[r], r)
        PROVE  p \in RowTokens(node[r], r)
                 \/ (r = s /\ p = <<"row", c, k>> /\ row.state = "PAUSED")
    <3>1. PICK d \in DOMAIN node'[r], j \in Key(r) :
            p = <<"row", d, j>> /\ node'[r][d][j].state = "PAUSED"
      BY <1>1, <2>1
    <3>3. CASE r = s /\ d = c /\ j = k
      BY <2>0, <3>1, <3>3
    <3>4. CASE ~(r = s /\ d = c /\ j = k)
      BY <1>1, <2>0, <3>1, <3>4
    <3> QED
      BY <3>3, <3>4
  <2>2. ASSUME <<"row", c, k>> \in RowTokens(node'[r], r), r = s
        PROVE  row.state = "PAUSED"
    <3>1. PICK d \in DOMAIN node'[r], j \in Key(r) :
            <<"row", c, k>> = <<"row", d, j>> /\ node'[r][d][j].state = "PAUSED"
      BY <1>1, <2>2
    <3>2. c = d /\ k = j
      BY <3>1
    <3> QED
      BY <2>0, <2>2, <3>1, <3>2
  <2> QED
    BY <2>1, <2>2
<1>3. ASSUME Unpaused PROVE RowTokens(node'[r], r) \subseteq RowTokens(node[r], r)
  <2>1. CASE UNCHANGED node
    BY <2>1
  <2>2. ASSUME NEW s, NEW c, NEW k, NEW state,
               UpdateNodeRun(s, c, k, state), state # "PAUSED"
        PROVE  RowTokens(node'[r], r) \subseteq RowTokens(node[r], r)
    <3>1. PICK row : row = [node[s][c][k] EXCEPT !.state = state]
      OBVIOUS
    <3>2. WriteRow(s, c, k, row)
      BY <2>2, <3>1 DEF UpdateNodeRun, WriteRow
    <3>3. CASE r # s
      BY <1>2, <3>2, <3>3
    <3>4. CASE r = s
      <4>1. ASSUME NEW p \in RowTokens(node'[r], r)
            PROVE  p \in RowTokens(node[r], r)
        <5>1. PICK d \in DOMAIN node'[r], j \in Key(r) :
                p = <<"row", d, j>> /\ node'[r][d][j].state = "PAUSED"
          BY <1>1, <4>1
        <5>2. /\ d \in DOMAIN node[r] /\ node[r][d][j] \in NodeRow
              /\ node'[r][d][j] = IF r = s /\ d = c /\ j = k THEN row ELSE node[r][d][j]
          BY <3>2, <5>1, WrittenRows
        <5>3. CASE d = c /\ j = k
          <6>1. row.state = state
            BY <3>1, <3>4, <5>2, <5>3 DEF NodeRow
          <6> QED
            BY <2>2, <3>4, <5>1, <5>2, <5>3, <6>1
        <5>4. CASE ~(d = c /\ j = k)
          BY <1>1, <5>1, <5>2, <5>4
        <5> QED
          BY <5>3, <5>4
      <4> QED
        BY <4>1
    <3> QED
      BY <3>3, <3>4
  <2>3. ASSUME NEW s, NEW c, NEW k, NEW tries,
               WriteRow(s, c, k, [state |-> "RUNNING", tries |-> tries])
        PROVE  RowTokens(node'[r], r) \subseteq RowTokens(node[r], r)
    <3>1. PICK row : row = [state |-> "RUNNING", tries |-> tries]
      OBVIOUS
    <3>2. WriteRow(s, c, k, row) /\ row.state # "PAUSED"
      BY <2>3, <3>1
    <3> QED
      BY <1>2, <3>2
  <2> QED
    BY <1>3, <2>1, <2>2, <2>3 DEF Unpaused
<1> QED
  BY <1>2, <1>3

\* Commands that keep their runs, their answers outstanding and their states.
LEMMA CommandTokens ==
  ASSUME NEW r, DOMAIN cmd' = DOMAIN cmd,
         \A i \in DOMAIN cmd :
           /\ cmd'[i].run = cmd[i].run /\ (cmd'[i].live => cmd[i].live)
           /\ cmd'[i].state \in OpenCommand => cmd[i].state \in OpenCommand
  PROVE  /\ LiveTokens(cmd', r) \subseteq LiveTokens(cmd, r)
         /\ OpenOf(cmd', r) \subseteq OpenOf(cmd, r)
BY DEF LiveTokens, OpenOf

\* Steps that write no command.
LEMMA TablesQuieter ==
  ASSUME TypeOK, NEW r \in Run, UNCHANGED cmd, Unpaused
  PROVE  Quieter(r)
BY PausedRows DEF Quieter

\* At a call that does not hand a command over, none is open.
LEMMA NotAtHand ==
  ASSUME TypeOK, NEW t \in Thread, ~Idle(t), Alone(RunOf(t)),
         Call(t).op \in TokenOps, Call(t).op \notin HandOps
  PROVE  OpenOf(cmd, RunOf(t)) = {}
<1>1. Here(t) \in Tokens(RunOf(t))
  BY HereToken
<1>2. SUFFICES ASSUME NEW i \in OpenOf(cmd, RunOf(t)) PROVE FALSE
  OBVIOUS
<1>3. Concerns(Here(t), i)
  BY <1>1 DEF Alone
<1>4. Here(t)[1] = "call" /\ Here(t)[5] = Call(t) /\ <<"cmd", i>>[1] = "cmd"
  BY DEF Here
<1>5. Here(t) # <<"cmd", i>>
  BY <1>4
<1> QED
  BY <1>3, <1>4, <1>5 DEF Concerns

\* A handler that returns, and neither pauses a node nor opens a command.
LEMMA ReturnAlone ==
  ASSUME TypeOK, NEW r \in Run, Alone(r), NEW t \in Thread, ~Idle(t),
         NEW snap, NEW calls, Return(t, snap, calls), UNCHANGED timer, Quieter(r),
         r = RunOf(t) => /\ OneToken(calls)
                         /\ Call(t).op \in TokenOps \/ Quiet(calls)
                         /\ Call(t).op \in HandOps => OpenOf(cmd', r) = {}
  PROVE  Alone(r)'
<1>1. PICK N : /\ Sole(N)
               /\ \A p \in N : /\ r = RunOf(t) /\ p[1] = "call" /\ ~Quiet(calls)
                               /\ p[5] \in FramesOf(calls) /\ p[5].op \in TokenOps
               /\ CallTokens(stack', r) \subseteq (CallTokens(stack, r) \ {Here(t)}) \cup N
  BY ReturnTokens
<1>2. /\ Once(timer', r) /\ TaskTokens(timer', r) = TaskTokens(timer, r)
      /\ OpenOf(cmd', r) \subseteq OpenOf(cmd, r) /\ Sole(OpenOf(cmd', r))
  BY DEF Alone, Quieter, Sole
<1>3. Here(t)[1] = "call"
  BY DEF Here
<1>4. Here(t) \notin TaskTokens(timer, r) \cup LiveTokens(cmd, r) \cup RowTokens(node[r], r)
  <2>1. \A p \in TaskTokens(timer, r) : p[1] = "task"
    BY TokenParts
  <2>2. \A p \in LiveTokens(cmd, r) : p[1] = "cmd"
    BY TokenParts
  <2>3. \A p \in RowTokens(node[r], r) : p[1] = "row"
    BY TokenParts
  <2> QED
    BY <1>3, <2>1, <2>2, <2>3
<1>5. CASE N = {}
  <2>1. CallTokens(stack', r) \cup TaskTokens(timer', r) \cup LiveTokens(cmd', r)
           \cup RowTokens(node'[r], r) \subseteq Tokens(r)
    BY <1>1, <1>2, <1>5 DEF Tokens, Quieter
  <2> QED
    BY <1>2, <2>1, Fades
<1>6. CASE N # {}
  <2>1. r = RunOf(t) /\ Call(t).op \in TokenOps
    BY <1>1, <1>6
  <2>2. Here(t) \in Tokens(r)
    BY <2>1, HereToken
  <2>3. OpenOf(cmd', r) = {}
    BY <1>2, <2>1, NotAtHand
  <2>4. CallTokens(stack', r) \cup TaskTokens(timer', r) \cup LiveTokens(cmd', r)
           \cup RowTokens(node'[r], r) \subseteq (Tokens(r) \ {Here(t)}) \cup N
    BY <1>1, <1>2, <1>4 DEF Tokens, Quieter
  <2> QED
    BY <1>1, <1>2, <2>2, <2>3, <2>4, Goes
<1> QED
  BY <1>5, <1>6

\* One that does nothing.
LEMMA SkipAlone ==
  ASSUME TypeOK, NEW r \in Run, Alone(r), NEW t \in Thread, ~Idle(t),
         Skip(t), UNCHANGED timer, Quieter(r),
         Call(t).op \in HandOps => r # RunOf(t)
  PROVE  Alone(r)'
<1>1. Return(t, Snap(t), <<>>) /\ Quiet(<<>>) /\ OneToken(<<>>)
  BY OneTogether DEF Skip
<1> QED
  BY <1>1, ReturnAlone

\* One that throws.
LEMMA ThrowAlone ==
  ASSUME TypeOK, NEW r \in Run, Alone(r), NEW t \in Thread, ~Idle(t),
         Throw(t), UNCHANGED timer, Quieter(r)
  PROVE  Alone(r)'
<1>1. CallTokens(stack', r) \subseteq CallTokens(stack, r)
  BY ThrowTokens
<1>2. CallTokens(stack', r) \cup TaskTokens(timer', r) \cup LiveTokens(cmd', r)
           \cup RowTokens(node'[r], r) \subseteq Tokens(r)
  BY <1>1 DEF Tokens, Quieter
<1> QED
  BY <1>2, Fades DEF Alone, Quieter, Once

-----------------------------------------------------------------------------
\* followEdges goes along one edge of a sequential run, and no event does.
LEMMA FollowsOne ==
  ASSUME NEW r, Sequential(r)
  PROVE  /\ \A src, kind, event, i : OneToken(FollowFrom(r, src, kind, event, i))
         /\ \A src, kind, event : OneToken(FollowEdges(r, src, kind, event))
         /\ \A k, ok : Quiet(EmitResult(r, k, ok))
         /\ \A src, event : FollowEdges(r, src, "event", event) = <<>>
         /\ \A i \in EdgeIds(r) : LET e == Graph[r].edges[i]
              IN i \in Nat => FollowFrom(r, e.src, e.kind, e.event, i) = <<>>
<1>1. \A src, kind, event, i : OneToken(FollowFrom(r, src, kind, event, i))
  BY OneTogether DEF FollowFrom
<1>2. \A src, kind, event : OneToken(FollowEdges(r, src, kind, event))
  BY <1>1 DEF FollowEdges
<1>3. \A src, event : FollowEdges(r, src, "event", event) = <<>>
  BY DEF FollowEdges, FollowFrom, OutEdges, Sequential
<1>4. ASSUME NEW k, NEW ok PROVE Quiet(EmitResult(r, k, ok))
  <2>1. \A ev : Quiet(<<[Op("inject") EXCEPT !.ev = ev]>>)
    BY OneTogether DEF Op, TokenOps
  <2>2. Quiet(<<>>) /\ \A u, v : Quiet(u) /\ Quiet(v) => Quiet(u \o v)
    BY OneTogether
  <2> QED
    BY <1>3, <2>1, <2>2 DEF EmitResult
<1>5. ASSUME NEW i \in EdgeIds(r), i \in Nat
      PROVE  LET e == Graph[r].edges[i] IN FollowFrom(r, e.src, e.kind, e.event, i) = <<>>
  <2> DEFINE e == Graph[r].edges[i]
  <2>1. \A j \in OutEdges(r, e.src, e.kind, e.event, i) : j = i /\ j > i
    BY <1>5 DEF OutEdges, Sequential
  <2>2. OutEdges(r, e.src, e.kind, e.event, i) = {}
    BY <1>5, <2>1
  <2> QED
    BY <2>2 DEF FollowFrom
<1> QED
  BY <1>1, <1>2, <1>3, <1>4, <1>5

-----------------------------------------------------------------------------
\* A list of two is made of two lists.
LEMMA TwoTogether ==
  ASSUME NEW a, NEW b
  PROVE  <<a, b>> = <<a>> \o <<b>>
<1>1. PICK S : S = {a, b}
  OBVIOUS
<1>2. <<a>> \in Seq(S) /\ <<b>> \in Seq(S) /\ <<a, b>> \in Seq(S)
  BY <1>1
<1>3. /\ <<a>> \o <<b>> \in Seq(S) /\ Len(<<a>> \o <<b>>) = 2
      /\ \A i \in 1..2 : (<<a>> \o <<b>>)[i] = <<a, b>>[i]
  BY <1>2
<1>4. Len(<<a, b>>) = 2
  OBVIOUS
<1> QED
  BY <1>2, <1>3, <1>4, SeqEqual

\* Lists of two and of three calls.
LEMMA OneOfFew ==
  /\ \A a, b : /\ a.op \notin TokenOps => OneToken(<<a, b>>)
               /\ a.op \notin TokenOps /\ b.op \notin TokenOps => Quiet(<<a, b>>)
  /\ \A a, b, c : a.op \notin TokenOps /\ b.op \notin TokenOps => OneToken(<<a, b, c>>)
<1>1. \A a, b : <<a, b>> = <<a>> \o <<b>>
  BY TwoTogether
<1>2. ASSUME NEW a, NEW b, NEW c PROVE <<a, b, c>> = <<a, b>> \o <<c>>
  <2>1. PICK S : S = {a, b, c}
    OBVIOUS
  <2>2. <<a, b>> \in Seq(S) /\ <<c>> \in Seq(S) /\ <<a, b, c>> \in Seq(S)
    BY <2>1
  <2>3. /\ <<a, b>> \o <<c>> \in Seq(S) /\ Len(<<a, b>> \o <<c>>) = 3
        /\ \A i \in 1..3 : (<<a, b>> \o <<c>>)[i] = <<a, b, c>>[i]
    BY <2>2
  <2>4. Len(<<a, b, c>>) = 3
    OBVIOUS
  <2> QED
    BY <2>2, <2>3, <2>4, SeqEqual
<1>3. ASSUME NEW a, NEW b, a.op \notin TokenOps
      PROVE  OneToken(<<a, b>>) /\ (b.op \notin TokenOps => Quiet(<<a, b>>))
  <2>1. Quiet(<<a>>) /\ OneToken(<<b>>) /\ (b.op \notin TokenOps => Quiet(<<b>>))
    BY <1>3, OneTogether
  <2> QED
    BY <1>1, <2>1, OneTogether
<1>4. ASSUME NEW a, NEW b, NEW c, a.op \notin TokenOps, b.op \notin TokenOps
      PROVE  OneToken(<<a, b, c>>)
  <2>1. Quiet(<<a, b>>) /\ OneToken(<<c>>)
    BY <1>3, <1>4, OneTogether
  <2> QED
    BY <1>2, <2>1, OneTogether
<1> QED
  BY <1>3, <1>4

\* The usual end of a handler, and the ways a run is ended.
LEMMA OneFinishes ==
  /\ \A r, src, kind : Sequential(r) =>
       OneToken(FollowEdges(r, src, kind, NoEvent) \o <<Op("maybeFinish")>>)
  /\ Quiet(<<Op("failRun")>>) /\ Quiet(<<Op("orphan")>>)
  /\ \A ok : Quiet(<<Op("failRun"), NotifyParent(ok)>>) /\ Quiet(<<NotifyParent(ok)>>)
  /\ Quiet(<<Op("cancelNodes"), Op("failRun")>>)
<1>1. /\ Op("maybeFinish").op \notin TokenOps /\ Op("failRun").op \notin TokenOps
      /\ Op("orphan").op \notin TokenOps /\ Op("cancelNodes").op \notin TokenOps
      /\ \A ok : NotifyParent(ok).op \notin TokenOps
  BY DEF Op, TokenOps, NotifyParent, WithOutcome
<1>2. \A r, src, kind : Sequential(r) =>
        OneToken(FollowEdges(r, src, kind, NoEvent) \o <<Op("maybeFinish")>>)
  <2>1. Quiet(<<Op("maybeFinish")>>)
    BY <1>1, OneTogether
  <2> QED
    BY <2>1, FollowsOne, OneTogether
<1>3. /\ Quiet(<<Op("failRun")>>) /\ Quiet(<<Op("orphan")>>)
      /\ \A ok : Quiet(<<NotifyParent(ok)>>)
  BY <1>1, OneTogether
<1>4. /\ \A ok : Quiet(<<Op("failRun"), NotifyParent(ok)>>)
      /\ Quiet(<<Op("cancelNodes"), Op("failRun")>>)
  BY <1>1, OneOfFew
<1> QED
  BY <1>2, <1>3, <1>4

\* What a handler may leave in the frame of a sequential run.
Carries(t, r, calls) ==
  r = RunOf(t) => \/ Quiet(calls)
                  \/ OneToken(calls) /\ Call(t).op \in TokenOps

\* A handler that neither pauses a node nor writes commands or timer tasks.
LEMMA PlainAlone ==
  ASSUME TypeOK, NEW r \in Run, Alone(r), NEW t \in Thread, ~Idle(t),
         Call(t).op \notin HandOps, NEW snap, NEW calls, Return(t, snap, calls),
         UNCHANGED <<cmd, timer>>, Unpaused, Carries(t, r, calls)
  PROVE  Alone(r)'
<1>1. Quieter(r)
  BY TablesQuieter
<1>2. r = RunOf(t) => /\ OneToken(calls)
                      /\ Call(t).op \in TokenOps \/ Quiet(calls)
                      /\ Call(t).op \in HandOps => OpenOf(cmd', r) = {}
  BY OneTogether DEF Carries
<1> QED
  BY <1>1, <1>2, ReturnAlone

\* completeNode, failNode, activateNode and followEdges take a sequential run
\* from one call to the next.
LEMMA StepGoesOn ==
  ASSUME TypeOK, NEW r \in Run, Sequential(r), Alone(r), NEW t \in Thread,
         \/ CompleteNode(t) \/ FailNode(t) \/ ActivateNode(t) \/ TraverseEdge(t)
         \/ ExecuteContext(t) \/ Bootstrap(t) \/ RetryNode(t)
  PROVE  Alone(r)'
<1>1. CASE CompleteNode(t)
  <2>1. PICK snap, calls :
          /\ Return(t, snap, calls)
          /\ calls = IF TypeOf(RunOf(t), Call(t).k) = "END" THEN <<Op("finish")>>
                     ELSE FollowEdges(RunOf(t), Call(t).k, "success", NoEvent)
                          \o <<Op("maybeFinish")>>
    BY <1>1 DEF CompleteNode
  <2>2. /\ ~Idle(t) /\ Call(t).op \in TokenOps /\ Call(t).op \notin HandOps
        /\ UNCHANGED <<cmd, timer>> /\ Unpaused
    BY <1>1 DEF CompleteNode, Calls, TokenOps, HandOps, Unpaused
  <2>3. Carries(t, r, calls)
    BY <2>1, <2>2, OneFinishes, OneTogether DEF Carries
  <2> QED
    BY <2>1, <2>2, <2>3, PlainAlone
<1>2. CASE FailNode(t)
  <2>1. PICK snap, calls :
          /\ Return(t, snap, calls)
          /\ calls = IF HasFailureEdge(RunOf(t), Call(t).k)
                     THEN FollowEdges(RunOf(t), Call(t).k, "failure", NoEvent)
                          \o <<Op("maybeFinish")>>
                     ELSE <<Op("failRun"), NotifyParent(FALSE)>>
    BY <1>2 DEF FailNode
  <2>2. /\ ~Idle(t) /\ Call(t).op \in TokenOps /\ Call(t).op \notin HandOps
        /\ UNCHANGED <<cmd, timer>> /\ Unpaused
    BY <1>2 DEF FailNode, Calls, TokenOps, HandOps, Unpaused
  <2>3. Carries(t, r, calls)
    BY <2>1, <2>2, OneFinishes DEF Carries
  <2> QED
    BY <2>1, <2>2, <2>3, PlainAlone
<1>3. CASE ActivateNode(t)
  <2>1. PICK snap, calls : /\ Return(t, snap, calls)
                           /\ calls = <<>> \/ \E call : calls = <<call>>
    BY <1>3 DEF ActivateNode, Skip
  <2>2. /\ ~Idle(t) /\ Call(t).op \in TokenOps /\ Call(t).op \notin HandOps
        /\ UNCHANGED <<cmd, timer>> /\ Unpaused
    BY <1>3 DEF ActivateNode, Calls, TokenOps, HandOps, Unpaused
  <2>3. Carries(t, r, calls)
    BY <2>1, <2>2, OneTogether DEF Carries
  <2> QED
    BY <2>1, <2>2, <2>3, PlainAlone
<1>4. CASE TraverseEdge(t)
  <2> DEFINE e == Graph[RunOf(t)].edges[Call(t).i]
             others == FollowFrom(RunOf(t), e.src, e.kind, e.event, Call(t).i)
  <2>1. PICK snap, calls, first :
          /\ Return(t, snap, calls) /\ calls = first \o others
          /\ first = <<>> \/ \E call : first = <<call>>
    BY <1>4 DEF TraverseEdge
  <2>2. /\ ~Idle(t) /\ Call(t).op \in TokenOps /\ Call(t).op \notin HandOps
        /\ UNCHANGED <<cmd, timer>> /\ Unpaused /\ Call(t).op = "edge"
    BY <1>4 DEF TraverseEdge, Calls, TokenOps, HandOps, Unpaused
  <2>3. r = RunOf(t) => others = <<>>
    <3>1. Call(t).i \in EdgeIds(RunOf(t)) /\ Call(t).i \in Nat
      BY <2>2, CallParts DEF OpRecord
    <3> QED
      BY <3>1, FollowsOne
  <2>4. OneToken(first) /\ Quiet(<<>>)
    BY <2>1, OneTogether
  <2> HIDE DEF others
  <2>5. Carries(t, r, calls)
    BY <2>1, <2>2, <2>3, <2>4, OneTogether DEF Carries
  <2> QED
    BY <2>1, <2>2, <2>5, PlainAlone
<1>5. CASE ExecuteContext(t) \/ Bootstrap(t) \/ RetryNode(t)
  <2>1. PICK snap, calls : Return(t, snap, calls) /\ \E call : calls = <<call>>
    <3>1. CASE ExecuteContext(t)
      BY <3>1 DEF ExecuteContext
    <3>2. CASE Bootstrap(t)
      BY <3>2 DEF Bootstrap
    <3>3. CASE RetryNode(t)
      BY <3>3 DEF RetryNode
    <3> QED
      BY <1>5, <3>1, <3>2, <3>3
  <2>2. /\ ~Idle(t) /\ Call(t).op \in TokenOps /\ Call(t).op \notin HandOps
        /\ UNCHANGED <<cmd, timer>> /\ Unpaused
    <3>1. CASE ExecuteContext(t)
      BY <3>1 DEF ExecuteContext, Calls, TokenOps, HandOps, Unpaused
    <3>2. CASE Bootstrap(t)
      BY <3>2 DEF Bootstrap, Calls, TokenOps, HandOps, Unpaused, db
    <3>3. CASE RetryNode(t)
      BY <3>3 DEF RetryNode, Calls, TokenOps, HandOps, Unpaused, WriteRow
    <3> QED
      BY <1>5, <3>1, <3>2, <3>3
  <2>3. Carries(t, r, calls)
    BY <2>1, <2>2, OneTogether DEF Carries
  <2> QED
    BY <2>1, <2>2, <2>3, PlainAlone
<1> QED
  BY <1>1, <1>2, <1>3, <1>4, <1>5

\* A run's end, a cancellation, what is only stored, and the list of an injected
\* event take it nowhere.
LEMMA StepStaysPut ==
  ASSUME TypeOK, NEW r \in Run, Sequential(r), Alone(r), NEW t \in Thread,
         \/ FailRun(t) \/ MaybeFinishRun(t) \/ StoreOutput(t) \/ FailWithoutStart(t)
         \/ CancelNode(t) \/ CancelRun(t) \/ ListWaiting(t)
  PROVE  Alone(r)'
<1>1. /\ Quiet(<<>>) /\ \A ok : Quiet(<<NotifyParent(ok)>>)
      /\ \A a : a.op \notin TokenOps => Quiet(<<a>>)
  BY OneTogether, OneFinishes
<1>2. CASE \/ FailRun(t) \/ MaybeFinishRun(t) \/ FailWithoutStart(t) \/ CancelRun(t)
  <2>1. PICK snap, calls : Return(t, snap, calls) /\ Quiet(calls)
    <3>1. CASE FailRun(t) \/ CancelRun(t)
      BY <1>1, <3>1 DEF FailRun, CancelRun
    <3>2. CASE MaybeFinishRun(t)
      <4>1. Return(t, Snap(t), <<>>)
              \/ Return(t, WithState(Snap(t), "SUCCEEDED"), <<NotifyParent(TRUE)>>)
        BY <3>2 DEF MaybeFinishRun, WithState, Skip
      <4> QED
        BY <1>1, <4>1
    <3>3. CASE FailWithoutStart(t)
      BY <1>1, <3>3 DEF FailWithoutStart, Skip
    <3> QED
      BY <1>2, <3>1, <3>2, <3>3
  <2>2. /\ ~Idle(t) /\ Call(t).op \notin HandOps /\ UNCHANGED <<cmd, timer>> /\ Unpaused
    <3>1. CASE FailRun(t) \/ CancelRun(t)
      BY <3>1 DEF FailRun, CancelRun, Calls, HandOps, Unpaused
    <3>2. CASE MaybeFinishRun(t)
      BY <3>2 DEF MaybeFinishRun, Calls, HandOps, Unpaused
    <3>3. CASE FailWithoutStart(t)
      BY <3>3 DEF FailWithoutStart, Calls, HandOps, Unpaused
    <3> QED
      BY <1>2, <3>1, <3>2, <3>3
  <2> QED
    BY <2>1, <2>2, PlainAlone DEF Carries
<1>3. CASE StoreOutput(t)
  <2>1. /\ Return(t, Snap(t), <<>>) /\ UNCHANGED <<cmd, timer>>
        /\ ~Idle(t) /\ Call(t).op \in {"park", "link", "stamp"}
    BY <1>3 DEF StoreOutput, Skip, Calls
  <2>2. Call(t).op \notin HandOps
    BY <2>1 DEF HandOps
  <2>3. PICK state : /\ UpdateNodeRun(RunOf(t), Call(t).c, Call(t).k, state)
                     /\ state = CASE Call(t).op = "park" -> "PENDING"
                                  [] Call(t).op = "link" -> "WAITING_EVENT"
                                  [] Call(t).op = "stamp" -> "RUNNING"
    BY <1>3 DEF StoreOutput
  <2>4. state # "PAUSED"
    BY <2>1, <2>3
  <2>5. Unpaused
    BY <2>3, <2>4 DEF Unpaused
  <2> QED
    BY <1>1, <2>1, <2>2, <2>5, PlainAlone DEF Carries
<1>4. CASE CancelNode(t)
  <2>1. PICK snap, calls : Return(t, snap, calls) /\ (calls = <<>> \/ calls = <<Call(t)>>)
    BY <1>4 DEF CancelNode, Skip
  <2>2. /\ ~Idle(t) /\ Call(t).op \notin HandOps \cup TokenOps
        /\ UNCHANGED <<cmd, timer>> /\ Unpaused
    BY <1>4 DEF CancelNode, Calls, HandOps, TokenOps, Unpaused
  <2>3. Quiet(calls)
    BY <1>1, <2>1, <2>2
  <2> QED
    BY <2>1, <2>2, <2>3, PlainAlone DEF Carries
<1>5. CASE ListWaiting(t)
  <2>1. PICK snap, a, b : /\ snap = WithWaiting(Snap(t), WaitingRuns(Call(t).ev))
                          /\ a = Op("wake") /\ b = [Op("startRun") EXCEPT !.ev = Call(t).ev]
    OBVIOUS
  <2>4. a.op = "wake" /\ b.op = "startRun"
    BY <2>1 DEF Op
  <2>5. Return(t, snap, <<a, b>>)
    BY <1>5, <2>1 DEF ListWaiting, WithWaiting
  <2>2. ~Idle(t) /\ Call(t).op \notin HandOps /\ UNCHANGED <<cmd, timer>> /\ Unpaused
    BY <1>5 DEF ListWaiting, Calls, HandOps, Unpaused, db
  <2>3. Quiet(<<a, b>>)
    <3>1. a.op \notin TokenOps /\ b.op \notin TokenOps
      BY <2>4 DEF TokenOps
    <3> QED
      BY <3>1, OneOfFew
  <2> QED
    BY <2>2, <2>3, <2>5, PlainAlone DEF Carries
<1> QED
  BY <1>2, <1>3, <1>4, <1>5

-----------------------------------------------------------------------------
\* Tokens of different kinds differ.
LEMMA TokenKinds ==
  /\ \A stacks, r : \A p \in CallTokens(stacks, r) : p[1] = "call"
  /\ \A tasks, r : \A p \in TaskTokens(tasks, r) : p[1] = "task"
  /\ \A cmds, r : \A p \in LiveTokens(cmds, r) : p[1] = "cmd"
  /\ \A rows, r : \A p \in RowTokens(rows, r) : p[1] = "row"
<1>1. ASSUME NEW stacks, NEW r, NEW p \in CallTokens(stacks, r) PROVE p[1] = "call"
  BY <1>1, TokenParts
<1>2. ASSUME NEW tasks, NEW r, NEW p \in TaskTokens(tasks, r) PROVE p[1] = "task"
  BY <1>2, TokenParts
<1>3. ASSUME NEW cmds, NEW r, NEW p \in LiveTokens(cmds, r) PROVE p[1] = "cmd"
  BY <1>3, TokenParts
<1>4. ASSUME NEW rows, NEW r, NEW p \in RowTokens(rows, r) PROVE p[1] = "row"
  BY <1>4, TokenParts
<1> QED
  BY <1>1, <1>2, <1>3, <1>4

\* Where a run is that is at a call: nowhere else.
LEMMA OnlyHere ==
  ASSUME TypeOK, NEW t \in Thread, ~Idle(t), Alone(RunOf(t)), Call(t).op \in TokenOps
  PROVE  /\ Tokens(RunOf(t)) = {Here(t)}
         /\ TaskTokens(timer, RunOf(t)) = {} /\ LiveTokens(cmd, RunOf(t)) = {}
         /\ RowTokens(node[RunOf(t)], RunOf(t)) = {}
         /\ CallTokens(stack, RunOf(t)) = {Here(t)}
<1>1. Here(t) \in CallTokens(stack, RunOf(t)) /\ Here(t) \in Tokens(RunOf(t))
  BY HereToken
<1>2. Tokens(RunOf(t)) = {Here(t)}
  BY <1>1 DEF Alone, Sole
<1>3. Here(t)[1] = "call"
  BY DEF Here
<1>4. /\ Here(t) \notin TaskTokens(timer, RunOf(t)) /\ Here(t) \notin LiveTokens(cmd, RunOf(t))
      /\ Here(t) \notin RowTokens(node[RunOf(t)], RunOf(t))
  BY <1>3, TokenKinds
<1> QED
  BY <1>1, <1>2, <1>4 DEF Tokens

\* No call of a sequential run lets a node wait for others.
LEMMA NoWaitCall ==
  ASSUME TypeOK, HandlersSuit, NEW t \in Thread, ~Idle(t), Sequential(RunOf(t))
  PROVE  Call(t).op \notin WaitOps
<1>1. Call(t).op \in WaitOps => Waits(RunOf(t), Call(t).k) /\ Call(t).op \in RowOps
  BY TopSuits DEF HandlersSuit, CallSuits, WaitOps, RowOps
<1>2. Call(t).op \in RowOps => Call(t).k \in Key(RunOf(t))
  BY CallParts
<1> QED
  BY <1>1, <1>2 DEF Sequential

\* A result, a decision that is recorded, and the end of a child run.
LEMMA StepApplies ==
  ASSUME TypeOK, HandlersSuit, NEW r \in Run, Sequential(r), Alone(r), NEW t \in Thread,
         ApplyResult(t) \/ ApplySshResult(t) \/ RecordDecision(t) \/ SettleSubflow(t)
  PROVE  Alone(r)'
<1>1. CASE ApplyResult(t) \/ ApplySshResult(t)
  <2> DEFINE c == cmd[Call(t).i].c
             k == cmd[Call(t).i].k
  <2>1. PICK snap, calls :
          /\ Return(t, snap, calls)
          /\ \/ calls = <<>>
             \/ \E ok : calls = <<OnKey("complete", k)>> \o EmitResult(RunOf(t), k, ok)
             \/ \E ok : calls = EmitResult(RunOf(t), k, ok) \o <<OnKey("complete", k)>>
             \/ \E ok : calls = EmitResult(RunOf(t), k, ok) \o <<OnNode("retry", c, k)>>
             \/ calls = <<OnNode("stamp", c, k), OnNode("retry", c, k)>>
    <3>1. CASE ApplyResult(t)
      BY <3>1 DEF ApplyResult, ApplyTo, Skip
    <3>2. CASE ApplySshResult(t)
      BY <3>2 DEF ApplySshResult, ApplyTo, Skip
    <3> QED
      BY <1>1, <3>1, <3>2
  <2>2. /\ ~Idle(t) /\ Call(t).op = "result" /\ UNCHANGED <<cmd, timer, node>>
    BY <1>1 DEF ApplyResult, ApplySshResult, Applies, Calls, ApplyTo, db
  <2>3. Call(t).op \in TokenOps /\ Call(t).op \notin HandOps /\ Unpaused
    BY <2>2 DEF TokenOps, HandOps, Unpaused
  <2>4. \A call : OneToken(<<call>>)
    BY OneTogether
  <2>5. r = RunOf(t) => \A j, ok : Quiet(EmitResult(RunOf(t), j, ok))
    BY FollowsOne
  <2>6. OneToken(<<OnNode("stamp", c, k), OnNode("retry", c, k)>>) /\ OneToken(<<>>)
    <3>1. OnNode("stamp", c, k).op \notin TokenOps
      BY DEF OnNode, Op, TokenOps
    <3> QED
      BY <3>1, OneOfFew, OneTogether
  <2> HIDE DEF c, k
  <2>7. r = RunOf(t) => OneToken(calls)
    BY <2>1, <2>4, <2>5, <2>6, OneTogether
  <2> QED
    BY <2>1, <2>2, <2>3, <2>7, PlainAlone DEF Carries
<1>2. CASE RecordDecision(t)
  <2>1. /\ ~Idle(t) /\ Call(t).op \in TokenOps /\ Call(t).op \notin HandOps
        /\ UNCHANGED <<cmd, timer>> /\ Unpaused
    BY <1>2 DEF RecordDecision, Calls, TokenOps, HandOps, Unpaused
  <2>2. CASE Throw(t)
    BY <2>1, <2>2, ThrowAlone, TablesQuieter
  <2>3. ASSUME NEW calls, Return(t, Snap(t), calls),
               \/ \E kind : calls = FollowEdges(RunOf(t), Call(t).k, kind, NoEvent)
                                      \o <<Op("maybeFinish")>>
               \/ calls = <<Op("cancelNodes"), Op("failRun")>>
        PROVE  Alone(r)'
    <3>1. r = RunOf(t) => OneToken(calls) \/ Quiet(calls)
      BY <2>3, OneFinishes
    <3> QED
      BY <2>1, <2>3, <3>1, PlainAlone DEF Carries
  <2> QED
    BY <1>2, <2>2, <2>3 DEF RecordDecision
<1>3. CASE SettleSubflow(t)
  <2>1. /\ ~Idle(t) /\ Call(t).op = "settle" /\ Call(t).op \notin HandOps
        /\ UNCHANGED <<cmd, timer>> /\ Unpaused
    BY <1>3 DEF SettleSubflow, Calls, HandOps, Unpaused
  <2>2. r # RunOf(t)
    BY <2>1, NoWaitCall DEF WaitOps
  <2>3. \E snap, calls : Return(t, snap, calls)
    BY <1>3 DEF SettleSubflow, Skip
  <2> QED
    BY <2>1, <2>2, <2>3, PlainAlone DEF Carries
<1> QED
  BY <1>1, <1>2, <1>3

\* A confirmation that was paused is decided.
LEMMA StepDecides ==
  ASSUME TypeOK, NEW r \in Run, Sequential(r), Alone(r), NEW t \in Thread, ApplyDecision(t)
  PROVE  Alone(r)'
<1> DEFINE c == Call(t).c
           k == Call(t).k
<1>1. /\ ~Idle(t) /\ Call(t).op = "decide" /\ UNCHANGED <<cmd, timer>>
      /\ Call(t).op \notin HandOps
  BY DEF ApplyDecision, Calls, HandOps
<1>2. CASE Throw(t) /\ UNCHANGED node
  BY <1>1, <1>2, ThrowAlone, TablesQuieter DEF Unpaused
<1>3. ASSUME NEW snap, NEW call, NEW state, UpdateNodeRun(RunOf(t), c, k, state),
             state # "PAUSED", Undecided(RunOf(t), c, k), Return(t, snap, <<call>>)
      PROVE  Alone(r)'
  <2>1. Unpaused
    BY <1>3 DEF Unpaused
  <2>2. CASE r # RunOf(t)
    BY <1>1, <1>3, <2>1, <2>2, PlainAlone DEF Carries
  <2>3. CASE r = RunOf(t)
    <3>1. /\ c \in DOMAIN node[r] /\ k \in Key(r) /\ node[r][c][k].state = "PAUSED"
          /\ DOMAIN node[r] = 1..Len(node[r])
      <4>1. node[r] \in Seq([Key(r) -> NodeRow])
        BY DEF TypeOK, RunsOK, NodeRows
      <4> QED
        BY <1>1, <1>3, <2>3, <4>1, CallParts, LenProperties DEF RowOps, Undecided
    <3>2. PICK x : x = <<"row", c, k>>
      OBVIOUS
    <3>3. x \in RowTokens(node[r], r) /\ x \in Tokens(r) /\ x[1] = "row"
      BY <3>1, <3>2, TokenParts DEF Tokens
    <3>4. OpenOf(cmd, r) = {}
      <4>1. \A i : <<"cmd", i>>[1] = "cmd"
        OBVIOUS
      <4> QED
        BY <3>3, <4>1 DEF Alone, Concerns
    <3>5. x \notin RowTokens(node'[r], r)
      <4>1. PICK row : row = [node[r][c][k] EXCEPT !.state = state]
        OBVIOUS
      <4>2. WriteRow(r, c, k, row)
        BY <1>3, <2>3, <4>1 DEF UpdateNodeRun, WriteRow
      <4>3. node[r][c][k] \in NodeRow
        BY <3>1, <4>2, WrittenRows
      <4>4. row.state # "PAUSED"
        BY <1>3, <4>1, <4>3 DEF NodeRow
      <4> QED
        BY <3>2, <4>2, <4>4, PausedRows
    <3>6. PICK N : /\ Sole(N)
                   /\ CallTokens(stack', r) \subseteq (CallTokens(stack, r) \ {Here(t)}) \cup N
      BY <1>1, <1>3, ReturnTokens, OneTogether
    <3>7. x \notin CallTokens(stack, r) \cup TaskTokens(timer, r) \cup LiveTokens(cmd, r)
      BY <3>3, TokenKinds
    <3>8. RowTokens(node'[r], r) \subseteq RowTokens(node[r], r)
      BY <2>1, PausedRows
    <3>9. CallTokens(stack', r) \cup TaskTokens(timer', r) \cup LiveTokens(cmd', r)
           \cup RowTokens(node'[r], r) \subseteq (Tokens(r) \ {x}) \cup N
      BY <1>1, <3>5, <3>6, <3>7, <3>8 DEF Tokens
    <3>10. Once(timer', r) /\ OpenOf(cmd', r) = {} /\ Sole({})
      BY <1>1, <3>4 DEF Alone, Sole
    <3> QED
      BY <3>3, <3>6, <3>9, <3>10, Goes
  <2> QED
    BY <2>2, <2>3
<1> QED
  BY <1>2, <1>3 DEF ApplyDecision

-----------------------------------------------------------------------------
\* What scheduling a task does to the tasks of a run.
LEMMA TaskAdded ==
  ASSUME NEW r, Once(timer, r), NEW task, timer' = BagAdd(timer, task)
  PROVE  /\ TaskTokens(timer', r) \subseteq TaskTokens(timer, r) \cup {<<"task", task>>}
         /\ task.run # r => TaskTokens(timer', r) \subseteq TaskTokens(timer, r)
         /\ task.run # r \/ TaskTokens(timer, r) = {} => Once(timer', r)
<1>1. DOMAIN timer' = DOMAIN timer \cup {task}
  BY DEF BagAdd
<1>2. \A x \in DOMAIN timer : x # task => timer'[x] = timer[x]
  BY DEF BagAdd
<1>3. task \notin DOMAIN timer => timer'[task] = 1
  BY DEF BagAdd
<1>4. task.run = r /\ TaskTokens(timer, r) = {} => task \notin DOMAIN timer
  BY DEF TaskTokens
<1>5. task.run # r \/ TaskTokens(timer, r) = {} => Once(timer', r)
  <2>1. CASE task.run # r
    BY <1>1, <1>2, <2>1 DEF Once
  <2>2. CASE task.run = r /\ TaskTokens(timer, r) = {}
    BY <1>1, <1>2, <1>3, <1>4, <2>2 DEF Once
  <2> QED
    BY <2>1, <2>2
<1>6. /\ TaskTokens(timer', r) \subseteq TaskTokens(timer, r) \cup {<<"task", task>>}
      /\ task.run # r => TaskTokens(timer', r) \subseteq TaskTokens(timer, r)
  BY <1>1 DEF TaskTokens
<1> QED
  BY <1>5, <1>6

\* A handler that leaves the run to a timer task.
LEMMA TaskAlone ==
  ASSUME TypeOK, NEW r \in Run, Alone(r), NEW t \in Thread, ~Idle(t),
         Call(t).op \in TokenOps, Call(t).op \notin HandOps,
         NEW snap, Return(t, snap, <<>>), UNCHANGED cmd, Unpaused,
         NEW task, task.run = RunOf(t), timer' = BagAdd(timer, task)
  PROVE  Alone(r)'
<1>1. PICK N : /\ Sole(N)
               /\ \A p \in N : r = RunOf(t) /\ ~Quiet(<<>>)
               /\ CallTokens(stack', r) \subseteq (CallTokens(stack, r) \ {Here(t)}) \cup N
  BY ReturnTokens, OneTogether
<1>2. CallTokens(stack', r) \subseteq CallTokens(stack, r) \ {Here(t)}
  BY <1>1, OneTogether
<1>3. Quieter(r)
  BY TablesQuieter
<1>4. CASE r # RunOf(t)
  <2>1. Once(timer', r) /\ TaskTokens(timer', r) \subseteq TaskTokens(timer, r)
    BY <1>4, TaskAdded DEF Alone
  <2>2. CallTokens(stack', r) \cup TaskTokens(timer', r) \cup LiveTokens(cmd', r)
           \cup RowTokens(node'[r], r) \subseteq Tokens(r)
    BY <1>2, <1>3, <2>1 DEF Tokens, Quieter
  <2> QED
    BY <1>3, <2>1, <2>2, Fades DEF Quieter
<1>5. CASE r = RunOf(t)
  <2>1. /\ Tokens(r) = {Here(t)} /\ TaskTokens(timer, r) = {} /\ LiveTokens(cmd, r) = {}
        /\ RowTokens(node[r], r) = {} /\ CallTokens(stack, r) = {Here(t)}
    BY <1>5, OnlyHere
  <2>2. PICK M : M = {<<"task", task>>}
    OBVIOUS
  <2>3. Once(timer', r) /\ TaskTokens(timer', r) \subseteq M
    BY <2>1, <2>2, TaskAdded DEF Alone
  <2>4. OpenOf(cmd', r) = {} /\ Sole(M) /\ Sole({})
    BY <1>3, <1>5, <2>2, NotAtHand DEF Quieter, Sole
  <2>5. CallTokens(stack', r) \cup TaskTokens(timer', r) \cup LiveTokens(cmd', r)
           \cup RowTokens(node'[r], r) \subseteq (Tokens(r) \ {Here(t)}) \cup M
    BY <1>2, <1>3, <2>1, <2>3 DEF Quieter
  <2>6. PICK x : x = Here(t)
    OBVIOUS
  <2>7. x \in Tokens(r) /\ CallTokens(stack', r) \cup TaskTokens(timer', r) \cup LiveTokens(cmd', r)
           \cup RowTokens(node'[r], r) \subseteq (Tokens(r) \ {x}) \cup M
    BY <2>1, <2>5, <2>6
  <2> QED
    BY <2>3, <2>4, <2>7, Goes
<1> QED
  BY <1>4, <1>5

\* DELAY, a retry and the next cycle are left to the timer, or not.
LEMMA StepSchedules ==
  ASSUME TypeOK, NEW r \in Run, Sequential(r), Alone(r), NEW t \in Thread,
         ExecuteDelay(t) \/ ScheduleRetry(t) \/ FinishOrRepeat(t)
  PROVE  Alone(r)'
<1>1. /\ Call(t).op \in {"delay", "retry", "finish"} /\ ~Idle(t) /\ UNCHANGED cmd
  <2>1. CASE ExecuteDelay(t)
    BY <2>1 DEF ExecuteDelay, Calls
  <2>2. CASE ScheduleRetry(t)
    BY <2>2 DEF ScheduleRetry, Calls
  <2>3. CASE FinishOrRepeat(t)
    BY <2>3 DEF FinishOrRepeat, Calls
  <2> QED
    BY <2>1, <2>2, <2>3
<1>2. Call(t).op \in TokenOps /\ Call(t).op \notin HandOps
  BY <1>1 DEF TokenOps, HandOps
<1>3. Skip(t) => Return(t, Snap(t), <<>>)
  BY DEF Skip
<1>4. CASE ExecuteDelay(t)
  <2>1. PICK task : /\ task.run = RunOf(t) /\ timer' = BagAdd(timer, task)
                    /\ Return(t, Snap(t), <<>>)
    <3>1. PICK task : task = [kind |-> "delay", run |-> RunOf(t), c |-> Call(t).c, k |-> Call(t).k]
      OBVIOUS
    <3>2. task.run = RunOf(t)
      BY <3>1
    <3> QED
      BY <1>3, <1>4, <3>1, <3>2 DEF ExecuteDelay
  <2>2. Unpaused
    BY <1>4 DEF ExecuteDelay, Unpaused
  <2> QED
    BY <1>1, <1>2, <2>1, <2>2, TaskAlone
<1>5. CASE ScheduleRetry(t)
  <2>1. CASE Return(t, Snap(t), <<OnKey("fail", Call(t).k)>>) /\ UNCHANGED <<node, timer>>
    <3>1. OneToken(<<OnKey("fail", Call(t).k)>>)
      BY OneTogether
    <3> QED
      BY <1>1, <1>2, <2>1, <3>1, PlainAlone DEF Carries, Unpaused
  <2>2. CASE ~(Return(t, Snap(t), <<OnKey("fail", Call(t).k)>>) /\ UNCHANGED <<node, timer>>)
    <3>1. PICK task : task = [kind |-> "retry", run |-> RunOf(t), c |-> Call(t).c, k |-> Call(t).k]
      OBVIOUS
    <3>2. task.run = RunOf(t)
      BY <3>1
    <3>3. /\ timer' = BagAdd(timer, task) /\ Return(t, Snap(t), <<>>)
          /\ WriteRow(RunOf(t), Call(t).c, Call(t).k,
                      [state |-> "RUNNING", tries |-> Snap(t).node[Call(t).c][Call(t).k].tries])
      BY <1>3, <1>5, <2>2, <3>1 DEF ScheduleRetry, WriteRow
    <3>4. Unpaused
      BY <3>3 DEF Unpaused
    <3> QED
      BY <1>1, <1>2, <3>2, <3>3, <3>4, TaskAlone
  <2> QED
    BY <2>1, <2>2
<1>6. CASE FinishOrRepeat(t)
  <2>0. Unpaused
    BY <1>6 DEF FinishOrRepeat, Unpaused
  <2>1. CASE Return(t, WithState(Snap(t), "SUCCEEDED"), <<NotifyParent(TRUE)>>) /\ UNCHANGED timer
    BY <1>1, <1>2, <2>0, <2>1, PlainAlone, OneFinishes DEF Carries
  <2>2. CASE Skip(t) /\ UNCHANGED timer
    BY <1>1, <1>2, <1>3, <2>0, <2>2, PlainAlone, OneTogether DEF Carries
  <2>3. CASE /\ Return(t, WithNext(Snap(t)), <<>>)
             /\ timer' = BagAdd(timer, [kind |-> "cycle", run |-> RunOf(t),
                                        c |-> Snap(t).cycle + 1, k |-> ""])
    <3>1. PICK task : task = [kind |-> "cycle", run |-> RunOf(t),
                              c |-> Snap(t).cycle + 1, k |-> ""]
      OBVIOUS
    <3>2. task.run = RunOf(t) /\ timer' = BagAdd(timer, task)
      BY <2>3, <3>1
    <3> QED
      BY <1>1, <1>2, <2>0, <2>3, <3>2, TaskAlone
  <2> QED
    BY <1>6, <2>1, <2>2, <2>3 DEF FinishOrRepeat, WithState, WithNext
<1> QED
  BY <1>4, <1>5, <1>6

\* A confirmation is paused: the run waits there.
LEMMA StepPauses ==
  ASSUME TypeOK, HandlersSuit, NEW r \in Run, Sequential(r), Alone(r), NEW t \in Thread,
         ExecuteWait(t)
  PROVE  Alone(r)'
<1>1. PICK snap, state :
        /\ ~Idle(t) /\ UNCHANGED <<cmd, timer>> /\ Return(t, snap, <<>>)
        /\ Call(t).op \in {"pause", "await"}
        /\ UpdateNodeRun(RunOf(t), Call(t).c, Call(t).k, state)
        /\ state = IF Call(t).op = "pause" THEN "PAUSED" ELSE "WAITING_EVENT"
  BY DEF ExecuteWait, Calls
<1>2. Call(t).op \notin HandOps
  BY <1>1 DEF HandOps
<1>3. PICK row : WriteRow(RunOf(t), Call(t).c, Call(t).k, row)
  BY <1>1 DEF UpdateNodeRun, WriteRow
<1>4. CASE r # RunOf(t)
  <2>1. Quieter(r)
    <3>1. node'[r] = node[r]
      BY <1>3, <1>4 DEF WriteRow, TypeOK, RunsOK
    <3> QED
      BY <1>1, <3>1 DEF Quieter, LiveTokens, OpenOf
  <2> QED
    BY <1>1, <1>4, <2>1, ReturnAlone
<1>5. CASE r = RunOf(t)
  <2>1. Call(t).op = "pause"
    BY <1>1, <1>5, NoWaitCall DEF WaitOps
  <2>2. Call(t).op \in TokenOps
    BY <2>1 DEF TokenOps
  <2>3. /\ Tokens(r) = {Here(t)} /\ TaskTokens(timer, r) = {} /\ LiveTokens(cmd, r) = {}
        /\ RowTokens(node[r], r) = {} /\ CallTokens(stack, r) = {Here(t)}
    BY <1>1, <1>5, <2>2, OnlyHere
  <2>4. PICK M, x : M = {<<"row", Call(t).c, Call(t).k>>} /\ x = Here(t)
    OBVIOUS
  <2>5. RowTokens(node'[r], r) \subseteq M
    BY <1>3, <2>3, <2>4, PausedRows
  <2>6. CallTokens(stack', r) \subseteq CallTokens(stack, r) \ {x}
    <3>1. PICK N : /\ \A p \in N : r = RunOf(t) /\ ~Quiet(<<>>)
                   /\ CallTokens(stack', r) \subseteq (CallTokens(stack, r) \ {Here(t)}) \cup N
      BY <1>1, ReturnTokens, OneTogether
    <3> QED
      BY <2>4, <3>1, OneTogether
  <2>7. OpenOf(cmd', r) = {} /\ Sole(M) /\ Sole({}) /\ Once(timer', r)
    BY <1>1, <1>2, <1>5, <2>2, <2>4, NotAtHand DEF Sole, Alone
  <2>8. x \in Tokens(r) /\ CallTokens(stack', r) \cup TaskTokens(timer', r)
          \cup LiveTokens(cmd', r) \cup RowTokens(node'[r], r) \subseteq (Tokens(r) \ {x}) \cup M
    BY <1>1, <2>3, <2>4, <2>5, <2>6
  <2> QED
    BY <2>7, <2>8, Goes
<1> QED
  BY <1>4, <1>5

-----------------------------------------------------------------------------
\* The state of a command is written.
LEMMA CommandState ==
  ASSUME TypeOK, NEW i \in DOMAIN cmd, NEW state, cmd' = [cmd EXCEPT ![i].state = state],
         state \in OpenCommand => cmd[i].state \in OpenCommand
  PROVE  \A r : /\ LiveTokens(cmd', r) \subseteq LiveTokens(cmd, r)
                /\ OpenOf(cmd', r) \subseteq OpenOf(cmd, r)
                /\ state \notin OpenCommand => i \notin OpenOf(cmd', r)
<1>1. \A j \in DOMAIN cmd : cmd[j] \in CommandRow
  BY CommandsParts DEF TypeOK
<1>2. DOMAIN cmd' = DOMAIN cmd
  OBVIOUS
<1>3. \A j \in DOMAIN cmd : j # i => cmd'[j] = cmd[j]
  OBVIOUS
<1>4. cmd'[i].run = cmd[i].run /\ cmd'[i].live = cmd[i].live /\ cmd'[i].state = state
  BY <1>1 DEF CommandRow
<1>5. \A j \in DOMAIN cmd :
        /\ cmd'[j].run = cmd[j].run /\ (cmd'[j].live => cmd[j].live)
        /\ cmd'[j].state \in OpenCommand => cmd[j].state \in OpenCommand
  BY <1>3, <1>4
<1>6. \A r : /\ LiveTokens(cmd', r) \subseteq LiveTokens(cmd, r)
             /\ OpenOf(cmd', r) \subseteq OpenOf(cmd, r)
  BY <1>2, <1>5, CommandTokens
<1>7. state \notin OpenCommand => \A r : i \notin OpenOf(cmd', r)
  BY <1>4 DEF OpenOf
<1> QED
  BY <1>6, <1>7

\* While a command is handed over, it is the one that may be open.
LEMMA AtHand ==
  ASSUME TypeOK, NEW t \in Thread, ~Idle(t), Alone(RunOf(t)), Call(t).op \in HandOps
  PROVE  /\ Call(t).op \in TokenOps /\ OpenOf(cmd, RunOf(t)) \subseteq {Call(t).i}
         /\ Call(t).i \in DOMAIN cmd /\ cmd[Call(t).i].run = RunOf(t)
<1>1. Call(t).op \in TokenOps /\ Call(t).op \in CommandOps
  BY DEF HandOps, TokenOps, CommandOps
<1>2. Here(t) \in Tokens(RunOf(t))
  BY <1>1, HereToken
<1>3. Here(t)[1] = "call" /\ Here(t)[5] = Call(t)
  BY DEF Here
<1>4. \A i : Concerns(Here(t), i) => Call(t).i = i
  <2>1. \A i : <<"cmd", i>>[1] = "cmd"
    OBVIOUS
  <2> QED
    BY <1>3, <2>1 DEF Concerns
<1>5. OpenOf(cmd, RunOf(t)) \subseteq {Call(t).i}
  BY <1>2, <1>4 DEF Alone
<1>6. Call(t).i \in DOMAIN cmd /\ cmd[Call(t).i].run = RunOf(t)
  BY <1>1, CallParts
<1> QED
  BY <1>1, <1>5, <1>6

\* A command that is refused, published, marked dispatched or cancelled.
LEMMA StepMarks ==
  ASSUME TypeOK, NEW r \in Run, Sequential(r), Alone(r), NEW t \in Thread,
         RefuseCommand(t) \/ TopicPublished(t) \/ MarkDispatched(t) \/ CancelCommand(t)
  PROVE  Alone(r)'
<1>1. ~Idle(t) /\ UNCHANGED <<node, timer>> /\ Unpaused
  <2>1. CASE RefuseCommand(t)
    BY <2>1 DEF RefuseCommand, Calls, Unpaused
  <2>2. CASE TopicPublished(t)
    BY <2>2 DEF TopicPublished, Calls, Unpaused
  <2>3. CASE MarkDispatched(t)
    BY <2>3 DEF MarkDispatched, Calls, Unpaused
  <2>4. CASE CancelCommand(t)
    BY <2>4 DEF CancelCommand, Calls, Unpaused
  <2> QED
    BY <2>1, <2>2, <2>3, <2>4
<1>2. ASSUME NEW i \in DOMAIN cmd, NEW state, cmd' = [cmd EXCEPT ![i].state = state],
             state \in OpenCommand => cmd[i].state \in OpenCommand
      PROVE  Quieter(r) /\ (state \notin OpenCommand => i \notin OpenOf(cmd', r))
  BY <1>1, <1>2, CommandState DEF Quieter
<1>3. ASSUME NEW calls, NEW state, Return(t, Snap(t), calls), Call(t).op \in HandOps,
             r = RunOf(t) => OneToken(calls), state \notin OpenCommand,
             cmd' = [cmd EXCEPT ![Call(t).i].state = state]
      PROVE  Alone(r)'
  <2>1. Call(t).op \in CommandOps /\ Call(t).op \in TokenOps
    BY <1>3 DEF HandOps, CommandOps, TokenOps
  <2>2. PICK i \in DOMAIN cmd : i = Call(t).i
    BY <1>1, <2>1, CallParts
  <2>3. Quieter(r) /\ i \notin OpenOf(cmd', r)
    BY <1>2, <1>3, <2>2
  <2>4. r = RunOf(t) => OpenOf(cmd', r) = {}
    BY <1>1, <1>3, <2>2, <2>3, AtHand DEF Quieter
  <2> QED
    BY <1>1, <1>3, <2>1, <2>3, <2>4, ReturnAlone
<1>4. CASE RefuseCommand(t)
  <2>1. PICK call, state : /\ Return(t, Snap(t), <<call>>) /\ Call(t).op \in HandOps
                           /\ cmd' = [cmd EXCEPT ![Call(t).i].state = state]
                           /\ state \notin OpenCommand
    <3>1. "FAILED" \notin OpenCommand
      BY DEF OpenCommand
    <3> QED
      BY <1>4, <3>1 DEF RefuseCommand, Calls, HandOps
  <2>2. OneToken(<<call>>)
    BY OneTogether
  <2> QED
    BY <1>3, <2>1, <2>2
<1>5. CASE TopicPublished(t)
  <2>1. PICK calls, state :
          /\ Return(t, Snap(t), calls) /\ Call(t).op \in HandOps
          /\ cmd' = [cmd EXCEPT ![Call(t).i].state = state]
          /\ state \notin OpenCommand
          /\ calls = EmitResult(RunOf(t), Call(t).k, TRUE) \o <<OnKey("complete", Call(t).k)>>
    <3>1. "SUCCEEDED" \notin OpenCommand
      BY DEF OpenCommand
    <3> QED
      BY <1>5, <3>1 DEF TopicPublished, Calls, HandOps
  <2>2. r = RunOf(t) => OneToken(calls)
    BY <2>1, FollowsOne, OneTogether
  <2> QED
    BY <1>3, <2>1, <2>2
<1>6. CASE MarkDispatched(t)
  <2>1. Call(t).op = "mark"
    BY <1>6 DEF MarkDispatched, Calls
  <2>2. Call(t).op \in CommandOps /\ Call(t).op \notin HandOps
    BY <2>1 DEF CommandOps, HandOps
  <2>3. PICK i \in DOMAIN cmd : i = Call(t).i
    BY <1>1, <2>2, CallParts
  <2>4. PICK state : state = IF cmd[i].state = "CREATED" THEN "ACTIVE" ELSE cmd[i].state
    OBVIOUS
  <2>5. cmd' = [cmd EXCEPT ![i].state = state] /\ Skip(t)
    BY <1>6, <2>3, <2>4 DEF MarkDispatched
  <2>6. state \in OpenCommand => cmd[i].state \in OpenCommand
    BY <2>4 DEF OpenCommand
  <2>7. Quieter(r)
    BY <1>2, <2>5, <2>6
  <2> QED
    BY <1>1, <2>2, <2>5, <2>7, SkipAlone
<1>7. CASE CancelCommand(t)
  <2>1. Call(t).op = "cancelCommands"
    BY <1>7 DEF CancelCommand, Calls
  <2>2. Call(t).op \notin TokenOps /\ Call(t).op \notin HandOps
    BY <2>1 DEF TokenOps, HandOps
  <2>3. CASE Skip(t) /\ UNCHANGED cmd
    BY <1>1, <2>2, <2>3, SkipAlone, TablesQuieter
  <2>4. ASSUME NEW i \in Snap(t).commands, cmd' = [cmd EXCEPT ![i].state = "CANCELLED"],
               NEW snap, Return(t, snap, <<Call(t)>>)
        PROVE  Alone(r)'
    <3>1. i \in DOMAIN cmd
      <4>1. Snap(t) \in Snapshot(RunOf(t), Owner, Attempts)
        BY <1>1, CallParts
      <4>2. Snap(t).commands \subseteq DOMAIN Owner
        BY <4>1 DEF Snapshot
      <4> QED
        BY <2>4, <4>2 DEF Owner
    <3>2. Quieter(r)
      <4>1. "CANCELLED" \notin OpenCommand
        BY DEF OpenCommand
      <4> QED
        BY <1>2, <2>4, <3>1, <4>1
    <3>3. OneToken(<<Call(t)>>) /\ Quiet(<<Call(t)>>)
      BY <2>2, OneTogether
    <3> QED
      BY <1>1, <2>2, <2>4, <3>2, <3>3, ReturnAlone
  <2> QED
    BY <1>7, <2>3, <2>4 DEF CancelCommand
<1> QED
  BY <1>4, <1>5, <1>6, <1>7

\* A command is created: from here on it is the run's open command.
LEMMA StepDispatches ==
  ASSUME TypeOK, NEW r \in Run, Sequential(r), Alone(r), NEW t \in Thread,
         DispatchCapability(t) \/ DispatchSsh(t) \/ DispatchNavigation(t)
  PROVE  Alone(r)'
<1>1. PICK tries : Calls(t, "dispatch") /\ CreateCommand(t, tries)
  BY DEF DispatchCapability, DispatchSsh, DispatchNavigation, Dispatches
<1>2. /\ ~Idle(t) /\ Call(t).op \in TokenOps /\ Call(t).op \notin HandOps
  BY <1>1 DEF Calls, TokenOps, HandOps
<1>3. PICK snap, call, row :
        /\ Return(t, snap, <<call>>) /\ UNCHANGED timer /\ Unpaused
        /\ cmd' = Append(cmd, row) /\ row.run = RunOf(t) /\ row.live = FALSE
        /\ call.op = "send" /\ call.i = Len(cmd) + 1
  <2>1. PICK snap, call, row :
          /\ snap = WithTries(Snap(t), Call(t).c, Call(t).k, tries)
          /\ call = [OnNode("send", Call(t).c, Call(t).k) EXCEPT !.i = Len(cmd) + 1]
          /\ row = [run |-> RunOf(t), c |-> Call(t).c, k |-> Call(t).k, state |-> "CREATED",
                    live |-> FALSE, fired |-> FALSE]
    OBVIOUS
  <2>2. Return(t, snap, <<call>>) /\ UNCHANGED timer /\ cmd' = Append(cmd, row)
    BY <1>1, <2>1 DEF CreateCommand, WithTries
  <2>3. row.run = RunOf(t) /\ row.live = FALSE /\ call.op = "send" /\ call.i = Len(cmd) + 1
    BY <2>1 DEF OnNode, Op
  <2>4. Unpaused
    <3>1. WriteRow(RunOf(t), Call(t).c, Call(t).k, [state |-> "RUNNING", tries |-> tries])
      BY <1>1 DEF CreateCommand, WriteRow
    <3> QED
      BY <3>1 DEF Unpaused
  <2> QED
    BY <2>2, <2>3, <2>4
<1>4. /\ DOMAIN cmd' = DOMAIN cmd \cup {Len(cmd) + 1}
      /\ \A i \in DOMAIN cmd : cmd'[i] = cmd[i]
      /\ cmd'[Len(cmd) + 1] = row
  <2>1. cmd \in Seq(CommandRow) /\ DOMAIN cmd = 1..Len(cmd) /\ Len(cmd) \in Nat
    BY CommandsParts DEF TypeOK, CommandsOK
  <2> QED
    BY <1>3, <2>1
<1>5. /\ LiveTokens(cmd', r) \subseteq LiveTokens(cmd, r)
      /\ r # RunOf(t) => OpenOf(cmd', r) \subseteq OpenOf(cmd, r)
      /\ OpenOf(cmd', r) \subseteq OpenOf(cmd, r) \cup {Len(cmd) + 1}
  BY <1>3, <1>4 DEF LiveTokens, OpenOf
<1>6. RowTokens(node'[r], r) \subseteq RowTokens(node[r], r)
  BY <1>3, PausedRows
<1>7. CASE r # RunOf(t)
  <2>1. Quieter(r)
    BY <1>5, <1>6, <1>7 DEF Quieter
  <2> QED
    BY <1>2, <1>3, <1>7, <2>1, ReturnAlone
<1>8. CASE r = RunOf(t)
  <2>1. PICK x, O : x = Here(t) /\ O = {Len(cmd) + 1}
    OBVIOUS
  <2>2. PICK N : /\ Sole(N)
                 /\ \A p \in N : p[1] = "call" /\ p[5] \in FramesOf(<<call>>)
                 /\ CallTokens(stack', r) \subseteq (CallTokens(stack, r) \ {x}) \cup N
    BY <1>2, <1>3, <2>1, ReturnTokens, OneTogether
  <2>3. /\ Tokens(r) = {x} /\ TaskTokens(timer, r) = {} /\ LiveTokens(cmd, r) = {}
        /\ RowTokens(node[r], r) = {} /\ CallTokens(stack, r) = {x}
    BY <1>2, <1>8, <2>1, OnlyHere
  <2>4. OpenOf(cmd', r) \subseteq O /\ Sole(O) /\ Once(timer', r)
    BY <1>2, <1>3, <1>5, <1>8, <2>1, NotAtHand DEF Sole, Alone
  <2>5. \A p \in N : \A i \in OpenOf(cmd', r) : Concerns(p, i)
    <3>1. FramesOf(<<call>>) = {call} /\ call.op \in HandOps
      BY <1>3, TupleElements DEF HandOps
    <3> QED
      BY <1>3, <2>1, <2>2, <2>4, <3>1 DEF Concerns
  <2>6. x \in Tokens(r) /\ CallTokens(stack', r) \cup TaskTokens(timer', r)
          \cup LiveTokens(cmd', r) \cup RowTokens(node'[r], r) \subseteq (Tokens(r) \ {x}) \cup N
    BY <1>3, <1>5, <1>6, <2>2, <2>3
  <2> QED
    BY <2>2, <2>4, <2>5, <2>6, Goes
<1> QED
  BY <1>7, <1>8

\* The robot, or the SSH worker, takes it.
LEMMA StepSends ==
  ASSUME TypeOK, NEW r \in Run, Sequential(r), Alone(r), NEW t \in Thread, SendCommand(t)
  PROVE  Alone(r)'
<1> DEFINE i == Call(t).i
<1>1. /\ ~Idle(t) /\ Call(t).op \in HandOps /\ UNCHANGED <<node, timer>>
  BY DEF SendCommand, Calls, HandOps
<1>2. i \in DOMAIN cmd /\ cmd[i].run = RunOf(t) /\ Call(t) \in OpRecord
  BY <1>1, CallParts DEF HandOps, CommandOps
<1>3. PICK calls, live :
        /\ Return(t, Snap(t), calls) /\ cmd' = [cmd EXCEPT ![i].live = live]
        /\ \/ /\ live = FALSE
              /\ \/ calls = <<After(t, "mark"), OnNode("stamp", Call(t).c, Call(t).k),
                              After(t, "hand")>>
                 \/ calls = <<After(t, "mark"), After(t, "published")>>
           \/ calls = <<After(t, "mark")>>
           \/ calls = <<>>
  <2> DEFINE type == TypeOf(RunOf(t), Call(t).k)
             ssh == Calls(t, "send") /\ type = "SSH"
  <2>1. PICK calls, live :
          /\ live = (~ssh /\ type # "TOPIC")
          /\ calls = CASE ssh -> <<After(t, "mark"),
                           OnNode("stamp", Call(t).c, Call(t).k), After(t, "hand")>>
               [] type = "TOPIC" -> <<After(t, "mark"), After(t, "published")>>
               [] type \in {"ROBOT_CAPABILITY", "NAVIGATION"} -> <<After(t, "mark")>>
               [] OTHER -> <<>>
    OBVIOUS
  <2>2. Return(t, Snap(t), calls) /\ cmd' = [cmd EXCEPT ![i].live = live]
    BY <2>1 DEF SendCommand
  <2>3. CASE ssh
    BY <2>1, <2>2, <2>3
  <2>4. CASE ~ssh /\ type = "TOPIC"
    BY <2>1, <2>2, <2>4
  <2>5. CASE ~ssh /\ type # "TOPIC"
    BY <2>1, <2>2, <2>5
  <2> QED
    BY <2>3, <2>4, <2>5
<1>4. /\ After(t, "mark").op \notin TokenOps /\ OnNode("stamp", Call(t).c, Call(t).k).op \notin TokenOps
      /\ After(t, "hand").op \in HandOps /\ After(t, "hand").i = i
      /\ After(t, "published").op \in HandOps /\ After(t, "published").i = i
  BY <1>2 DEF After, OnNode, Op, TokenOps, HandOps, OpRecord
<1>5. /\ OneToken(calls)
      /\ live = FALSE \/ Quiet(calls)
      /\ \A call \in FramesOf(calls) : call.op \in TokenOps => call.op \in HandOps /\ call.i = i
  <2>1. CASE calls = <<After(t, "mark"), OnNode("stamp", Call(t).c, Call(t).k),
                       After(t, "hand")>> /\ live = FALSE
    <3>1. OneToken(calls)
      BY <1>4, <2>1, OneOfFew
    <3>2. FramesOf(calls) = {After(t, "mark"), OnNode("stamp", Call(t).c, Call(t).k),
                             After(t, "hand")}
      <4>1. PICK a, b, c : /\ a = After(t, "mark") /\ c = After(t, "hand")
                           /\ b = OnNode("stamp", Call(t).c, Call(t).k)
        OBVIOUS
      <4>2. FramesOf(<<a, b, c>>) = {a, b, c}
        BY DEF FramesOf
      <4> QED
        BY <2>1, <4>1, <4>2
    <3> QED
      BY <1>4, <2>1, <3>1, <3>2
  <2>2. CASE calls = <<After(t, "mark"), After(t, "published")>> /\ live = FALSE
    <3>1. OneToken(calls)
      BY <1>4, <2>2, OneOfFew
    <3>2. FramesOf(calls) = {After(t, "mark"), After(t, "published")}
      BY <2>2, TupleElements
    <3> QED
      BY <1>4, <2>2, <3>1, <3>2
  <2>3. CASE calls = <<After(t, "mark")>> \/ calls = <<>>
    BY <1>4, <2>3, OneTogether DEF Quiet
  <2> QED
    BY <1>3, <2>1, <2>2, <2>3
<1>6. /\ DOMAIN cmd' = DOMAIN cmd /\ \A j \in DOMAIN cmd : j # i => cmd'[j] = cmd[j]
      /\ cmd'[i].run = cmd[i].run /\ cmd'[i].live = live /\ cmd'[i].state = cmd[i].state
  <2>1. cmd[i] \in CommandRow
    BY <1>2, CommandsParts DEF TypeOK
  <2> QED
    BY <1>2, <1>3, <2>1 DEF CommandRow
<1>7. /\ OpenOf(cmd', r) \subseteq OpenOf(cmd, r)
      /\ r # RunOf(t) \/ live = FALSE => LiveTokens(cmd', r) \subseteq LiveTokens(cmd, r)
      /\ LiveTokens(cmd', r) \subseteq LiveTokens(cmd, r) \cup {<<"cmd", i>>}
  <2>1. \A j \in DOMAIN cmd : cmd'[j].run = cmd[j].run /\ cmd'[j].state = cmd[j].state
    BY <1>6
  <2>2. OpenOf(cmd', r) \subseteq OpenOf(cmd, r)
    BY <1>6, <2>1 DEF OpenOf
  <2>3. \A j \in DOMAIN cmd : cmd'[j].live => cmd[j].live \/ (j = i /\ live # FALSE)
    BY <1>6
  <2> HIDE DEF i
  <2>4. ASSUME NEW p \in LiveTokens(cmd', r)
        PROVE  p \in LiveTokens(cmd, r) \/ (p = <<"cmd", i>> /\ r = RunOf(t) /\ live # FALSE)
    <3>1. PICK j \in DOMAIN cmd' : p = <<"cmd", j>> /\ cmd'[j].run = r /\ cmd'[j].live
      BY <2>4 DEF LiveTokens
    <3>2. j \in DOMAIN cmd /\ cmd[j].run = r
      BY <1>6, <2>1, <3>1
    <3> QED
      BY <1>2, <2>3, <3>1, <3>2 DEF LiveTokens
  <2> QED
    BY <2>2, <2>4
<1>8. CASE r # RunOf(t)
  <2>1. Quieter(r)
    BY <1>1, <1>7, <1>8 DEF Quieter
  <2> QED
    BY <1>1, <1>3, <1>8, <2>1, ReturnAlone
<1>9. CASE r = RunOf(t)
  <2>0. Call(t).op \in TokenOps /\ OpenOf(cmd, r) \subseteq {i}
    BY <1>1, <1>9, AtHand
  <2> HIDE DEF i
  <2>1. PICK x, O : x = Here(t) /\ O = {i}
    OBVIOUS
  <2>2. PICK N : /\ Sole(N)
                 /\ \A p \in N : /\ p[1] = "call" /\ ~Quiet(calls)
                                 /\ p[5] \in FramesOf(calls) /\ p[5].op \in TokenOps
                 /\ CallTokens(stack', r) \subseteq (CallTokens(stack, r) \ {x}) \cup N
    BY <1>1, <1>3, <1>5, <2>1, ReturnTokens
  <2>3. /\ Tokens(r) = {x} /\ TaskTokens(timer, r) = {} /\ LiveTokens(cmd, r) = {}
        /\ RowTokens(node[r], r) = {} /\ CallTokens(stack, r) = {x}
    BY <1>1, <1>9, <2>0, <2>1, OnlyHere
  <2>4. OpenOf(cmd', r) \subseteq O /\ Sole(O) /\ Once(timer', r)
    BY <1>1, <1>7, <2>0, <2>1 DEF Sole, Alone
  <2>5. CASE live = FALSE
    <3>1. \A p \in N : \A j \in OpenOf(cmd', r) : Concerns(p, j)
      BY <1>5, <2>1, <2>2, <2>4 DEF Concerns
    <3>2. x \in Tokens(r) /\ CallTokens(stack', r) \cup TaskTokens(timer', r)
            \cup LiveTokens(cmd', r) \cup RowTokens(node'[r], r) \subseteq (Tokens(r) \ {x}) \cup N
      BY <1>1, <1>7, <2>2, <2>3, <2>5
    <3> QED
      BY <2>2, <2>4, <3>1, <3>2, Goes
  <2>6. CASE live # FALSE
    <3>1. PICK M : M = {<<"cmd", i>>}
      OBVIOUS
    <3>2. N = {} /\ Sole(M)
      BY <1>5, <2>2, <2>6, <3>1 DEF Sole
    <3>3. \A p \in M : \A j \in OpenOf(cmd', r) : Concerns(p, j)
      BY <2>1, <2>4, <3>1 DEF Concerns
    <3>4. x \in Tokens(r) /\ CallTokens(stack', r) \cup TaskTokens(timer', r)
            \cup LiveTokens(cmd', r) \cup RowTokens(node'[r], r) \subseteq (Tokens(r) \ {x}) \cup M
      BY <1>1, <1>7, <2>2, <2>3, <3>1, <3>2
    <3> QED
      BY <2>4, <3>2, <3>3, <3>4, Goes
  <2> QED
    BY <2>5, <2>6
<1> QED
  BY <1>8, <1>9

-----------------------------------------------------------------------------
\* A run that does not exist is nowhere.
LEMMA NoRunYet ==
  ASSUME TypeOK, NEW r \in Run, run[r].state = "NONE"
  PROVE  Tokens(r) = {} /\ OpenOf(cmd, r) = {}
<1>1. node[r] = <<>> /\ Attempts[r] = 0
  <2>1. node[r] = <<>>
    BY DEF TypeOK, RunsOK
  <2> QED
    BY <2>1, EmptySeq, AttemptsIn DEF TypeOK
<1>2. CallTokens(stack, r) = {}
  <2>1. SUFFICES ASSUME NEW p \in CallTokens(stack, r) PROVE FALSE
    OBVIOUS
  <2>2. PICK t \in Thread : \E h, g, call : StackToken(stack[t], r, h, g, call)
    BY <2>1, TokenParts
  <2>3. PICK h, g, call : StackToken(stack[t], r, h, g, call)
    BY <2>2
  <2>4. stack[t] \in Seq(Frames(Owner, Attempts))
    BY StackFrames DEF TypeOK, StacksOK
  <2>5. PICK s : s = stack[t] /\ s \in Seq(Frames(Owner, Attempts))
    BY <2>4
  <2>6. PICK f : f = Nth(s, h)
    OBVIOUS
  <2>7. h \in 1..Len(s) /\ f.run = r /\ ListToken(f.todo, g, call)
    BY <2>3, <2>5, <2>6 DEF StackToken, FrameToken
  <2>8. Len(s) \in Nat /\ DOMAIN s = 1..Len(s) /\ s \in [1..Len(s) -> Frames(Owner, Attempts)]
    BY <2>5, LenProperties
  <2>9. f \in Frames(Owner, Attempts)
    <3>1. Len(s) + 1 - h \in 1..Len(s)
      BY <2>7, <2>8
    <3> QED
      BY <2>6, <2>8, <3>1 DEF Nth
  <2>10. /\ f.snap \in Snapshot(r, Owner, Attempts)
         /\ f.todo \in Seq(CallsOn(r, Len(f.snap.node), Owner, Attempts))
    BY <2>7, <2>9, FrameParts
  <2>11. Len(f.snap.node) \in Nat /\ Len(f.snap.node) <= 0
    BY <1>1, <2>10, SnapshotParts DEF Snapshot
  <2>12. call \in CallsOn(r, Len(f.snap.node), Owner, Attempts)
    <3>1. PICK todo, C : todo = f.todo /\ todo \in Seq(C)
                         /\ C = CallsOn(r, Len(f.snap.node), Owner, Attempts)
      BY <2>10
    <3>2. g \in 1..Len(todo) /\ call = todo[Len(todo) + 1 - g]
      BY <2>7, <3>1 DEF ListToken, Nth
    <3>3. Len(todo) \in Nat /\ todo \in [1..Len(todo) -> C]
      BY <3>1, LenProperties
    <3>4. Len(todo) + 1 - g \in 1..Len(todo)
      BY <3>2, <3>3
    <3> QED
      BY <3>1, <3>2, <3>3, <3>4
  <2>13. call.op \in TokenOps
    BY <2>7 DEF ListToken
  <2>14. call.op \in FreeOps
    BY <2>11, <2>12 DEF CallsOn
  <2>15. call.op = "boot"
    BY <2>13, <2>14 DEF TokenOps, FreeOps
  <2>16. Attempts[r] > 0
    BY <2>12, <2>15 DEF CallsOn
  <2> QED
    BY <1>1, <2>16
<1>3. TaskTokens(timer, r) = {}
  <2>1. \A task \in DOMAIN timer : task.run # r
    BY <1>1, TaskParts
  <2> QED
    BY <2>1 DEF TaskTokens
<1>4. \A i \in DOMAIN cmd : cmd[i].run # r
  <2>1. ASSUME NEW i \in DOMAIN cmd, cmd[i].run = r PROVE FALSE
    <3>1. <<r, cmd[i].c, cmd[i].k>> \in NodeRun(Attempts)
      BY <2>1 DEF TypeOK, CommandsOK
    <3>2. cmd[i].c \in 1..Attempts[r]
      BY <3>1 DEF NodeRun
    <3> QED
      BY <1>1, <3>2
  <2> QED
    BY <2>1
<1>5. LiveTokens(cmd, r) = {} /\ OpenOf(cmd, r) = {}
  BY <1>4 DEF LiveTokens, OpenOf
<1>6. RowTokens(node[r], r) = {}
  BY <1>1, TokenParts
<1> QED
  BY <1>2, <1>3, <1>5, <1>6 DEF Tokens

\* A run that comes into being is where its first call is.
LEMMA Created ==
  ASSUME TypeOK, NEW r \in Run, Alone(r), NEW s \in Run, NEW parent,
         CreateWorkflowRun(s, parent), UNCHANGED <<cmd, timer>>,
         NEW N, Sole(N), r # s => N = {},
         CallTokens(stack', r) \subseteq CallTokens(stack, r) \cup N
  PROVE  Alone(r)'
<1>1. node' = [node EXCEPT ![s] = <<FreshNodes(s)>>] /\ run[s].state = "NONE"
  BY DEF CreateWorkflowRun
<1>2. Once(timer', r) /\ OpenOf(cmd', r) = OpenOf(cmd, r)
  BY DEF Alone, Once, OpenOf
<1>3. CASE r # s
  <2>1. node'[r] = node[r]
    BY <1>1, <1>3
  <2>2. CallTokens(stack', r) \cup TaskTokens(timer', r) \cup LiveTokens(cmd', r)
          \cup RowTokens(node'[r], r) \subseteq Tokens(r)
    BY <1>3, <2>1 DEF Tokens
  <2> QED
    BY <1>2, <2>2, Fades
<1>4. CASE r = s
  <2>1. Tokens(r) = {} /\ OpenOf(cmd, r) = {}
    BY <1>1, <1>4, NoRunYet
  <2>2. RowTokens(node'[r], r) = {}
    <3>1. node'[r] = <<FreshNodes(r)>>
      BY <1>1, <1>4 DEF TypeOK, RunsOK
    <3>2. \A k \in Key(r) : FreshNodes(r)[k].state = "PENDING"
      BY DEF FreshNodes
    <3>3. PICK rows : rows = <<FreshNodes(r)>>
      OBVIOUS
    <3>4. \A c \in DOMAIN rows, k \in Key(r) : rows[c][k].state # "PAUSED"
      BY <3>2, <3>3
    <3>5. RowTokens(rows, r) = {}
      BY <3>4, TokenParts
    <3> QED
      BY <3>1, <3>3, <3>5
  <2>3. TaskTokens(timer', r) \cup LiveTokens(cmd', r) \cup CallTokens(stack, r) = {}
    BY <2>1 DEF Tokens
  <2>4. Tokens(r)' \subseteq N
    BY <2>2, <2>3, TokensAfter
  <2> QED
    BY <1>2, <2>1, <2>4, TokensAfter DEF Sole
<1> QED
  BY <1>3, <1>4

\* An event starts a run.
LEMMA StepStarts ==
  ASSUME TypeOK, NEW r \in Run, Sequential(r), Alone(r), NEW t \in Thread, StartByEvent(t)
  PROVE  Alone(r)'
<1>1. ~Idle(t) /\ Call(t).op \notin HandOps /\ UNCHANGED <<cmd, timer>>
  BY DEF StartByEvent, Calls, HandOps
<1>2. CASE Skip(t) /\ UNCHANGED node
  BY <1>1, <1>2, SkipAlone, TablesQuieter DEF Unpaused
<1>3. ASSUME NEW s \in Run, CreateWorkflowRun(s, NoParent), NEW f, f.run = s,
             f.todo = <<Op("boot")>>, Enter(t, f)
      PROVE  Alone(r)'
  <2>1. OneToken(f.todo)
    BY <1>3, OneTogether
  <2>2. PICK N : /\ Sole(N) /\ \A p \in N : f.run = r
                 /\ CallTokens(stack', r) \subseteq (CallTokens(stack, r) \ {Here(t)}) \cup N
    BY <1>1, <1>3, <2>1, EnterTokens
  <2>3. (r # s => N = {}) /\ CallTokens(stack', r) \subseteq CallTokens(stack, r) \cup N
    BY <1>3, <2>2
  <2> QED
    BY <1>1, <1>3, <2>2, <2>3, Created
<1>4. ASSUME NEW s \in Run, CreateWorkflowRun(s, NoParent),
             Enter(t, Frame(s, Load(s), <<Op("boot")>>))
      PROVE  Alone(r)'
  <2>1. PICK f : f = Frame(s, Load(s), <<Op("boot")>>)
    OBVIOUS
  <2>2. f.run = s /\ f.todo = <<Op("boot")>>
    BY <2>1 DEF Frame
  <2> QED
    BY <1>3, <1>4, <2>1, <2>2
<1> QED
  BY <1>2, <1>4 DEF StartByEvent

\* The end of a child run enters the run that waits for it.
LEMMA StepNotifies ==
  ASSUME TypeOK, NEW r \in Run, Alone(r), NEW t \in Thread, Notify(t)
  PROVE  Alone(r)'
<1>1. ~Idle(t) /\ Call(t).op \notin HandOps /\ UNCHANGED <<cmd, timer, node>> /\ Unpaused
  BY DEF Notify, Calls, HandOps, db, Unpaused
<1>2. CASE Skip(t)
  BY <1>1, <1>2, SkipAlone, TablesQuieter
<1>3. ASSUME NEW f, NEW call, f.todo = <<call>>, call.op = "settle", Enter(t, f)
      PROVE  Alone(r)'
  <2>1. OneToken(f.todo) /\ Quiet(f.todo)
    <3>1. call.op \notin TokenOps
      BY <1>3 DEF TokenOps
    <3> QED
      BY <1>3, <3>1, OneTogether
  <2>2. PICK N : /\ \A p \in N : ~Quiet(f.todo)
                 /\ CallTokens(stack', r) \subseteq (CallTokens(stack, r) \ {Here(t)}) \cup N
    BY <1>1, <1>3, <2>1, EnterTokens
  <2>3. CallTokens(stack', r) \cup TaskTokens(timer', r) \cup LiveTokens(cmd', r)
          \cup RowTokens(node'[r], r) \subseteq Tokens(r)
    BY <1>1, <2>1, <2>2 DEF Tokens
  <2> QED
    BY <1>1, <2>3, Fades DEF Alone, Once
<1>4. ASSUME ~Skip(t) PROVE Alone(r)'
  <2> DEFINE up == run[RunOf(t)].parent
  <2>1. PICK f, call : /\ call = WithOutcome(OnNode("settle", up[2], up[3]), Call(t).ok)
                       /\ f = Frame(up[1], Load(up[1]), <<call>>)
    OBVIOUS
  <2>2. f.todo = <<call>> /\ call.op = "settle" /\ Enter(t, f)
    BY <1>4, <2>1 DEF Notify, Frame, WithOutcome, OnNode, Op
  <2> QED
    BY <1>3, <2>2
<1> QED
  BY <1>2, <1>4

\* A subflow belongs to a run that waits, and its own run is new.
LEMMA StepSpawns ==
  ASSUME TypeOK, HandlersSuit, NEW r \in Run, Sequential(r), Alone(r), NEW t \in Thread,
         ExecuteSubflow(t) \/ SpawnChild(t)
  PROVE  Alone(r)'
<1>1. /\ ~Idle(t) /\ Call(t).op \in {"subflow", "spawn"} /\ UNCHANGED <<cmd, timer>>
  BY DEF ExecuteSubflow, SpawnChild, Calls
<1>2. Call(t).op \notin HandOps /\ r # RunOf(t)
  BY <1>1, NoWaitCall DEF HandOps, WaitOps
<1>3. CASE ExecuteSubflow(t)
  <2>1. PICK snap, calls : Return(t, snap, calls)
    BY <1>3 DEF ExecuteSubflow
  <2>2. Unpaused
    BY <1>3 DEF ExecuteSubflow, Unpaused
  <2> QED
    BY <1>1, <1>2, <2>1, <2>2, PlainAlone DEF Carries
<1>4. CASE (\E calls : Return(t, Snap(t), calls)) /\ UNCHANGED node
  BY <1>1, <1>2, <1>4, PlainAlone DEF Carries, Unpaused
<1>5. ASSUME NEW s \in Run, NEW parent, CreateWorkflowRun(s, parent), NEW f, NEW g,
             f.run = RunOf(t), g.run = s, g.todo = <<Op("boot")>>,
             SetStack(t, <<f, g>> \o Push(Caller(t), Tail(stack[t])))
      PROVE  Alone(r)'
  <2>1. PICK below, x, w : /\ below = Push(Caller(t), Tail(stack[t])) /\ x = Here(t)
                           /\ w = <<f, g>> \o below
    OBVIOUS
  <2>2. PICK S : /\ below \in Seq(S)
                 /\ \A h, n, call : StackToken(below, r, h, n, call) =>
                      StackToken(stack[t], r, h, n, call) /\ <<"call", t, h, n, call>> # x
    BY <1>1, <2>1, CallerPlaces
  <2>3. PICK T : <<g>> \o below \in Seq(T)
    <3>1. below \in Seq(S \cup {g}) /\ <<g>> \in Seq(S \cup {g})
      BY <2>2, SeqMonotonic
    <3> QED
      BY <3>1, ConcatProperties
  <2>4. w = <<f>> \o (<<g>> \o below)
    <3>1. PICK U : below \in Seq(U) /\ <<f>> \in Seq(U) /\ <<g>> \in Seq(U)
      <4>1. below \in Seq(S \cup {f, g}) /\ <<f>> \in Seq(S \cup {f, g})
            /\ <<g>> \in Seq(S \cup {f, g})
        BY <2>2, SeqMonotonic
      <4> QED
        BY <4>1
    <3>2. <<f, g>> = <<f>> \o <<g>>
      BY TwoTogether
    <3> QED
      BY <2>1, <3>1, <3>2, ConcatAssociative
  <2>5. OneToken(g.todo)
    BY <1>5, OneTogether
  <2>6. PICK N : /\ Sole(N) /\ \A p \in N : g.run = r
                 /\ \A n, call : FrameToken(g, r, n, call) =>
                      <<"call", t, Len(below) + 1, n, call>> \in N
    BY <2>5, FramePlaces
  <2>7. \A h, n, call : StackToken(w, r, h, n, call) <=>
          StackToken(<<g>> \o below, r, h, n, call)
          \/ (h = Len(<<g>> \o below) + 1 /\ FrameToken(f, r, n, call))
    BY <2>3, <2>4, TopTogether
  <2>8. \A h, n, call : StackToken(<<g>> \o below, r, h, n, call) <=>
          StackToken(below, r, h, n, call) \/ (h = Len(below) + 1 /\ FrameToken(g, r, n, call))
    BY <2>2, TopTogether
  <2>9. \A n, call : ~FrameToken(f, r, n, call)
    BY <1>2, <1>5 DEF FrameToken
  <2>10. Moved(t, w, r, x, N)
    BY <2>2, <2>6, <2>7, <2>8, <2>9 DEF Moved
  <2>11. stack' = [stack EXCEPT ![t] = w] /\ x[2] = t
    BY <1>5, <2>1 DEF SetStack, Here
  <2>12. CallTokens(stack', r) \subseteq (CallTokens(stack, r) \ {x}) \cup N
    BY <2>10, <2>11, StackMoved
  <2>13. (r # s => N = {}) /\ CallTokens(stack', r) \subseteq CallTokens(stack, r) \cup N
    BY <1>5, <2>6, <2>12
  <2> QED
    BY <1>1, <1>5, <2>6, <2>13, Created
<1>6. ASSUME NEW s \in Run, CreateWorkflowRun(s, <<RunOf(t), Call(t).c, Call(t).k>>),
             SetStack(t, <<Frame(RunOf(t), Snap(t), <<OnNode("link", Call(t).c, Call(t).k)>>),
                           Frame(s, Load(s), <<Op("boot")>>)>> \o Push(Caller(t), Tail(stack[t])))
      PROVE  Alone(r)'
  <2>1. PICK f, g, parent :
          /\ f = Frame(RunOf(t), Snap(t), <<OnNode("link", Call(t).c, Call(t).k)>>)
          /\ g = Frame(s, Load(s), <<Op("boot")>>)
          /\ parent = <<RunOf(t), Call(t).c, Call(t).k>>
    OBVIOUS
  <2>2. f.run = RunOf(t) /\ g.run = s /\ g.todo = <<Op("boot")>>
    BY <2>1 DEF Frame
  <2> QED
    BY <1>5, <1>6, <2>1, <2>2
<1>7. CASE SpawnChild(t)
  <2>1. Graph[RunOf(t)].node[Call(t).k].calls \subseteq Run
    BY <1>1, <1>7, CallParts, NodeParts DEF NodeAttributes, SpawnChild, Calls, RowOps
  <2> QED
    BY <1>4, <1>6, <1>7, <2>1 DEF SpawnChild
<1> QED
  BY <1>3, <1>7

\* An injected event completes nodes that wait for it, and no others.
LEMMA StepWakes ==
  ASSUME TypeOK, HandlersSuit, NEW r \in Run, Sequential(r), Alone(r), NEW t \in Thread,
         WakeRun(t)
  PROVE  Alone(r)'
<1>1. ~Idle(t) /\ Call(t).op \notin HandOps /\ UNCHANGED <<cmd, timer, node>> /\ Unpaused
  BY DEF WakeRun, Calls, HandOps, db, Unpaused
<1>2. CASE Skip(t)
  BY <1>1, <1>2, SkipAlone, TablesQuieter
<1>3. ASSUME NEW n \in Snap(t).waiting
      PROVE  n[1] # r
  <2>1. Snap(t) \in Snapshot(RunOf(t), Owner, Attempts) /\ CopySuits(Snap(t))
    BY <1>1, CallParts, TopSuits DEF HandlersSuit
  <2>2. n \in NodeRun(Attempts) /\ Waits(n[1], n[3])
    BY <1>3, <2>1 DEF Snapshot, CopySuits
  <2>3. n[3] \in Key(n[1])
    BY <2>2 DEF NodeRun
  <2> QED
    BY <2>2, <2>3 DEF Sequential
<1>4. ASSUME NEW left, left.run = RunOf(t), left.todo = Top(t).todo, NEW above,
             above = <<>> \/ \E f : above = <<f>> /\ f.run # r,
             SetStack(t, above \o <<left>> \o Tail(stack[t]))
      PROVE  Alone(r)'
  <2>1. PICK s, below, w, x, N :
          /\ s = stack[t] /\ below = Tail(s) /\ w = above \o <<left>> \o below
          /\ x = <<0, t>> /\ N = {}
    OBVIOUS
  <2>2. PICK S : s \in Seq(S) /\ s # <<>>
    BY <1>1, <2>1, StackFrames DEF TypeOK, StacksOK, Idle
  <2>3. PICK top : top = Head(s) /\ s = <<top>> \o below /\ below \in Seq(S)
    <3>1. Tail(s) \in Seq(S) /\ s = <<Head(s)>> \o Tail(s)
      BY <2>2
    <3> QED
      BY <2>1, <3>1
  <2>4. top.run = left.run /\ top.todo = left.todo
    BY <1>4, <2>1, <2>3 DEF RunOf, Top
  <2>5. PICK u : u = <<left>> \o below
    OBVIOUS
  <2>6. PICK T : u \in Seq(T)
    <3>1. below \in Seq(S \cup {left}) /\ <<left>> \in Seq(S \cup {left})
      BY <2>3, SeqMonotonic
    <3> QED
      BY <2>5, <3>1, ConcatProperties
  <2>7. \A h, g, call : StackToken(u, r, h, g, call) <=> StackToken(s, r, h, g, call)
    <3>1. \A h, g, call : StackToken(u, r, h, g, call) <=>
            StackToken(below, r, h, g, call) \/ (h = Len(below) + 1 /\ FrameToken(left, r, g, call))
      BY <2>3, <2>5, TopTogether
    <3>2. \A h, g, call : StackToken(s, r, h, g, call) <=>
            StackToken(below, r, h, g, call) \/ (h = Len(below) + 1 /\ FrameToken(top, r, g, call))
      BY <2>3, TopTogether
    <3> QED
      BY <2>4, <3>1, <3>2 DEF FrameToken
  <2>8. \A h, g, call : StackToken(w, r, h, g, call) => StackToken(u, r, h, g, call)
    <3>1. CASE above = <<>>
      <4>1. w = u
        BY <2>1, <2>3, <2>5, <2>6, <3>1
      <4> QED
        BY <4>1
    <3>2. CASE \E f : above = <<f>> /\ f.run # r
      <4>1. PICK f : above = <<f>> /\ f.run # r
        BY <3>2
      <4>2. w = <<f>> \o u
        BY <2>1, <2>3, <2>5, <4>1
      <4>3. \A h, g, call : StackToken(w, r, h, g, call) <=>
              StackToken(u, r, h, g, call) \/ (h = Len(u) + 1 /\ FrameToken(f, r, g, call))
        BY <2>6, <4>2, TopTogether
      <4> QED
        BY <4>1, <4>3 DEF FrameToken
    <3> QED
      BY <1>4, <3>1, <3>2
  <2>9. \A h, g, call : <<"call", t, h, g, call>> # x
    BY <2>1
  <2>10. Moved(t, w, r, x, N)
    BY <2>1, <2>7, <2>8, <2>9 DEF Moved
  <2>11. stack' = [stack EXCEPT ![t] = w] /\ x[2] = t
    BY <1>4, <2>1 DEF SetStack
  <2>12. CallTokens(stack', r) \subseteq (CallTokens(stack, r) \ {x}) \cup N
    BY <2>10, <2>11, StackMoved
  <2>13. CallTokens(stack', r) \cup TaskTokens(timer', r) \cup LiveTokens(cmd', r)
          \cup RowTokens(node'[r], r) \subseteq Tokens(r)
    BY <1>1, <2>1, <2>12 DEF Tokens
  <2> QED
    BY <1>1, <2>13, Fades DEF Alone, Once
<1>5. ASSUME NEW n \in Snap(t).waiting, NEW left,
             left = Frame(RunOf(t), [Snap(t) EXCEPT !.waiting = @ \ {n}], Top(t).todo),
             NEW above,
             above = IF run[n[1]].state = "RUNNING"
                       THEN <<Frame(n[1], Load(n[1]), <<OnKey("complete", n[3])>>)>>
                       ELSE <<>>,
             SetStack(t, above \o <<left>> \o Tail(stack[t]))
      PROVE  Alone(r)'
  <2>1. left.run = RunOf(t) /\ left.todo = Top(t).todo
    BY <1>5 DEF Frame
  <2>2. above = <<>> \/ \E f : above = <<f>> /\ f.run # r
    <3>1. n[1] # r
      BY <1>3, <1>5
    <3>2. PICK f : f = Frame(n[1], Load(n[1]), <<OnKey("complete", n[3])>>)
      OBVIOUS
    <3>3. f.run # r
      BY <3>1, <3>2 DEF Frame
    <3> QED
      BY <1>5, <3>2, <3>3
  <2> QED
    BY <1>4, <1>5, <2>1, <2>2
<1>6. ASSUME NEW n \in Snap(t).waiting,
             SetStack(t, (IF run[n[1]].state = "RUNNING"
                            THEN <<Frame(n[1], Load(n[1]), <<OnKey("complete", n[3])>>)>>
                            ELSE <<>>)
                         \o <<Frame(RunOf(t), [Snap(t) EXCEPT !.waiting = @ \ {n}], Top(t).todo)>>
                         \o Tail(stack[t]))
      PROVE  Alone(r)'
  <2>1. PICK left, above :
             /\ left = Frame(RunOf(t), [Snap(t) EXCEPT !.waiting = @ \ {n}], Top(t).todo)
             /\ above = IF run[n[1]].state = "RUNNING"
                          THEN <<Frame(n[1], Load(n[1]), <<OnKey("complete", n[3])>>)>>
                          ELSE <<>>
    OBVIOUS
  <2>2. SetStack(t, above \o <<left>> \o Tail(stack[t]))
    BY <1>6, <2>1
  <2> QED
    BY <1>5, <2>1, <2>2
<1> QED
  BY <1>2, <1>6 DEF WakeRun

-----------------------------------------------------------------------------
\* What firing a task does to the tasks of a run.
LEMMA TaskGone ==
  ASSUME NEW r, Once(timer, r), NEW task \in DOMAIN timer, timer' = BagRemove(timer, task)
  PROVE  /\ TaskTokens(timer', r) \subseteq TaskTokens(timer, r) /\ Once(timer', r)
         /\ task.run = r => /\ <<"task", task>> \in TaskTokens(timer, r)
                            /\ <<"task", task>> \notin TaskTokens(timer', r)
<1>1. CASE task.run = r
  <2>1. timer[task] = 1
    BY <1>1 DEF Once
  <2>2. timer' = [x \in DOMAIN timer \ {task} |-> timer[x]]
    BY <2>1 DEF BagRemove
  <2> QED
    BY <1>1, <2>2 DEF TaskTokens, Once
<1>2. CASE task.run # r
  <2>1. DOMAIN timer' \subseteq DOMAIN timer
    BY TaskRemoved
  <2>2. \A x \in DOMAIN timer' : x # task => timer'[x] = timer[x]
    BY DEF BagRemove
  <2> QED
    BY <1>2, <2>1, <2>2 DEF TaskTokens, Once
<1> QED
  BY <1>1, <1>2

\* A timer task takes its run up again, or gives up.
LEMMA FireAlone ==
  ASSUME TypeOK, NEW r \in Run, Alone(r), NEW task \in DOMAIN timer,
         timer' = BagRemove(timer, task), UNCHANGED cmd,
         RowTokens(node'[r], r) \subseteq RowTokens(node[r], r),
         \/ UNCHANGED stack
         \/ \E t \in Thread : \E f : /\ Idle(t) /\ stack' = [stack EXCEPT ![t] = <<f>>]
                                     /\ f.run = task.run /\ OneToken(f.todo)
  PROVE  Alone(r)'
<1>1. /\ TaskTokens(timer', r) \subseteq TaskTokens(timer, r) /\ Once(timer', r)
      /\ task.run = r => /\ <<"task", task>> \in TaskTokens(timer, r)
                         /\ <<"task", task>> \notin TaskTokens(timer', r)
  BY TaskGone DEF Alone
<1>2. PICK N : /\ Sole(N) /\ \A p \in N : task.run = r
               /\ CallTokens(stack', r) \subseteq CallTokens(stack, r) \cup N
  <2>1. CASE UNCHANGED stack
    <3>1. CallTokens(stack', r) = CallTokens(stack, r)
      BY <2>1
    <3>2. Sole({}) /\ CallTokens(stack', r) \subseteq CallTokens(stack, r) \cup {}
      BY <3>1 DEF Sole
    <3> QED
      BY <3>2
  <2>2. CASE \E t \in Thread : \E f : /\ Idle(t) /\ stack' = [stack EXCEPT ![t] = <<f>>]
                                      /\ f.run = task.run /\ OneToken(f.todo)
    BY <2>2, StartTokens
  <2> QED
    BY <2>1, <2>2
<1>3. OpenOf(cmd', r) = OpenOf(cmd, r) /\ LiveTokens(cmd', r) = LiveTokens(cmd, r)
  BY DEF OpenOf
<1>4. CASE task.run # r
  <2>1. CallTokens(stack', r) \cup TaskTokens(timer', r) \cup LiveTokens(cmd', r)
          \cup RowTokens(node'[r], r) \subseteq Tokens(r)
    BY <1>1, <1>2, <1>3, <1>4 DEF Tokens
  <2> QED
    BY <1>1, <1>3, <2>1, Fades
<1>5. CASE task.run = r
  <2>1. PICK x : x = <<"task", task>>
    OBVIOUS
  <2>2. x \in Tokens(r) /\ x[1] = "task"
    BY <1>1, <1>5, <2>1 DEF Tokens
  <2>3. OpenOf(cmd, r) = {}
    <3>1. \A i : <<"cmd", i>>[1] = "cmd"
      OBVIOUS
    <3> QED
      BY <2>2, <3>1 DEF Alone, Concerns
  <2>4. x \notin CallTokens(stack, r) \cup LiveTokens(cmd, r) \cup RowTokens(node[r], r)
    BY <2>2, TokenKinds
  <2>5. CallTokens(stack', r) \cup TaskTokens(timer', r) \cup LiveTokens(cmd', r)
          \cup RowTokens(node'[r], r) \subseteq (Tokens(r) \ {x}) \cup N
    BY <1>1, <1>2, <1>3, <1>5, <2>1, <2>4 DEF Tokens
  <2>6. Sole({}) /\ OpenOf(cmd', r) = {}
    BY <1>3, <2>3 DEF Sole
  <2> QED
    BY <1>1, <1>2, <2>2, <2>5, <2>6, Goes
<1> QED
  BY <1>4, <1>5

\* The end of a DELAY, the next attempt and the next cycle.
LEMMA StepFires ==
  ASSUME TypeOK, NEW r \in Run, Alone(r), NEW task \in DOMAIN timer, Fire(task)
  PROVE  Alone(r)'
<1>1. timer' = BagRemove(timer, task) /\ UNCHANGED cmd /\ Idle(Timer) /\ Timer \in Thread
  BY DEF Fire, FireDelay, FireRetry, FireCycle, FireTask, Thread
<1>2. ASSUME NEW call, stack' = [stack EXCEPT ![Timer] =
                                   <<Frame(task.run, Load(task.run), <<call>>)>>]
      PROVE  \E t \in Thread : \E f : /\ Idle(t) /\ stack' = [stack EXCEPT ![t] = <<f>>]
                                      /\ f.run = task.run /\ OneToken(f.todo)
  <2>1. PICK f : f = Frame(task.run, Load(task.run), <<call>>)
    OBVIOUS
  <2>2. f.run = task.run /\ OneToken(f.todo)
    BY <2>1, OneTogether DEF Frame
  <2> QED
    BY <1>1, <1>2, <2>1, <2>2
<1>3. CASE FireDelay(task) \/ FireRetry(task)
  <2>1. /\ UNCHANGED node
        /\ UNCHANGED stack \/ \E call : stack' = [stack EXCEPT ![Timer] =
                                          <<Frame(task.run, Load(task.run), <<call>>)>>]
    BY <1>3 DEF FireDelay, FireRetry
  <2> QED
    BY <1>1, <1>2, <2>1, FireAlone
<1>4. CASE FireCycle(task)
  <2>1. UNCHANGED stack \/ \E call : stack' = [stack EXCEPT ![Timer] =
                                        <<Frame(task.run, Load(task.run), <<call>>)>>]
    BY <1>4 DEF FireCycle
  <2>2. RowTokens(node'[r], r) \subseteq RowTokens(node[r], r)
    <3>1. CASE node'[r] = node[r]
      BY <3>1
    <3>2. CASE node'[r] # node[r]
      <4>1. DOMAIN node = Run /\ node[r] \in Seq([Key(r) -> NodeRow])
        BY DEF TypeOK, RunsOK, NodeRows
      <4>2. node' = [node EXCEPT ![task.run] = Append(node[task.run], FreshNodes(task.run))]
        BY <1>4, <3>2 DEF FireCycle
      <4>3. node'[r] = Append(node[r], FreshNodes(r))
        BY <3>2, <4>1, <4>2
      <4>4. PICK rows, fresh : rows = node[r] /\ fresh = FreshNodes(r)
        OBVIOUS
      <4>5. /\ DOMAIN Append(rows, fresh) = DOMAIN rows \cup {Len(rows) + 1}
            /\ \A c \in DOMAIN rows : Append(rows, fresh)[c] = rows[c]
            /\ Append(rows, fresh)[Len(rows) + 1] = fresh
        <5>1. rows \in Seq([Key(r) -> NodeRow]) /\ DOMAIN rows = 1..Len(rows) /\ Len(rows) \in Nat
          BY <4>1, <4>4, LenProperties
        <5> QED
          BY <5>1
      <4>6. \A k \in Key(r) : fresh[k].state # "PAUSED"
        BY <4>4 DEF FreshNodes
      <4>7. PICK more : more = Append(rows, fresh)
        OBVIOUS
      <4>8. ASSUME NEW c \in DOMAIN more, NEW k \in Key(r), more[c][k].state = "PAUSED"
            PROVE  c \in DOMAIN rows /\ rows[c][k].state = "PAUSED"
        BY <4>5, <4>6, <4>7, <4>8
      <4>9. RowTokens(more, r) \subseteq RowTokens(rows, r)
        <5>1. ASSUME NEW p \in RowTokens(more, r) PROVE p \in RowTokens(rows, r)
          BY <4>8, <5>1, TokenParts
        <5> QED
          BY <5>1
      <4> QED
        BY <4>3, <4>4, <4>7, <4>9
    <3> QED
      BY <3>1, <3>2
  <2> QED
    BY <1>1, <1>2, <2>1, <2>2, FireAlone
<1> QED
  BY <1>3, <1>4 DEF Fire

-----------------------------------------------------------------------------
\* A thread takes up a request that carries no run on.
LEMMA AsksAlone ==
  ASSUME TypeOK, NEW r \in Run, Alone(r), NEW t \in Thread, Idle(t),
         NEW f, stack' = [stack EXCEPT ![t] = <<f>>], f.run # r \/ Quiet(f.todo),
         UNCHANGED <<timer, node>>,
         OpenOf(cmd', r) \subseteq OpenOf(cmd, r), LiveTokens(cmd', r) \subseteq LiveTokens(cmd, r)
  PROVE  Alone(r)'
<1>1. f.run = r => OneToken(f.todo)
  BY OneTogether
<1>2. PICK N : /\ \A p \in N : f.run = r /\ ~Quiet(f.todo)
               /\ CallTokens(stack', r) \subseteq CallTokens(stack, r) \cup N
  BY <1>1, StartTokens
<1>3. CallTokens(stack', r) \cup TaskTokens(timer', r) \cup LiveTokens(cmd', r)
        \cup RowTokens(node'[r], r) \subseteq Tokens(r)
  BY <1>2 DEF Tokens
<1> QED
  BY <1>3, Fades DEF Alone, Once

\* The robot's answer: the command is done, and the run goes on from there.
LEMMA StepAnswers ==
  ASSUME TypeOK, NEW r \in Run, Alone(r), NEW i \in DOMAIN cmd, Result(i)
  PROVE  Alone(r)'
<1>1. PICK state, call :
        /\ Idle(Callback) /\ cmd[i].live /\ UNCHANGED <<node, timer>>
        /\ cmd' = [cmd EXCEPT ![i].live = FALSE, ![i].state = state]
        /\ stack' = [stack EXCEPT ![Callback] =
             <<Frame(cmd[i].run, Load(cmd[i].run), <<call>>)>>]
        /\ state \notin OpenCommand
  <2>1. PICK ok : CommandResult(i, ok)
    BY DEF Result
  <2>2. PICK state, call : /\ state = IF ok THEN "SUCCEEDED" ELSE "FAILED"
                           /\ call = WithOutcome(OnIndex("result", i), ok)
    OBVIOUS
  <2>3. state \notin OpenCommand
    BY <2>2 DEF OpenCommand
  <2> QED
    BY <2>1, <2>2, <2>3 DEF CommandResult
<1>2. /\ DOMAIN cmd' = DOMAIN cmd /\ \A j \in DOMAIN cmd : j # i => cmd'[j] = cmd[j]
      /\ cmd'[i].run = cmd[i].run /\ cmd'[i].live = FALSE /\ cmd'[i].state = state
  <2>1. cmd[i] \in CommandRow
    BY CommandsParts DEF TypeOK
  <2>2. cmd' = [cmd EXCEPT ![i] = [cmd[i] EXCEPT !.live = FALSE, !.state = state]]
    BY <1>1
  <2> QED
    BY <2>1, <2>2 DEF CommandRow
<1>3. /\ OpenOf(cmd', r) \subseteq OpenOf(cmd, r) \ {i}
      /\ LiveTokens(cmd', r) \subseteq LiveTokens(cmd, r) \ {<<"cmd", i>>}
  <2>1. OpenOf(cmd', r) \subseteq OpenOf(cmd, r) \ {i}
    BY <1>1, <1>2 DEF OpenOf
  <2>2. ASSUME NEW p \in LiveTokens(cmd', r)
        PROVE  p \in LiveTokens(cmd, r) \ {<<"cmd", i>>}
    <3>1. PICK j \in DOMAIN cmd : p = <<"cmd", j>> /\ cmd'[j].run = r /\ cmd'[j].live
      BY <1>2, <2>2 DEF LiveTokens
    <3>2. j # i
      BY <1>2, <3>1
    <3>3. p[2] = j /\ <<"cmd", i>>[2] = i
      BY <3>1
    <3>4. p # <<"cmd", i>>
      BY <3>2, <3>3
    <3> QED
      BY <1>2, <3>1, <3>2, <3>4 DEF LiveTokens
  <2> QED
    BY <2>1, <2>2
<1>4. PICK f : f = Frame(cmd[i].run, Load(cmd[i].run), <<call>>)
  OBVIOUS
<1>5. f.run = cmd[i].run /\ OneToken(f.todo) /\ Callback \in Thread
  BY <1>4, OneTogether DEF Frame, Thread
<1>6. CASE cmd[i].run # r
  BY <1>1, <1>3, <1>4, <1>5, <1>6, AsksAlone
<1>7. CASE cmd[i].run = r
  <2>1. PICK x : x = <<"cmd", i>>
    OBVIOUS
  <2>2. x \in LiveTokens(cmd, r) /\ x \in Tokens(r) /\ x[1] = "cmd"
    BY <1>1, <1>7, <2>1 DEF LiveTokens, Tokens
  <2>3. OpenOf(cmd', r) = {}
    <3>1. ASSUME NEW j \in OpenOf(cmd, r) PROVE j = i
      <4>1. Concerns(x, j)
        BY <2>2, <3>1 DEF Alone
      <4>2. x = <<"cmd", j>>
        BY <2>2, <4>1 DEF Concerns
      <4> QED
        BY <2>1, <4>2
    <3> QED
      BY <1>3, <3>1
  <2>4. PICK N : /\ Sole(N) /\ CallTokens(stack', r) \subseteq CallTokens(stack, r) \cup N
    <3>1. PICK t : t = Callback
      OBVIOUS
    <3>2. /\ t \in Thread /\ Idle(t) /\ stack' = [stack EXCEPT ![t] = <<f>>]
          /\ f.run = r => OneToken(f.todo)
      BY <1>1, <1>4, <1>5, <3>1
    <3> QED
      BY <3>2, StartTokens
  <2>5. x \notin CallTokens(stack, r) \cup TaskTokens(timer, r) \cup RowTokens(node[r], r)
    BY <2>2, TokenKinds
  <2>6. CallTokens(stack', r) \cup TaskTokens(timer', r) \cup LiveTokens(cmd', r)
          \cup RowTokens(node'[r], r) \subseteq (Tokens(r) \ {x}) \cup N
    <3>1. TaskTokens(timer', r) = TaskTokens(timer, r)
          /\ RowTokens(node'[r], r) = RowTokens(node[r], r)
      BY <1>1
    <3>2. LiveTokens(cmd', r) \subseteq LiveTokens(cmd, r) \ {x}
      BY <1>3, <2>1
    <3> QED
      BY <2>4, <2>5, <3>1, <3>2 DEF Tokens
  <2>7. Once(timer', r) /\ Sole({})
    BY <1>1 DEF Alone, Sole
  <2> QED
    BY <2>2, <2>3, <2>4, <2>6, <2>7, Goes
<1> QED
  BY <1>6, <1>7

\* Feedback fires event edges, which a sequential run does not have.
LEMMA StepFeedsBack ==
  ASSUME TypeOK, NEW r \in Run, Sequential(r), Alone(r), NEW i \in DOMAIN cmd,
         CommandFeedback(i)
  PROVE  Alone(r)'
<1> DEFINE s == cmd[i].run
           todo == FollowEdges(s, cmd[i].k, "event", Graph[s].node[cmd[i].k].feedback)
<1>1. /\ Idle(Callback) /\ UNCHANGED <<node, timer>> /\ todo # <<>>
      /\ cmd' = [cmd EXCEPT ![i].fired = TRUE]
      /\ stack' = [stack EXCEPT ![Callback] = <<Frame(s, Load(s), todo)>>]
  BY DEF CommandFeedback
<1>2. s # r
  BY <1>1, FollowsOne
<1>3. /\ DOMAIN cmd' = DOMAIN cmd
      /\ \A j \in DOMAIN cmd : /\ cmd'[j].run = cmd[j].run /\ cmd'[j].live = cmd[j].live
                               /\ cmd'[j].state = cmd[j].state
  <2>1. cmd[i] \in CommandRow
    BY CommandsParts DEF TypeOK
  <2>2. \A j \in DOMAIN cmd : j # i => cmd'[j] = cmd[j]
    BY <1>1
  <2>3. /\ cmd'[i].run = cmd[i].run /\ cmd'[i].live = cmd[i].live
        /\ cmd'[i].state = cmd[i].state
    BY <1>1, <2>1 DEF CommandRow
  <2> QED
    BY <1>1, <2>2, <2>3
<1>4. /\ LiveTokens(cmd', r) \subseteq LiveTokens(cmd, r)
      /\ OpenOf(cmd', r) \subseteq OpenOf(cmd, r)
  BY <1>3, CommandTokens
<1>5. PICK f : f = Frame(s, Load(s), todo)
  OBVIOUS
<1>6. f.run # r /\ Callback \in Thread
  BY <1>2, <1>5 DEF Frame, Thread
<1> QED
  BY <1>1, <1>4, <1>5, <1>6, AsksAlone

\* A start brings in a run; a cancellation, a decision and an injected event
\* carry none on by themselves.
LEMMA StepAsks ==
  ASSUME TypeOK, NEW r \in Run, Alone(r), NEW h \in Http, HttpRequest(h)
  PROVE  Alone(r)'
<1>0. h \in Thread
  BY DEF Thread
<1>1. ASSUME NEW kind, NEW f, Request(h, kind, f)
      PROVE  Idle(h) /\ stack' = [stack EXCEPT ![h] = <<f>>] /\ UNCHANGED timer
  BY <1>1 DEF Request
<1>2. ASSUME NEW kind, NEW f, Request(h, kind, f), Quiet(f.todo), UNCHANGED db
      PROVE  Alone(r)'
  BY <1>0, <1>1, <1>2, AsksAlone DEF db
<1>3. ASSUME NEW s \in Manual, StartManual(h, s)
      PROVE  Alone(r)'
  <2>1. PICK f : f = Frame(s, Load(s), <<Op("boot")>>)
    OBVIOUS
  <2>2. f.run = s /\ OneToken(f.todo) /\ s \in Run
    BY <2>1, OneTogether, ExecutorAssumption DEF Frame
  <2>3. /\ Request(h, "start", f) /\ CreateWorkflowRun(s, NoParent) /\ UNCHANGED cmd
    BY <1>3, <2>1 DEF StartManual
  <2>4. Idle(h) /\ stack' = [stack EXCEPT ![h] = <<f>>] /\ UNCHANGED timer
    BY <1>1, <2>3
  <2>5. PICK N : /\ Sole(N) /\ \A p \in N : f.run = r
                 /\ CallTokens(stack', r) \subseteq CallTokens(stack, r) \cup N
    BY <1>0, <2>2, <2>4, StartTokens
  <2>6. r # s => N = {}
    BY <2>2, <2>5
  <2> QED
    BY <2>2, <2>3, <2>4, <2>5, <2>6, Created
<1>4. ASSUME NEW s \in Run, Cancel(h, s)
      PROVE  Alone(r)'
  <2>1. PICK snap, f, a, b, c, d :
          /\ a = Op("cancelCommands") /\ b = Op("cancelNodes") /\ c = Op("cancelRun")
          /\ d = NotifyParent(FALSE)
          /\ f = Frame(s, snap, <<a, b, c, d>>)
          /\ Request(h, "cancel", f) /\ UNCHANGED db
    BY <1>4 DEF Cancel
  <2>2. /\ a.op \notin TokenOps /\ b.op \notin TokenOps /\ c.op \notin TokenOps
        /\ d.op \notin TokenOps
    BY <2>1 DEF Op, NotifyParent, WithOutcome, TokenOps
  <2>3. Quiet(<<a, b, c, d>>)
    <3>1. FramesOf(<<a, b, c, d>>) = {a, b, c, d}
      BY DEF FramesOf
    <3>2. <<a, b, c, d>> \in Seq({a, b, c, d})
      OBVIOUS
    <3> QED
      BY <2>2, <3>1, <3>2 DEF Quiet
  <2>4. f.todo = <<a, b, c, d>>
    BY <2>1 DEF Frame
  <2> QED
    BY <1>2, <2>1, <2>3, <2>4
<1>5. ASSUME NEW s, NEW c, NEW k, NEW ok, DecideManual(h, s, c, k, ok)
      PROVE  Alone(r)'
  <2>1. PICK f, call : /\ call = WithOutcome(OnNode("decide", c, k), ok)
                       /\ f = Frame(s, Load(s), <<call>>)
    OBVIOUS
  <2>2. call.op \notin TokenOps /\ f.todo = <<call>>
    BY <2>1 DEF WithOutcome, OnNode, Op, TokenOps, Frame
  <2>3. Request(h, "decide", f) /\ UNCHANGED db
    BY <1>5, <2>1 DEF DecideManual
  <2> QED
    BY <1>2, <2>2, <2>3, OneTogether
<1>6. ASSUME NEW ev, InjectEvent(h, ev)
      PROVE  Alone(r)'
  <2>1. PICK s, f, call : /\ s = (CHOOSE q \in Run : TRUE)
                          /\ call = [Op("inject") EXCEPT !.ev = ev]
                          /\ f = Frame(s, Load(s), <<call>>)
    OBVIOUS
  <2>2. call.op \notin TokenOps /\ f.todo = <<call>>
    BY <2>1 DEF Op, TokenOps, Frame
  <2>3. Request(h, "inject", f) /\ UNCHANGED db
    BY <1>6, <2>1 DEF InjectEvent
  <2> QED
    BY <1>2, <2>2, <2>3, OneTogether
<1> QED
  BY <1>3, <1>4, <1>5, <1>6, ExecutorAssumption DEF HttpRequest

\* What is in memory is gone, and with it every place but a confirmation's.
LEMMA StepDies ==
  ASSUME TypeOK, NEW r \in Run, Alone(r), Restart
  PROVE  Alone(r)'
<1>1. CallTokens(stack', r) = {}
  <2>1. \A t \in Thread : stack'[t] = <<>>
    BY DEF Restart
  <2>2. PICK stacks : stacks = stack'
    OBVIOUS
  <2>3. \A t \in Thread : \A h, g, call : ~StackToken(stacks[t], r, h, g, call)
    BY <2>1, <2>2 DEF StackToken
  <2>4. CallTokens(stacks, r) = {}
    BY <2>3, TokenParts
  <2> QED
    BY <2>2, <2>4
<1>2. TaskTokens(timer', r) = {} /\ Once(timer', r)
  <2>1. DOMAIN timer' = {}
    BY NoTasks DEF Restart
  <2> QED
    BY <2>1 DEF TaskTokens, Once
<1>3. LiveTokens(cmd', r) = {} /\ OpenOf(cmd', r) \subseteq OpenOf(cmd, r)
  <2>1. /\ DOMAIN cmd' = DOMAIN cmd
        /\ \A i \in DOMAIN cmd : /\ cmd'[i].run = cmd[i].run /\ cmd'[i].live = FALSE
                                 /\ cmd'[i].state = cmd[i].state
    <3>1. \A i \in DOMAIN cmd : cmd[i] \in CommandRow
      BY CommandsParts DEF TypeOK
    <3>2. cmd' = [i \in DOMAIN cmd |-> [cmd[i] EXCEPT !.live = FALSE]]
      BY DEF Restart
    <3> QED
      BY <3>1, <3>2 DEF CommandRow
  <2> QED
    BY <2>1 DEF LiveTokens, OpenOf
<1>4. CallTokens(stack', r) \cup TaskTokens(timer', r) \cup LiveTokens(cmd', r)
        \cup RowTokens(node'[r], r) \subseteq Tokens(r)
  BY <1>1, <1>2, <1>3 DEF Tokens, Restart
<1> QED
  BY <1>2, <1>3, <1>4, Fades

-----------------------------------------------------------------------------
(* Runs without parallel branches stay in one place *)

\* Before the first request no run is anywhere.
LEMMA NowhereAtFirst ==
  ASSUME Init, NEW r \in Run
  PROVE  Alone(r)
<1>1. CallTokens(stack, r) = {}
  <2>1. \A t \in Thread : stack[t] = <<>>
    BY DEF Init
  <2>2. \A t \in Thread : \A h, g, call : ~StackToken(stack[t], r, h, g, call)
    BY <2>1 DEF StackToken
  <2> QED
    BY <2>2, TokenParts
<1>2. TaskTokens(timer, r) = {} /\ Once(timer, r)
  <2>1. DOMAIN timer = {}
    BY NoTasks DEF Init
  <2> QED
    BY <2>1 DEF TaskTokens, Once
<1>3. LiveTokens(cmd, r) = {} /\ OpenOf(cmd, r) = {}
  <2>1. DOMAIN cmd = {}
    BY DEF Init
  <2> QED
    BY <2>1 DEF LiveTokens, OpenOf
<1>4. RowTokens(node[r], r) = {}
  <2>1. node[r] = <<>>
    BY DEF Init
  <2>2. PICK rows : rows = node[r]
    OBVIOUS
  <2>3. DOMAIN rows = {}
    BY <2>1, <2>2
  <2>4. RowTokens(rows, r) = {}
    BY <2>3, TokenParts
  <2> QED
    BY <2>2, <2>4
<1>5. Tokens(r) = {}
  BY <1>1, <1>2, <1>3, <1>4 DEF Tokens
<1> QED
  BY <1>2, <1>3, <1>5 DEF Alone, Sole

\* Nor does it go anywhere while nothing happens.
LEMMA StaysAlone ==
  ASSUME NEW r, Alone(r), UNCHANGED vars
  PROVE  Alone(r)'
<1>1. UNCHANGED <<stack, timer, cmd, node>>
  BY DEF vars
<1>2. CallTokens(stack', r) \cup TaskTokens(timer', r) \cup LiveTokens(cmd', r)
        \cup RowTokens(node'[r], r) \subseteq Tokens(r)
  BY <1>1 DEF Tokens
<1> QED
  BY <1>1, <1>2, Fades DEF Alone

\* A run that is in one place is in one place after every step of the system.
LEMMA NextAlone ==
  ASSUME TypeOK, HandlersSuit, NEW r \in Run, Sequential(r), Alone(r), [Next]_vars
  PROVE  Alone(r)'
<1>1. ASSUME NEW t \in Thread, Step(t) PROVE Alone(r)'
  BY <1>1, StepGoesOn, StepStaysPut, StepApplies, StepDecides, StepSchedules,
     StepPauses, StepMarks, StepDispatches, StepSends, StepStarts, StepNotifies,
     StepSpawns, StepWakes DEF Step
<1>2. ASSUME NEW task \in DOMAIN timer, Fire(task) PROVE Alone(r)'
  BY <1>2, StepFires
<1>3. ASSUME NEW i \in DOMAIN cmd, Result(i) \/ CommandFeedback(i) PROVE Alone(r)'
  BY <1>3, StepAnswers, StepFeedsBack
<1>4. ASSUME NEW h \in Http, HttpRequest(h) PROVE Alone(r)'
  BY <1>4, StepAsks
<1>5. CASE Restart
  BY <1>5, StepDies
<1>6. CASE UNCHANGED vars
  BY <1>6, StaysAlone
<1> QED
  BY <1>1, <1>2, <1>3, <1>4, <1>5, <1>6 DEF Next

\* A run of a workflow without parallel branches is carried on by one call, one
\* timer task, one robot or one confirmation at a time, however many other runs,
\* requests, answers and restarts there are beside it, and a command of it is
\* open only while that robot has it or is being given it.
THEOREM OnePlaceHolds == Spec => []OnePlace
<1>1. Init => OnePlace
  BY NowhereAtFirst DEF OnePlace, SequentialRuns
<1>2. TypeOK /\ HandlersSuit /\ OnePlace /\ [Next]_vars => OnePlace'
  <2> SUFFICES ASSUME TypeOK, HandlersSuit, OnePlace, [Next]_vars,
                      NEW r \in SequentialRuns
               PROVE  Alone(r)'
    BY DEF OnePlace, SequentialRuns, Sequential, EdgeIds, Key, Waits, TypeOf
  <2> QED
    BY NextAlone DEF OnePlace, SequentialRuns
<1> QED
  BY <1>1, <1>2, Typing, HandlersStaySuited, PTL DEF Spec

\* The open commands of a node run are open commands of its run.
LEMMA AloneOpen ==
  ASSUME NEW n \in Existing, Alone(n[1]),
         NEW i \in CommandsOf(n), NEW j \in CommandsOf(n),
         cmd[i].state \in OpenCommand, cmd[j].state \in OpenCommand
  PROVE  i = j
<1>1. i \in OpenOf(cmd, n[1]) /\ j \in OpenOf(cmd, n[1])
  BY DEF CommandsOf, OpenOf
<1> QED
  BY <1>1 DEF Alone, Sole

\* Where no run has parallel branches, no robot is given two commands for a node
\* run at a time, whatever the order of answers, retries, decisions,
\* cancellations and restarts: dispatchNode looks at no command that is open,
\* so this rests on the run being in one place.
THEOREM OneOpenCommandHolds ==
  ASSUME \A r \in Run : Sequential(r)
  PROVE  Spec => []OneOpenCommand
<1>1. OnePlace => OneOpenCommand
  <2> SUFFICES ASSUME OnePlace, NEW n \in Existing,
                      NEW i \in CommandsOf(n), NEW j \in CommandsOf(n),
                      cmd[i].state \in OpenCommand, cmd[j].state \in OpenCommand
               PROVE  i = j
    BY DEF OneOpenCommand
  <2>1. n[1] \in Run
    BY DEF Existing
  <2> QED
    BY <2>1, AloneOpen DEF OnePlace, SequentialRuns
<1> QED
  BY <1>1, OnePlaceHolds, PTL

-----------------------------------------------------------------------------
(* Retries are counted *)

\* Runs in one place whose handlers all work on a copy loaded when they got
\* there: no confirmation is decided on an older one, and a NAVIGATION node,
\* which forgets command_attempt, is not retried.
Counted(r) ==
  /\ Sequential(r)
  /\ \A k \in Key(r) :
       /\ ~Confirms(r, k)
       /\ TypeOf(r, k) = "NAVIGATION" => Graph[r].node[k].retry = 0

\* CommandsOf, in a table of commands.
MadeFor(cmds, n) == {i \in DOMAIN cmds : <<cmds[i].run, cmds[i].c, cmds[i].k>> = n}

\* command_attempt is an attempt the node may make and bounds its commands;
\* a node that has not started has none.
RowCounts(rows, cmds, r, c, k) ==
  /\ rows[c][k].tries \in 1..Graph[r].node[k].retry + 1
  /\ Cardinality(MadeFor(cmds, <<r, c, k>>)) <= rows[c][k].tries
  /\ rows[c][k].state = "PENDING" => MadeFor(cmds, <<r, c, k>>) = {}
RowsCount(rows, cmds, r) ==
  \A c \in DOMAIN rows, k \in Key(r) : RowCounts(rows, cmds, r, c, k)

\* A retry is scheduled for a node that has one left.
TasksCount(tasks, rows, r) ==
  \A task \in DOMAIN tasks :
    task.run = r /\ task.kind = "retry"
    => rows[task.c][task.k].tries <= Graph[r].node[task.k].retry

\* A copy knows the attempts of its nodes, and which have not started.
CopyCounts(rows, cmds, r, copy) ==
  \A c \in DOMAIN copy, k \in Key(r) :
    /\ copy[c][k].tries = rows[c][k].tries
    /\ copy[c][k].state = "PENDING" => MadeFor(cmds, <<r, c, k>>) = {}

\* A call that carries the run on works on such a copy; one that is going to
\* create a command has an attempt that has none.
CallCounts(rows, cmds, r, copy, call) ==
  /\ call.op \notin {"decide", "record"}
  /\ call.op \in TokenOps => CopyCounts(rows, cmds, r, copy)
  /\ call.op = "park" => MadeFor(cmds, <<r, call.c, call.k>>) = {}
  /\ call.op \in {"dispatch", "again"} => copy[call.c][call.k].state # "PENDING"
  /\ call.op = "dispatch" =>
       Cardinality(MadeFor(cmds, <<r, call.c, call.k>>)) < rows[call.c][call.k].tries
  /\ call.op = "again" => rows[call.c][call.k].tries <= Graph[r].node[call.k].retry
FrameCounts(rows, cmds, r, f) ==
  f.run = r => \A call \in FramesOf(f.todo) : CallCounts(rows, cmds, r, f.snap.node, call)
FramesCount(stacks, rows, cmds, r) ==
  \A t \in Thread : \A f \in FramesOf(stacks[t]) : FrameCounts(rows, cmds, r, f)

\* The invariant that RetriesBounded needs, given that the run is in one place.
Counts(r) ==
  /\ RowsCount(node[r], cmd, r) /\ TasksCount(timer, node[r], r)
  /\ FramesCount(stack, node[r], cmd, r)

\* It speaks of the tables of one state.
LEMMA CountsAfter ==
  ASSUME NEW r
  PROVE  Counts(r)' <=> /\ RowsCount(node'[r], cmd', r) /\ TasksCount(timer', node'[r], r)
                        /\ FramesCount(stack', node'[r], cmd', r)
BY DEF Counts, RowsCount, RowCounts, TasksCount, FramesCount, FrameCounts, CallCounts,
       CopyCounts, MadeFor, FramesOf, TokenOps, Thread, Key

\* Tables with the same attempts and commands for the nodes there were.
Fixed(r, rows, cmds) ==
  \A c \in DOMAIN node[r], k \in Key(r) :
    /\ rows[c][k].tries = node[r][c][k].tries
    /\ MadeFor(cmds, <<r, c, k>>) = MadeFor(cmd, <<r, c, k>>)

\* A frame works on nodes there are.
LEMMA FrameReach ==
  ASSUME TypeOK, NEW f \in Frames(Owner, Attempts)
  PROVE  /\ DOMAIN f.snap.node \subseteq DOMAIN node[f.run]
         /\ \A call \in FramesOf(f.todo) : call.op \in RowOps =>
              /\ call.c \in DOMAIN f.snap.node /\ call.c \in DOMAIN node[f.run]
              /\ call.k \in Key(f.run)
         /\ f.run \in Run /\ f.todo \in Seq(FramesOf(f.todo))
<1>1. /\ f.run \in Run /\ f.snap \in Snapshot(f.run, Owner, Attempts)
      /\ f.todo \in Seq(CallsOn(f.run, Len(f.snap.node), Owner, Attempts))
  BY FrameParts
<1>2. /\ node[f.run] \in NodeRows(f.run) /\ Attempts[f.run] = Len(node[f.run])
  BY <1>1, AttemptsIn DEF TypeOK
<1>3. f.snap.node \in NodeRows(f.run) /\ Len(f.snap.node) <= Len(node[f.run])
  BY <1>1, <1>2 DEF Snapshot
<1>4. /\ DOMAIN f.snap.node = 1..Len(f.snap.node) /\ DOMAIN node[f.run] = 1..Len(node[f.run])
      /\ Len(f.snap.node) \in Nat /\ Len(node[f.run]) \in Nat
  BY <1>2, <1>3, LenProperties DEF NodeRows
<1>5. DOMAIN f.snap.node \subseteq DOMAIN node[f.run]
  BY <1>3, <1>4
<1>6. /\ FramesOf(f.todo) \subseteq CallsOn(f.run, Len(f.snap.node), Owner, Attempts)
      /\ f.todo \in Seq(FramesOf(f.todo))
  BY <1>1, ElementsOf
<1>7. \A call \in FramesOf(f.todo) : call.op \in RowOps =>
        call.c \in DOMAIN f.snap.node /\ call.k \in Key(f.run)
  BY <1>4, <1>6 DEF CallsOn
<1> QED
  BY <1>1, <1>5, <1>6, <1>7

\* Such a frame counts on while the tables do.
LEMMA StillCounts ==
  ASSUME TypeOK, NEW f \in Frames(Owner, Attempts), NEW r, NEW rows, NEW cmds,
         Fixed(r, rows, cmds), FrameCounts(node[r], cmd, r, f)
  PROVE  FrameCounts(rows, cmds, r, f)
<1> SUFFICES ASSUME f.run = r, NEW call \in FramesOf(f.todo)
             PROVE  CallCounts(rows, cmds, r, f.snap.node, call)
  BY DEF FrameCounts
<1>1. /\ DOMAIN f.snap.node \subseteq DOMAIN node[r]
      /\ call.op \in RowOps => call.c \in DOMAIN node[r] /\ call.k \in Key(r)
  BY FrameReach
<1>2. CallCounts(node[r], cmd, r, f.snap.node, call)
  BY DEF FrameCounts
<1>3. CopyCounts(node[r], cmd, r, f.snap.node) => CopyCounts(rows, cmds, r, f.snap.node)
  BY <1>1 DEF CopyCounts, Fixed
<1>4. call.op \in {"park", "dispatch", "again"} =>
        /\ MadeFor(cmds, <<r, call.c, call.k>>) = MadeFor(cmd, <<r, call.c, call.k>>)
        /\ rows[call.c][call.k].tries = node[r][call.c][call.k].tries
  BY <1>1 DEF Fixed, RowOps
<1> QED
  BY <1>2, <1>3, <1>4 DEF CallCounts

\* The frames of a stack.
LEMMA FramesTyped ==
  ASSUME TypeOK, NEW t \in Thread
  PROVE  /\ stack[t] \in Seq(Frames(Owner, Attempts))
         /\ FramesOf(stack[t]) \subseteq Frames(Owner, Attempts)
<1>1. stack[t] \in Seq(Frames(Owner, Attempts))
  BY StackFrames DEF TypeOK, StacksOK
<1> QED
  BY <1>1, ElementsOf

\* A thread's stack is replaced, and the tables go on counting.
LEMMA SetCounts ==
  ASSUME TypeOK, NEW r \in Run, Counts(r), NEW t \in Thread, NEW s,
         stack' = [stack EXCEPT ![t] = s], Fixed(r, node'[r], cmd'),
         \A f \in FramesOf(s) :
           f \in FramesOf(stack[t]) \/ FrameCounts(node'[r], cmd', r, f)
  PROVE  FramesCount(stack', node'[r], cmd', r)
<1>1. ASSUME NEW u \in Thread, NEW f \in FramesOf(stack[u])
      PROVE  FrameCounts(node'[r], cmd', r, f)
  <2>1. f \in Frames(Owner, Attempts) /\ FrameCounts(node[r], cmd, r, f)
    BY <1>1, FramesTyped DEF Counts, FramesCount
  <2>2. PICK rows, cmds : rows = node'[r] /\ cmds = cmd'
    OBVIOUS
  <2>3. FrameCounts(rows, cmds, r, f)
    BY <2>1, <2>2, StillCounts
  <2> QED
    BY <2>2, <2>3
<1>2. ASSUME NEW u \in Thread
      PROVE  stack'[u] = IF u = t THEN s ELSE stack[u]
  BY DEF TypeOK, StacksOK
<1>3. PICK stacks : stacks = stack'
  OBVIOUS
<1>4. ASSUME NEW u \in Thread, NEW f \in FramesOf(stacks[u])
      PROVE  FrameCounts(node'[r], cmd', r, f)
  BY <1>1, <1>2, <1>3, <1>4
<1>5. FramesCount(stacks, node'[r], cmd', r)
  BY <1>4 DEF FramesCount
<1> QED
  BY <1>3, <1>5

\* An element of a sequence has a place, counted from the end.
LEMMA ElementPlace ==
  ASSUME NEW S, NEW s \in Seq(S), NEW a \in FramesOf(s)
  PROVE  \E n \in 1..Len(s) : a = Nth(s, n)
<1>1. DOMAIN s = 1..Len(s) /\ Len(s) \in Nat
  BY LenProperties
<1>2. PICK m \in 1..Len(s) : a = s[m]
  BY <1>1 DEF FramesOf
<1>3. PICK n \in 1..Len(s) : n = Len(s) + 1 - m
  BY <1>1
<1>4. Len(s) + 1 - n = m
  BY <1>1, <1>3
<1> QED
  BY <1>2, <1>4 DEF Nth

\* While the run is at a call, no other frame carries it on, and no other call
\* of that frame does.
LEMMA NobodyElse ==
  ASSUME TypeOK, NEW t \in Thread, ~Idle(t), NEW r, r = RunOf(t), Alone(r),
         Call(t).op \in TokenOps
  PROVE  /\ \A u \in Thread : \A f \in FramesOf(IF u = t THEN Tail(stack[t]) ELSE stack[u]) :
              f.run = r => \A call \in FramesOf(f.todo) : call.op \notin TokenOps
         /\ \A call \in FramesOf(Tail(Top(t).todo)) : call.op \notin TokenOps
<1>1. CallTokens(stack, r) = {Here(t)}
  BY OnlyHere
<1>2. ASSUME NEW u \in Thread, NEW h, NEW g, NEW call, StackToken(stack[u], r, h, g, call)
      PROVE  u = t /\ h = Len(stack[t]) /\ g = Len(Top(t).todo)
  <2>1. <<"call", u, h, g, call>> \in CallTokens(stack, r)
    BY <1>2, TokenParts
  <2>2. <<"call", u, h, g, call>> = Here(t)
    BY <1>1, <2>1
  <2> QED
    BY <2>2 DEF Here
<1>3. /\ Tail(stack[t]) \in Seq(Frames(Owner, Attempts))
      /\ Len(Tail(stack[t])) \in Nat /\ Len(stack[t]) = Len(Tail(stack[t])) + 1
      /\ Tail(Top(t).todo) \in Seq(FramesOf(Tail(Top(t).todo)))
      /\ Len(Tail(Top(t).todo)) \in Nat /\ Len(Top(t).todo) = Len(Tail(Top(t).todo)) + 1
      /\ \A h, g, call : StackToken(stack[t], r, h, g, call) <=>
           \/ StackToken(Tail(stack[t]), r, h, g, call)
           \/ /\ h = Len(stack[t]) /\ r = RunOf(t)
              /\ \/ ListToken(Tail(Top(t).todo), g, call)
                 \/ g = Len(Top(t).todo) /\ call = Call(t) /\ call.op \in TokenOps
  BY TopPlaces
<1>4. ASSUME NEW u \in Thread, NEW f, NEW call \in FramesOf(f.todo),
             f \in FramesOf(IF u = t THEN Tail(stack[t]) ELSE stack[u]),
             f.run = r, call.op \in TokenOps
      PROVE  FALSE
  <2>1. PICK s : s = IF u = t THEN Tail(stack[t]) ELSE stack[u]
    OBVIOUS
  <2>2. s \in Seq(Frames(Owner, Attempts))
    BY <1>3, <2>1, FramesTyped
  <2>3. f \in FramesOf(s) /\ f \in Frames(Owner, Attempts)
    BY <1>4, <2>1, <2>2, ElementsOf
  <2>4. PICK h \in 1..Len(s) : f = Nth(s, h)
    BY <2>2, <2>3, ElementPlace
  <2>5. f.todo \in Seq(FramesOf(f.todo))
    BY <2>3, FrameReach
  <2>6. PICK g \in 1..Len(f.todo) : call = Nth(f.todo, g)
    BY <1>4, <2>5, ElementPlace
  <2>7. StackToken(s, r, h, g, call)
    BY <1>4, <2>4, <2>6 DEF StackToken, FrameToken, ListToken
  <2>8. CASE u = t
    <3>1. h = Len(stack[t])
      BY <1>2, <1>3, <2>1, <2>7, <2>8
    <3>2. h \in 1..Len(Tail(stack[t]))
      BY <2>1, <2>4, <2>8
    <3> QED
      BY <1>3, <3>1, <3>2
  <2>9. CASE u # t
    BY <1>2, <2>1, <2>7, <2>9
  <2> QED
    BY <2>8, <2>9
<1>5. ASSUME NEW call \in FramesOf(Tail(Top(t).todo)), call.op \in TokenOps
      PROVE  FALSE
  <2>1. PICK todo : todo = Tail(Top(t).todo) /\ todo \in Seq(FramesOf(todo))
    BY <1>3
  <2>2. PICK g \in 1..Len(todo) : call = Nth(todo, g)
    BY <1>5, <2>1, ElementPlace
  <2>3. ListToken(Tail(Top(t).todo), g, call)
    BY <1>5, <2>1, <2>2 DEF ListToken
  <2>4. g = Len(Top(t).todo)
    BY <1>2, <1>3, <2>3
  <2> QED
    BY <1>3, <2>1, <2>2, <2>4
<1> QED
  BY <1>4, <1>5

\* What is put on a stack is on it.
LEMMA PushElements ==
  ASSUME NEW f, NEW s, s \in Seq(FramesOf(s))
  PROVE  /\ FramesOf(Push(f, s)) \subseteq {f} \cup FramesOf(s)
         /\ Push(f, s) \in Seq(FramesOf(Push(f, s)))
<1>1. <<f>> \in Seq(FramesOf(<<f>>)) /\ FramesOf(<<f>>) = {f}
  BY TupleElements
<1>2. /\ FramesOf(<<f>> \o s) \subseteq FramesOf(<<f>>) \cup FramesOf(s)
      /\ <<f>> \o s \in Seq(FramesOf(<<f>> \o s))
  BY <1>1, ConcatElements
<1>3. Push(f, s) = s \/ Push(f, s) = <<f>> \o s
  BY DEF Push
<1> QED
  BY <1>1, <1>2, <1>3

\* The frames and calls that stay when a handler returns.
LEMMA ReturnFrames ==
  ASSUME TypeOK, NEW t \in Thread, ~Idle(t), NEW snap, NEW calls, Return(t, snap, calls)
  PROVE  \E s : \E f :
           /\ stack' = [stack EXCEPT ![t] = s]
           /\ f.run = RunOf(t) /\ f.snap = snap
           /\ FramesOf(s) \subseteq {f} \cup FramesOf(Tail(stack[t]))
           /\ calls \in Seq(FramesOf(calls)) =>
                FramesOf(f.todo) \subseteq FramesOf(calls) \cup FramesOf(Tail(Top(t).todo))
<1>1. PICK f : f = Frame(RunOf(t), snap, calls \o Tail(Top(t).todo))
  OBVIOUS
<1>2. f.run = RunOf(t) /\ f.snap = snap /\ f.todo = calls \o Tail(Top(t).todo)
  BY <1>1 DEF Frame
<1>3. stack' = [stack EXCEPT ![t] = Push(f, Tail(stack[t]))]
  BY <1>1 DEF Return, SetStack
<1>4. /\ Tail(stack[t]) \in Seq(FramesOf(Tail(stack[t])))
      /\ Tail(Top(t).todo) \in Seq(FramesOf(Tail(Top(t).todo)))
  <2>1. Tail(stack[t]) \in Seq(Frames(Owner, Attempts))
    BY TopParts DEF TypeOK
  <2> QED
    BY <2>1, TopPlaces, ElementsOf
<1>5. FramesOf(Push(f, Tail(stack[t]))) \subseteq {f} \cup FramesOf(Tail(stack[t]))
  BY <1>4, PushElements
<1>6. calls \in Seq(FramesOf(calls)) =>
        FramesOf(f.todo) \subseteq FramesOf(calls) \cup FramesOf(Tail(Top(t).todo))
  BY <1>2, <1>4, ConcatElements
<1> QED
  BY <1>2, <1>3, <1>5, <1>6

\* The frames and calls of a thread that is not idle.
LEMMA TopElements ==
  ASSUME TypeOK, NEW t \in Thread, ~Idle(t)
  PROVE  /\ Top(t) \in FramesOf(stack[t])
         /\ FramesOf(Tail(stack[t])) \subseteq FramesOf(stack[t])
         /\ Call(t) \in FramesOf(Top(t).todo)
         /\ FramesOf(Tail(Top(t).todo)) \subseteq FramesOf(Top(t).todo)
<1>1. stack[t] \in Seq(Frames(Owner, Attempts)) /\ stack[t] # <<>>
  BY FramesTyped DEF Idle
<1>2. Top(t) \in FramesOf(stack[t]) /\ FramesOf(Tail(stack[t])) \subseteq FramesOf(stack[t])
  BY <1>1, TailElements DEF Top
<1>3. Top(t).todo \in Seq(FramesOf(Top(t).todo)) /\ Top(t).todo # <<>>
  BY <1>2, FramesTyped, FrameReach, FrameParts
<1> QED
  BY <1>2, <1>3, TailElements DEF Call

\* What is known of the running call.
LEMMA CallCounted ==
  ASSUME TypeOK, NEW t \in Thread, ~Idle(t), NEW r, r = RunOf(t), Counts(r)
  PROVE  /\ CallCounts(node[r], cmd, r, Snap(t).node, Call(t))
         /\ \A call \in FramesOf(Top(t).todo) :
              CallCounts(node[r], cmd, r, Snap(t).node, call)
<1>1. FrameCounts(node[r], cmd, r, Top(t)) /\ Call(t) \in FramesOf(Top(t).todo)
  BY TopElements DEF Counts, FramesCount
<1> QED
  BY <1>1 DEF FrameCounts, RunOf, Snap

\* The handler where the run is may change what there is to count: nobody else
\* counts on it.
LEMMA TurnCounts ==
  ASSUME TypeOK, NEW r \in Run, Alone(r), Counts(r), NEW t \in Thread, ~Idle(t),
         r = RunOf(t), Call(t).op \in TokenOps,
         NEW snap, NEW calls, Return(t, snap, calls), calls \in Seq(FramesOf(calls)),
         \A call \in FramesOf(calls) : CallCounts(node'[r], cmd', r, snap.node, call),
         RowsCount(node'[r], cmd', r), TasksCount(timer', node'[r], r)
  PROVE  Counts(r)'
<1>1. PICK rows, cmds, stacks : rows = node'[r] /\ cmds = cmd' /\ stacks = stack'
  OBVIOUS
<1>2. ASSUME NEW copy, NEW call, call.op \notin TokenOps, call.op # "decide"
      PROVE  CallCounts(rows, cmds, r, copy, call)
  BY <1>2 DEF CallCounts, TokenOps
<1>3. PICK s, f :
        /\ stacks = [stack EXCEPT ![t] = s]
        /\ f.run = RunOf(t) /\ f.snap = snap
        /\ FramesOf(s) \subseteq {f} \cup FramesOf(Tail(stack[t]))
        /\ FramesOf(f.todo) \subseteq FramesOf(calls) \cup FramesOf(Tail(Top(t).todo))
  BY <1>1, ReturnFrames
<1>4. ASSUME NEW u \in Thread, NEW g \in FramesOf(IF u = t THEN Tail(stack[t]) ELSE stack[u])
      PROVE  FrameCounts(rows, cmds, r, g)
  <2> SUFFICES ASSUME g.run = r, NEW call \in FramesOf(g.todo)
               PROVE  CallCounts(rows, cmds, r, g.snap.node, call)
    BY DEF FrameCounts
  <2>1. call.op \notin TokenOps
    BY <1>4, NobodyElse
  <2>2. g \in FramesOf(stack[u])
    BY <1>4, TopElements
  <2>3. call.op # "decide"
    BY <2>2 DEF Counts, FramesCount, FrameCounts, CallCounts
  <2> QED
    BY <1>2, <2>1, <2>3
<1>5. FrameCounts(rows, cmds, r, f)
  <2>1. ASSUME NEW call \in FramesOf(Tail(Top(t).todo))
        PROVE  CallCounts(rows, cmds, r, snap.node, call)
    <3>1. call.op \notin TokenOps
      BY <2>1, NobodyElse
    <3>2. call.op # "decide"
      BY <2>1, TopElements, CallCounted DEF CallCounts
    <3> QED
      BY <1>2, <3>1, <3>2
  <2>2. \A call \in FramesOf(calls) : CallCounts(rows, cmds, r, snap.node, call)
    BY <1>1
  <2> QED
    BY <1>3, <2>1, <2>2 DEF FrameCounts
<1>6. ASSUME NEW u \in Thread, NEW g \in FramesOf(stacks[u])
      PROVE  FrameCounts(rows, cmds, r, g)
  <2>1. stacks[u] = IF u = t THEN s ELSE stack[u]
    BY <1>3 DEF TypeOK, StacksOK
  <2>2. CASE u # t
    <3>1. g \in FramesOf(IF u = t THEN Tail(stack[t]) ELSE stack[u])
      BY <1>6, <2>1, <2>2
    <3> QED
      BY <1>4, <3>1
  <2>3. CASE u = t
    <3>1. g = f \/ g \in FramesOf(IF u = t THEN Tail(stack[t]) ELSE stack[u])
      BY <1>3, <1>6, <2>1, <2>3
    <3> QED
      BY <1>4, <1>5, <3>1
  <2> QED
    BY <2>2, <2>3
<1>7. FramesCount(stacks, rows, cmds, r)
  BY <1>6 DEF FramesCount
<1> QED
  BY <1>1, <1>7, CountsAfter

\* A step that starts no attempt and creates no command of the run: nodes that
\* were not there are fresh, and a timer task that retries one may.
RowsSteady(r) ==
  /\ \A c \in DOMAIN node[r], k \in Key(r) : node'[r][c][k].tries = node[r][c][k].tries
  /\ \A c \in DOMAIN node'[r], k \in Key(r) :
       IF c \in DOMAIN node[r]
         THEN node'[r][c][k].state = "PENDING"
              => node[r][c][k].state = "PENDING" \/ MadeFor(cmd, <<r, c, k>>) = {}
         ELSE node'[r][c][k].tries = 1
CommandsSteady(r) ==
  \A c, k : MadeFor(cmd', <<r, c, k>>) = MadeFor(cmd, <<r, c, k>>)
TasksSteady(r) ==
  \A task \in DOMAIN timer' :
    task \in DOMAIN timer \/ task.run # r \/ task.kind # "retry"
    \/ /\ task.c \in DOMAIN node[r] /\ task.k \in Key(r)
       /\ node[r][task.c][task.k].tries <= Graph[r].node[task.k].retry
Steady(r) == RowsSteady(r) /\ CommandsSteady(r) /\ TasksSteady(r)

\* Nodes that are not there have no commands.
LEMMA NoneMade ==
  ASSUME TypeOK, NEW r \in Run, NEW c, NEW k, c \notin DOMAIN node[r]
  PROVE  MadeFor(cmd, <<r, c, k>>) = {}
<1> SUFFICES ASSUME NEW i \in MadeFor(cmd, <<r, c, k>>) PROVE FALSE
  OBVIOUS
<1>1. i \in DOMAIN cmd /\ <<cmd[i].run, cmd[i].c, cmd[i].k>> = <<r, c, k>>
  BY DEF MadeFor
<1>2. <<r, c, k>> \in NodeRun(Attempts)
  BY <1>1 DEF TypeOK, CommandsOK
<1>3. c \in 1..Attempts[r]
  BY <1>2 DEF NodeRun
<1>4. Attempts[r] = Len(node[r]) /\ node[r] \in NodeRows(r)
  BY AttemptsIn DEF TypeOK
<1>5. DOMAIN node[r] = 1..Len(node[r])
  BY <1>4, LenProperties DEF NodeRows
<1> QED
  BY <1>3, <1>4, <1>5

\* There are none in an empty set.
LEMMA NoneCounted ==
  ASSUME NEW S, S = {}
  PROVE  IsFiniteSet(S) /\ Cardinality(S) = 0
<1>1. S \in SUBSET {}
  OBVIOUS
<1>2. IsFiniteSet({}) /\ Cardinality({}) = 0
  BY FS_EmptySet
<1>3. IsFiniteSet(S) /\ Cardinality(S) <= Cardinality({})
  BY <1>1, <1>2, FS_Subset
<1>4. Cardinality(S) \in Nat
  BY <1>3, FS_CardinalityType
<1> QED
  BY <1>2, <1>3, <1>4

\* The tables count on after such a step.
LEMMA SteadyTables ==
  ASSUME TypeOK, NEW r \in Run, Counts(r), Steady(r)
  PROVE  /\ Fixed(r, node'[r], cmd')
         /\ RowsCount(node'[r], cmd', r) /\ TasksCount(timer', node'[r], r)
<1>1. PICK rows, cmds, tasks : rows = node'[r] /\ cmds = cmd' /\ tasks = timer'
  OBVIOUS
<1>2. /\ \A c \in DOMAIN node[r], k \in Key(r) : rows[c][k].tries = node[r][c][k].tries
      /\ \A c, k : MadeFor(cmds, <<r, c, k>>) = MadeFor(cmd, <<r, c, k>>)
  BY <1>1 DEF Steady, RowsSteady, CommandsSteady, TasksSteady
<1>3. Fixed(r, rows, cmds)
  BY <1>2 DEF Fixed
<1>4. ASSUME NEW c \in DOMAIN rows, NEW k \in Key(r)
      PROVE  RowCounts(rows, cmds, r, c, k)
  <2>1. CASE c \in DOMAIN node[r]
    <3>1. RowCounts(node[r], cmd, r, c, k)
      BY <2>1 DEF Counts, RowsCount
    <3>2. rows[c][k].state = "PENDING"
            => node[r][c][k].state = "PENDING" \/ MadeFor(cmd, <<r, c, k>>) = {}
      BY <1>1, <1>4, <2>1 DEF Steady, RowsSteady
    <3> QED
      BY <1>2, <2>1, <3>1, <3>2 DEF RowCounts
  <2>2. CASE c \notin DOMAIN node[r]
    <3>1. rows[c][k].tries = 1
      BY <1>1, <1>4, <2>2 DEF Steady, RowsSteady
    <3>5. MadeFor(cmd, <<r, c, k>>) = {}
      BY <2>2, NoneMade
    <3>2. MadeFor(cmds, <<r, c, k>>) = {}
      BY <1>2, <3>5
    <3>3. Cardinality(MadeFor(cmds, <<r, c, k>>)) = 0
      BY <3>2, NoneCounted
    <3>4. Graph[r].node[k].retry \in Nat
      BY NodeParts DEF NodeAttributes
    <3> QED
      BY <3>1, <3>2, <3>3, <3>4 DEF RowCounts
  <2> QED
    BY <2>1, <2>2
<1>5. ASSUME NEW task \in DOMAIN tasks, task.run = r, task.kind = "retry"
      PROVE  rows[task.c][task.k].tries <= Graph[r].node[task.k].retry
  <2>1. CASE task \in DOMAIN timer
    <3>1. node[r][task.c][task.k].tries <= Graph[r].node[task.k].retry
      BY <1>5, <2>1 DEF Counts, TasksCount
    <3>2. task.c \in DOMAIN node[r] /\ task.k \in Key(r)
      <4>1. <<task.run, task.c, task.k>> \in NodeRun(Attempts)
        BY <1>5, <2>1 DEF TypeOK, TimerOK
      <4>2. task.c \in 1..Attempts[r] /\ task.k \in Key(r)
        BY <1>5, <4>1 DEF NodeRun
      <4>3. Attempts[r] = Len(node[r]) /\ node[r] \in NodeRows(r)
        BY AttemptsIn DEF TypeOK
      <4>4. DOMAIN node[r] = 1..Len(node[r])
        BY <4>3, LenProperties DEF NodeRows
      <4> QED
        BY <4>2, <4>3, <4>4
    <3> QED
      BY <1>2, <3>1, <3>2
  <2>2. CASE task \notin DOMAIN timer
    <3>1. /\ task.c \in DOMAIN node[r] /\ task.k \in Key(r)
          /\ node[r][task.c][task.k].tries <= Graph[r].node[task.k].retry
      BY <1>1, <1>5, <2>2 DEF Steady, TasksSteady
    <3> QED
      BY <1>2, <3>1
  <2> QED
    BY <2>1, <2>2
<1> QED
  BY <1>1, <1>3, <1>4, <1>5 DEF RowsCount, TasksCount

\* So does the run, if the frames that are new to the stack that changes do.
LEMMA StackCounts ==
  ASSUME TypeOK, NEW r \in Run, Counts(r), Steady(r), NEW t \in Thread, NEW s,
         stack' = [stack EXCEPT ![t] = s],
         \A f \in FramesOf(s) :
           f \in FramesOf(stack[t]) \/ FrameCounts(node'[r], cmd', r, f)
  PROVE  Counts(r)'
BY SteadyTables, SetCounts, CountsAfter

\* Steps that change no stack, or empty one.
LEMMA NothingCounts ==
  ASSUME TypeOK, NEW r \in Run, Counts(r), Steady(r)
  PROVE  /\ UNCHANGED stack => Counts(r)'
         /\ \A t \in Thread : Throw(t) => Counts(r)'
<1>1. ASSUME NEW t \in Thread, Throw(t) PROVE Counts(r)'
  <2>1. stack' = [stack EXCEPT ![t] = <<>>] /\ FramesOf(<<>>) = {}
    BY <1>1, TupleElements DEF Throw, SetStack
  <2> QED
    BY <2>1, StackCounts
<1>2. ASSUME UNCHANGED stack PROVE Counts(r)'
  <2>1. PICK rows, cmds, stacks : rows = node'[r] /\ cmds = cmd' /\ stacks = stack'
    OBVIOUS
  <2>2. Fixed(r, rows, cmds)
    BY <2>1, SteadyTables
  <2>3. ASSUME NEW t \in Thread, NEW f \in FramesOf(stacks[t])
        PROVE  FrameCounts(rows, cmds, r, f)
    <3>1. f \in FramesOf(stack[t]) /\ f \in Frames(Owner, Attempts)
      BY <1>2, <2>1, <2>3, FramesTyped
    <3>2. FrameCounts(node[r], cmd, r, f)
      BY <3>1 DEF Counts, FramesCount
    <3> QED
      BY <2>2, <3>1, <3>2, StillCounts
  <2>4. FramesCount(stacks, rows, cmds, r)
    BY <2>3 DEF FramesCount
  <2> QED
    BY <2>1, <2>4, SteadyTables, CountsAfter
<1> QED
  BY <1>1, <1>2

\* A copy with the same attempts, on which no more nodes have not started.
Derived(r, copy2, copy) ==
  /\ DOMAIN copy2 = DOMAIN copy
  /\ \A c \in DOMAIN copy, k \in Key(r) :
       /\ copy2[c][k].tries = copy[c][k].tries
       /\ copy2[c][k].state = "PENDING" => copy[c][k].state = "PENDING"

\* What was known of a copy is known of such a one.
LEMMA DerivedCounts ==
  ASSUME TypeOK, NEW r \in Run, NEW rows, NEW cmds, Fixed(r, rows, cmds),
         NEW copy2, NEW copy, Derived(r, copy2, copy), DOMAIN copy \subseteq DOMAIN node[r]
  PROVE  /\ CopyCounts(node[r], cmd, r, copy) => CopyCounts(rows, cmds, r, copy2)
         /\ \A call :
              /\ CallCounts(node[r], cmd, r, copy, call)
              /\ call.op \in RowOps => call.c \in DOMAIN copy /\ call.k \in Key(r)
              => CallCounts(rows, cmds, r, copy2, call)
<1>1. CopyCounts(node[r], cmd, r, copy) => CopyCounts(rows, cmds, r, copy2)
  BY DEF CopyCounts, Derived, Fixed
<1>2. ASSUME NEW call, CallCounts(node[r], cmd, r, copy, call),
             call.op \in RowOps => call.c \in DOMAIN copy /\ call.k \in Key(r)
      PROVE  CallCounts(rows, cmds, r, copy2, call)
  <2>1. call.op \in {"park", "dispatch", "again"} =>
          /\ MadeFor(cmds, <<r, call.c, call.k>>) = MadeFor(cmd, <<r, call.c, call.k>>)
          /\ rows[call.c][call.k].tries = node[r][call.c][call.k].tries
          /\ copy2[call.c][call.k].state = "PENDING" => copy[call.c][call.k].state = "PENDING"
    BY <1>2 DEF Fixed, RowOps, Derived
  <2> QED
    BY <1>1, <1>2, <2>1 DEF CallCounts
<1> QED
  BY <1>1, <1>2

\* A handler that returns, on the copy it had.
LEMMA ReturnCounts ==
  ASSUME TypeOK, NEW r \in Run, Counts(r), Steady(r), NEW t \in Thread, ~Idle(t),
         NEW snap, NEW calls, Return(t, snap, calls),
         r = RunOf(t) =>
           /\ Derived(r, snap.node, Snap(t).node) /\ calls \in Seq(FramesOf(calls))
           /\ \A call \in FramesOf(calls) : CallCounts(node'[r], cmd', r, snap.node, call)
  PROVE  Counts(r)'
<1>1. PICK rows, cmds : rows = node'[r] /\ cmds = cmd'
  OBVIOUS
<1>2. Fixed(r, rows, cmds)
  BY <1>1, SteadyTables
<1>3. PICK s, f :
        /\ stack' = [stack EXCEPT ![t] = s]
        /\ f.run = RunOf(t) /\ f.snap = snap
        /\ FramesOf(s) \subseteq {f} \cup FramesOf(Tail(stack[t]))
        /\ calls \in Seq(FramesOf(calls)) =>
             FramesOf(f.todo) \subseteq FramesOf(calls) \cup FramesOf(Tail(Top(t).todo))
  BY ReturnFrames
<1>4. ASSUME f.run = r, NEW call \in FramesOf(f.todo)
      PROVE  CallCounts(rows, cmds, r, f.snap.node, call)
  <2>1. CASE call \in FramesOf(calls)
    BY <1>1, <1>3, <1>4, <2>1
  <2>2. CASE call \in FramesOf(Tail(Top(t).todo))
    <3>1. Top(t) \in FramesOf(stack[t]) /\ call \in FramesOf(Top(t).todo)
      BY <2>2, TopElements
    <3>2. Top(t) \in Frames(Owner, Attempts)
      BY <3>1, FramesTyped
    <3>3. CallCounts(node[r], cmd, r, Snap(t).node, call)
      BY <1>3, <1>4, <3>1, CallCounted
    <3>4. /\ DOMAIN Snap(t).node \subseteq DOMAIN node[r]
          /\ call.op \in RowOps => call.c \in DOMAIN Snap(t).node /\ call.k \in Key(r)
      BY <1>3, <1>4, <3>1, <3>2, FrameReach DEF RunOf, Snap
    <3>5. Derived(r, snap.node, Snap(t).node)
      BY <1>3, <1>4
    <3> QED
      BY <1>2, <1>3, <3>3, <3>4, <3>5, DerivedCounts
  <2> QED
    BY <1>3, <1>4, <2>1, <2>2
<1>5. FrameCounts(rows, cmds, r, f)
  BY <1>4 DEF FrameCounts
<1>6. \A g \in FramesOf(s) : g \in FramesOf(stack[t]) \/ FrameCounts(node'[r], cmd', r, g)
  BY <1>1, <1>3, <1>5, TopElements
<1> QED
  BY <1>3, <1>6, StackCounts

\* The calls of which CallCounts says nothing but what the copy is like.
CountedOps == {"decide", "record", "park", "dispatch", "again"}
Plain(calls) ==
  calls \in Seq(FramesOf(calls)) /\ \A call \in FramesOf(calls) : call.op \notin CountedOps

\* Such a call counts on a copy that does.
LEMMA PlainCall ==
  ASSUME NEW r, NEW rows, NEW cmds, NEW copy, NEW call, call.op \notin CountedOps,
         call.op \in TokenOps => CopyCounts(rows, cmds, r, copy)
  PROVE  CallCounts(rows, cmds, r, copy, call)
BY DEF CallCounts, CountedOps

\* A copy that is loaded counts.
LEMMA LoadedCounts ==
  ASSUME NEW r, Counts(r), NEW rows, NEW cmds, Fixed(r, rows, cmds)
  PROVE  CopyCounts(rows, cmds, r, node[r])
BY DEF Counts, RowsCount, RowCounts, CopyCounts, Fixed

\* The handlers that start no attempt and create no command.
LEMMA PlainCounts ==
  ASSUME TypeOK, NEW r \in Run, Alone(r), Counts(r), Steady(r), NEW t \in Thread, ~Idle(t),
         NEW snap, NEW calls, Return(t, snap, calls),
         r = RunOf(t) =>
           /\ Plain(calls)
           /\ \/ /\ Derived(r, snap.node, Snap(t).node)
                 /\ Call(t).op \in TokenOps \/ Quiet(calls)
              \/ snap.node = node[r] /\ Call(t).op \in TokenOps
  PROVE  Counts(r)'
<1>1. PICK rows, cmds : rows = node'[r] /\ cmds = cmd'
  OBVIOUS
<1>2. Fixed(r, rows, cmds)
  BY <1>1, SteadyTables
<1>3. CASE r # RunOf(t)
  BY <1>3, ReturnCounts
<1>4. CASE r = RunOf(t) /\ snap.node = node[r] /\ Call(t).op \in TokenOps
  <2>1. CopyCounts(rows, cmds, r, snap.node)
    BY <1>2, <1>4, LoadedCounts
  <2>2. /\ \A call \in FramesOf(calls) : CallCounts(node'[r], cmd', r, snap.node, call)
        /\ calls \in Seq(FramesOf(calls))
    BY <1>1, <1>4, <2>1, PlainCall DEF Plain
  <2> QED
    BY <1>4, <2>2, SteadyTables, TurnCounts
<1>5. CASE /\ r = RunOf(t) /\ Derived(r, snap.node, Snap(t).node)
           /\ Call(t).op \in TokenOps \/ Quiet(calls)
  <2>1. Call(t).op \in TokenOps => CopyCounts(node[r], cmd, r, Snap(t).node)
    BY <1>5, CallCounted DEF CallCounts
  <2>2. DOMAIN Snap(t).node \subseteq DOMAIN node[r]
    <3>1. Top(t) \in Frames(Owner, Attempts)
      BY TopElements, FramesTyped
    <3> QED
      BY <1>5, <3>1, FrameReach DEF RunOf, Snap
  <2>3. Call(t).op \in TokenOps => CopyCounts(rows, cmds, r, snap.node)
    BY <1>2, <1>5, <2>1, <2>2, DerivedCounts
  <2>4. ASSUME NEW call \in FramesOf(calls)
        PROVE  CallCounts(rows, cmds, r, snap.node, call)
    <3>1. call.op \notin CountedOps
      BY <1>5, <2>4 DEF Plain
    <3>2. call.op \in TokenOps => CopyCounts(rows, cmds, r, snap.node)
      BY <1>5, <2>3, <2>4 DEF Quiet
    <3> QED
      BY <3>1, <3>2, PlainCall
  <2>5. calls \in Seq(FramesOf(calls))
    BY <1>5 DEF Plain
  <2> QED
    BY <1>1, <1>5, <2>4, <2>5, ReturnCounts
<1> QED
  BY <1>3, <1>4, <1>5

\* The frame a handler enters or a request starts, with a copy loaded for it.
LEMMA FreshCounts ==
  ASSUME TypeOK, NEW r \in Run, Counts(r), Steady(r), NEW f,
         f.run = r => f.snap.node = node[r] /\ Plain(f.todo)
  PROVE  FrameCounts(node'[r], cmd', r, f)
<1>1. PICK rows, cmds : rows = node'[r] /\ cmds = cmd'
  OBVIOUS
<1>2. f.run = r => CopyCounts(rows, cmds, r, f.snap.node)
  BY <1>1, SteadyTables, LoadedCounts
<1> QED
  BY <1>1, <1>2, PlainCall DEF FrameCounts, Plain

\* The frame that waits for one that is entered.
LEMMA CallerCounts ==
  ASSUME TypeOK, NEW r \in Run, Counts(r), Steady(r), NEW t \in Thread, ~Idle(t),
         NEW f, f.run = RunOf(t), f.snap.node = Snap(t).node,
         FramesOf(f.todo) \subseteq FramesOf(Top(t).todo)
  PROVE  FrameCounts(node'[r], cmd', r, f)
<1>1. PICK rows, cmds : rows = node'[r] /\ cmds = cmd'
  OBVIOUS
<1>2. Top(t) \in Frames(Owner, Attempts) /\ FrameCounts(node[r], cmd, r, Top(t))
  BY TopElements, FramesTyped DEF Counts, FramesCount
<1>3. FrameCounts(rows, cmds, r, Top(t))
  BY <1>1, <1>2, SteadyTables, StillCounts
<1> QED
  BY <1>1, <1>3 DEF FrameCounts, RunOf, Snap

\* An idle thread starts one.
LEMMA StartCounts ==
  ASSUME TypeOK, NEW r \in Run, Counts(r), Steady(r), NEW t \in Thread, NEW f,
         stack' = [stack EXCEPT ![t] = <<f>>],
         f.run = r => f.snap.node = node[r] /\ Plain(f.todo)
  PROVE  Counts(r)'
<1>1. FramesOf(<<f>>) = {f}
  BY TupleElements
<1> QED
  BY <1>1, FreshCounts, StackCounts

\* A handler enters one.
LEMMA EnterCounts ==
  ASSUME TypeOK, NEW r \in Run, Counts(r), Steady(r), NEW t \in Thread, ~Idle(t), NEW f,
         Enter(t, f), f.run = r => f.snap.node = node[r] /\ Plain(f.todo)
  PROVE  Counts(r)'
<1>1. stack' = [stack EXCEPT ![t] = Push(f, Push(Caller(t), Tail(stack[t])))]
  BY DEF Enter, SetStack
<1>2. /\ Caller(t).run = RunOf(t) /\ Caller(t).snap = Snap(t)
      /\ Caller(t).todo = Tail(Top(t).todo)
  BY DEF Caller, Frame
<1>3. FrameCounts(node'[r], cmd', r, Caller(t))
  <2>1. PICK g : g = Caller(t)
    OBVIOUS
  <2> QED
    BY <1>2, <2>1, CallerCounts, TopElements
<1>4. FrameCounts(node'[r], cmd', r, f)
  BY FreshCounts
<1>5. Tail(stack[t]) \in Seq(FramesOf(Tail(stack[t])))
  BY TopPlaces, ElementsOf
<1>6. PICK s : /\ s = Push(Caller(t), Tail(stack[t])) /\ s \in Seq(FramesOf(s))
               /\ FramesOf(s) \subseteq {Caller(t)} \cup FramesOf(Tail(stack[t]))
  BY <1>5, PushElements
<1>7. FramesOf(Push(f, s)) \subseteq {f} \cup FramesOf(s)
  BY <1>6, PushElements
<1>8. \A g \in FramesOf(Push(f, s)) :
        g \in FramesOf(stack[t]) \/ FrameCounts(node'[r], cmd', r, g)
  BY <1>3, <1>4, <1>6, <1>7, TopElements
<1> QED
  BY <1>1, <1>6, <1>8, StackCounts

-----------------------------------------------------------------------------
\* Steps that write no node, a state, a retry of what the node already has, or
\* the nodes of a new run.
LEMMA SteadyRows ==
  ASSUME TypeOK, NEW r \in Run
  PROVE  /\ UNCHANGED node => RowsSteady(r)
         /\ \A s, c, k, row :
              /\ WriteRow(s, c, k, row)
              /\ s = r => row.tries = node[r][c][k].tries /\ row.state # "PENDING"
              => RowsSteady(r)
         /\ \A s, c, k, state :
              /\ UpdateNodeRun(s, c, k, state)
              /\ s = r /\ state = "PENDING" => MadeFor(cmd, <<r, c, k>>) = {}
              => RowsSteady(r)
         /\ \A s \in Run : \A parent : CreateWorkflowRun(s, parent) => RowsSteady(r)
<1>1. UNCHANGED node => RowsSteady(r)
  BY DEF RowsSteady
<1>2. ASSUME NEW s, NEW c, NEW k, NEW row, WriteRow(s, c, k, row),
             s = r /\ c \in DOMAIN node[r] /\ k \in Key(r) =>
               /\ row.tries = node[r][c][k].tries
               /\ row.state = "PENDING" => MadeFor(cmd, <<r, c, k>>) = {}
      PROVE  RowsSteady(r)
  <2>1. /\ DOMAIN node'[r] = DOMAIN node[r]
        /\ \A d \in DOMAIN node[r], j \in Key(r) :
             node'[r][d][j] = IF r = s /\ d = c /\ j = k THEN row ELSE node[r][d][j]
    BY <1>2, WrittenRows
  <2>2. PICK rows : rows = node'[r]
    OBVIOUS
  <2>3. ASSUME NEW d \in DOMAIN node[r], NEW j \in Key(r)
        PROVE  /\ rows[d][j].tries = node[r][d][j].tries
               /\ rows[d][j].state = "PENDING"
                  => node[r][d][j].state = "PENDING" \/ MadeFor(cmd, <<r, d, j>>) = {}
    <3>1. CASE r = s /\ d = c /\ j = k
      BY <1>2, <2>1, <2>2, <2>3, <3>1
    <3>2. CASE ~(r = s /\ d = c /\ j = k)
      BY <2>1, <2>2, <2>3, <3>2
    <3> QED
      BY <3>1, <3>2
  <2> QED
    BY <2>1, <2>2, <2>3 DEF RowsSteady
<1>3. ASSUME NEW s, NEW c, NEW k, NEW row, WriteRow(s, c, k, row),
             s = r => row.tries = node[r][c][k].tries /\ row.state # "PENDING"
      PROVE  RowsSteady(r)
  BY <1>2, <1>3
<1>4. ASSUME NEW s, NEW c, NEW k, NEW state, UpdateNodeRun(s, c, k, state),
             s = r /\ state = "PENDING" => MadeFor(cmd, <<r, c, k>>) = {}
      PROVE  RowsSteady(r)
  <2>1. PICK row : row = [node[s][c][k] EXCEPT !.state = state]
    OBVIOUS
  <2>2. WriteRow(s, c, k, row)
    BY <1>4, <2>1 DEF UpdateNodeRun, WriteRow
  <2>3. s = r /\ c \in DOMAIN node[r] /\ k \in Key(r) =>
          row.tries = node[r][c][k].tries /\ row.state = state
    <3>1. s = r /\ c \in DOMAIN node[r] /\ k \in Key(r) => node[r][c][k] \in NodeRow
      BY <2>2, WrittenRows
    <3> QED
      BY <2>1, <3>1 DEF NodeRow
  <2> QED
    BY <1>2, <1>4, <2>2, <2>3
<1>5. ASSUME NEW s \in Run, NEW parent, CreateWorkflowRun(s, parent)
      PROVE  RowsSteady(r)
  <2>1. node' = [node EXCEPT ![s] = <<FreshNodes(s)>>] /\ DOMAIN node = Run
    BY <1>5 DEF CreateWorkflowRun, TypeOK, RunsOK
  <2>2. CASE r # s
    BY <2>1, <2>2 DEF RowsSteady
  <2>3. CASE r = s
    <3>1. node[r] = <<>>
      BY <1>5, <2>3 DEF CreateWorkflowRun, TypeOK, RunsOK
    <3>2. DOMAIN node[r] = {}
      BY <3>1
    <3>3. node'[r] = <<FreshNodes(r)>>
      BY <2>1, <2>3
    <3>4. \A c \in DOMAIN node'[r], k \in Key(r) : node'[r][c][k].tries = 1
      BY <3>3 DEF FreshNodes
    <3> QED
      BY <3>2, <3>4 DEF RowsSteady
  <2> QED
    BY <2>2, <2>3
<1> QED
  BY <1>1, <1>3, <1>4, <1>5

\* Steps that create no command of the run.
LEMMA SteadyCommands ==
  ASSUME TypeOK, NEW r
  PROVE  /\ UNCHANGED cmd => CommandsSteady(r)
         /\ /\ DOMAIN cmd' = DOMAIN cmd
            /\ \A i \in DOMAIN cmd : /\ cmd'[i].run = cmd[i].run /\ cmd'[i].c = cmd[i].c
                                     /\ cmd'[i].k = cmd[i].k
            => CommandsSteady(r)
         /\ \A i, x : /\ cmd' = [cmd EXCEPT ![i].state = x] => CommandsSteady(r)
                      /\ cmd' = [cmd EXCEPT ![i].live = x] => CommandsSteady(r)
                      /\ cmd' = [cmd EXCEPT ![i].fired = x] => CommandsSteady(r)
         /\ \A row : cmd' = Append(cmd, row) /\ row.run # r => CommandsSteady(r)
<1>1. UNCHANGED cmd => CommandsSteady(r)
  BY DEF CommandsSteady, MadeFor
<1>2. ASSUME DOMAIN cmd' = DOMAIN cmd,
             \A i \in DOMAIN cmd : /\ cmd'[i].run = cmd[i].run /\ cmd'[i].c = cmd[i].c
                                   /\ cmd'[i].k = cmd[i].k
      PROVE  CommandsSteady(r)
  BY <1>2 DEF CommandsSteady, MadeFor
<1>3. DOMAIN cmd = 1..Len(cmd) /\ Len(cmd) \in Nat /\ \A i \in DOMAIN cmd : cmd[i] \in CommandRow
      /\ cmd \in [DOMAIN cmd -> CommandRow]
  BY CommandsParts, LenProperties DEF TypeOK, CommandsOK
<1>4. ASSUME NEW i, NEW x
      PROVE  /\ cmd' = [cmd EXCEPT ![i].state = x] => CommandsSteady(r)
             /\ cmd' = [cmd EXCEPT ![i].live = x] => CommandsSteady(r)
             /\ cmd' = [cmd EXCEPT ![i].fired = x] => CommandsSteady(r)
  <2>1. CASE cmd' = [cmd EXCEPT ![i].state = x]
    BY <1>2, <1>3, <2>1 DEF CommandRow
  <2>2. CASE cmd' = [cmd EXCEPT ![i].live = x]
    BY <1>2, <1>3, <2>2 DEF CommandRow
  <2>3. CASE cmd' = [cmd EXCEPT ![i].fired = x]
    BY <1>2, <1>3, <2>3 DEF CommandRow
  <2> QED
    BY <2>1, <2>2, <2>3
<1>5. ASSUME NEW row, cmd' = Append(cmd, row), row.run # r PROVE CommandsSteady(r)
  <2>1. /\ DOMAIN cmd' = DOMAIN cmd \cup {Len(cmd) + 1} /\ Len(cmd) + 1 \notin DOMAIN cmd
        /\ \A i \in DOMAIN cmd : cmd'[i] = cmd[i]
        /\ cmd'[Len(cmd) + 1] = row
    BY <1>3, <1>5 DEF TypeOK, CommandsOK
  <2>2. ASSUME NEW c, NEW k, NEW i
        PROVE  i \in MadeFor(cmd', <<r, c, k>>) <=> i \in MadeFor(cmd, <<r, c, k>>)
    <3>1. CASE i \in DOMAIN cmd
      BY <2>1, <3>1 DEF MadeFor
    <3>2. CASE i \notin DOMAIN cmd
      BY <1>5, <2>1, <3>2 DEF MadeFor
    <3> QED
      BY <3>1, <3>2
  <2>3. ASSUME NEW c, NEW k
        PROVE  MadeFor(cmd', <<r, c, k>>) = MadeFor(cmd, <<r, c, k>>)
    BY <2>2
  <2> QED
    BY <2>3 DEF CommandsSteady
<1> QED
  BY <1>1, <1>2, <1>4, <1>5

\* Steps that schedule no retry of the run.
LEMMA SteadyTasks ==
  ASSUME NEW r
  PROVE  /\ UNCHANGED timer => TasksSteady(r)
         /\ \A task : timer' = BagRemove(timer, task) => TasksSteady(r)
         /\ timer' = EmptyBag => TasksSteady(r)
         /\ \A task : timer' = BagAdd(timer, task) /\ (task.kind # "retry" \/ task.run # r)
                      => TasksSteady(r)
<1>1. UNCHANGED timer => TasksSteady(r)
  BY DEF TasksSteady
<1>2. ASSUME NEW task, timer' = BagRemove(timer, task) PROVE TasksSteady(r)
  <2>1. DOMAIN timer' \subseteq DOMAIN timer
    BY <1>2, TaskRemoved
  <2> QED
    BY <2>1 DEF TasksSteady
<1>3. timer' = EmptyBag => TasksSteady(r)
  BY DEF TasksSteady, EmptyBag, SetToBag
<1>4. ASSUME NEW task, timer' = BagAdd(timer, task), task.kind # "retry" \/ task.run # r
      PROVE  TasksSteady(r)
  <2>1. DOMAIN timer' = DOMAIN timer \cup {task}
    BY <1>4 DEF BagAdd
  <2> QED
    BY <1>4, <2>1 DEF TasksSteady
<1> QED
  BY <1>1, <1>2, <1>3, <1>4

\* What a step leaves alone is steady.
LEMMA SteadyWhole ==
  ASSUME TypeOK, NEW r \in Run
  PROVE  /\ UNCHANGED <<node, cmd, timer>> => Steady(r)
         /\ UNCHANGED <<cmd, timer>> /\ RowsSteady(r) => Steady(r)
         /\ UNCHANGED <<node, timer>> /\ CommandsSteady(r) => Steady(r)
         /\ UNCHANGED <<node, cmd>> /\ TasksSteady(r) => Steady(r)
         /\ \A s, c, k, state :
              /\ UpdateNodeRun(s, c, k, state) /\ state # "PENDING" /\ UNCHANGED <<cmd, timer>>
              => Steady(r)
BY SteadyRows, SteadyCommands, SteadyTasks DEF Steady

\* The copies handlers make of the one they have.
LEMMA CopyDerived ==
  ASSUME TypeOK, NEW t \in Thread, ~Idle(t), NEW r, r = RunOf(t)
  PROVE  /\ \A snap : snap.node = Snap(t).node => Derived(r, snap.node, Snap(t).node)
         /\ \A x : /\ WithState(Snap(t), x).node = Snap(t).node
                   /\ WithMark(Snap(t), x).node = Snap(t).node
                   /\ WithCommands(Snap(t), x).node = Snap(t).node
                   /\ WithWaiting(Snap(t), x).node = Snap(t).node
         /\ WithNext(Snap(t)).node = Snap(t).node
         /\ \A c, k, state : state # "PENDING"
              => Derived(r, SetNode(Snap(t), c, k, state).node, Snap(t).node)
<1>1. /\ Snap(t) \in Snapshot(r, Owner, Attempts) /\ r \in Run
      /\ Snap(t).node \in NodeRows(r)
  BY CallParts, SnapshotParts
<1>2. Snap(t) \in [state : RunState, cycle : Nat, next : BOOLEAN, node : NodeRows(r),
                   traversed : SUBSET Traversal(r), commands : SUBSET DOMAIN Owner,
                   waiting : SUBSET NodeRun(Attempts)]
  BY <1>1 DEF Snapshot
<1>3. /\ \A x : /\ WithState(Snap(t), x).node = Snap(t).node
                /\ WithMark(Snap(t), x).node = Snap(t).node
                /\ WithCommands(Snap(t), x).node = Snap(t).node
                /\ WithWaiting(Snap(t), x).node = Snap(t).node
      /\ WithNext(Snap(t)).node = Snap(t).node
  BY <1>2 DEF WithState, WithMark, WithCommands, WithWaiting, WithNext
<1>4. ASSUME NEW c, NEW k, NEW state, state # "PENDING"
      PROVE  Derived(r, SetNode(Snap(t), c, k, state).node, Snap(t).node)
  <2>1. PICK copy : copy = Snap(t).node
    OBVIOUS
  <2>2. SetNode(Snap(t), c, k, state).node = [copy EXCEPT ![c][k].state = state]
    BY <1>2, <2>1 DEF SetNode
  <2>3. copy \in [DOMAIN copy -> [Key(r) -> NodeRow]]
    BY <1>1, <2>1, LenProperties DEF NodeRows
  <2>4. DOMAIN [copy EXCEPT ![c][k].state = state] = DOMAIN copy
    BY <2>3
  <2>5. ASSUME NEW d \in DOMAIN copy, NEW j \in Key(r)
        PROVE  /\ [copy EXCEPT ![c][k].state = state][d][j].tries = copy[d][j].tries
               /\ [copy EXCEPT ![c][k].state = state][d][j].state = "PENDING"
                  => copy[d][j].state = "PENDING"
    <3>1. copy[d] \in [Key(r) -> NodeRow] /\ copy[d][j] \in NodeRow
      BY <2>3
    <3>2. CASE d = c /\ j = k
      <4>1. [copy EXCEPT ![c][k].state = state][d][j] = [copy[d][j] EXCEPT !.state = state]
        BY <2>3, <3>1, <3>2
      <4> QED
        BY <1>4, <3>1, <4>1 DEF NodeRow
    <3>3. CASE ~(d = c /\ j = k)
      <4>1. [copy EXCEPT ![c][k].state = state][d][j] = copy[d][j]
        BY <2>3, <3>1, <3>3
      <4> QED
        BY <4>1
    <3> QED
      BY <3>2, <3>3
  <2> QED
    BY <2>1, <2>2, <2>4, <2>5 DEF Derived
<1> QED
  BY <1>3, <1>4 DEF Derived

\* The lists of calls handlers leave.
LEMMA PlainCalls ==
  /\ Plain(<<>>)
  /\ \A a : a.op \notin CountedOps => Plain(<<a>>)
  /\ \A u, v : Plain(u) /\ Plain(v) => Plain(u \o v)
  /\ \A a, b : a.op \notin CountedOps /\ b.op \notin CountedOps => Plain(<<a, b>>)
  /\ \A a, b, c : a.op \notin CountedOps /\ b.op \notin CountedOps /\ c.op \notin CountedOps
       => Plain(<<a, b, c>>)
<1>1. Plain(<<>>)
  BY TupleElements DEF Plain
<1>2. ASSUME NEW a, a.op \notin CountedOps PROVE Plain(<<a>>)
  <2>1. <<a>> \in Seq(FramesOf(<<a>>)) /\ FramesOf(<<a>>) = {a}
    BY TupleElements
  <2> QED
    BY <1>2, <2>1 DEF Plain
<1>3. ASSUME NEW u, NEW v, Plain(u), Plain(v) PROVE Plain(u \o v)
  BY <1>3, ConcatElements DEF Plain
<1>4. ASSUME NEW a, NEW b, a.op \notin CountedOps, b.op \notin CountedOps
      PROVE  Plain(<<a, b>>)
  <2>1. <<a, b>> \in Seq(FramesOf(<<a, b>>)) /\ FramesOf(<<a, b>>) = {a, b}
    BY TupleElements
  <2> QED
    BY <1>4, <2>1 DEF Plain
<1>5. ASSUME NEW a, NEW b, NEW c,
             a.op \notin CountedOps, b.op \notin CountedOps, c.op \notin CountedOps
      PROVE  Plain(<<a, b, c>>)
  <2>1. /\ <<a, b, c>> \in Seq(FramesOf(<<a, b, c>>))
        /\ FramesOf(<<a, b, c>>) = {a, b, c}
    <3>1. FramesOf(<<a, b, c>>) = {a, b, c}
      BY DEF FramesOf
    <3>2. <<a, b, c>> \in Seq({a, b, c})
      OBVIOUS
    <3> QED
      BY <3>1, <3>2
  <2> QED
    BY <1>5, <2>1 DEF Plain
<1> QED
  BY <1>1, <1>2, <1>3, <1>4, <1>5

\* Following edges and emitting a result leave such lists.
LEMMA PlainFollow ==
  ASSUME NEW r
  PROVE  /\ \A src, kind, event, i : Plain(FollowFrom(r, src, kind, event, i))
         /\ \A src, kind, event : Plain(FollowEdges(r, src, kind, event))
         /\ \A src, kind : Plain(FollowEdges(r, src, kind, NoEvent) \o <<Op("maybeFinish")>>)
         /\ \A k, ok : Plain(EmitResult(r, k, ok))
<1>1. ASSUME NEW src, NEW kind, NEW event, NEW i
      PROVE  Plain(FollowFrom(r, src, kind, event, i))
  <2>1. \A j : OnIndex("edge", j).op \notin CountedOps
    BY DEF OnIndex, Op, CountedOps
  <2> QED
    BY <2>1, PlainCalls DEF FollowFrom
<1>2. \A src, kind, event : Plain(FollowEdges(r, src, kind, event))
  BY <1>1 DEF FollowEdges
<1>3. Plain(<<Op("maybeFinish")>>)
  <2>1. Op("maybeFinish").op \notin CountedOps
    BY DEF Op, CountedOps
  <2> QED
    BY <2>1, PlainCalls
<1>4. \A src, kind : Plain(FollowEdges(r, src, kind, NoEvent) \o <<Op("maybeFinish")>>)
  BY <1>2, <1>3, PlainCalls
<1>5. \A ev : Plain(<<[Op("inject") EXCEPT !.ev = ev]>>)
  <2>1. \A ev : [Op("inject") EXCEPT !.ev = ev].op \notin CountedOps
    BY DEF Op, CountedOps
  <2> QED
    BY <2>1, PlainCalls
<1>6. \A k, ok : Plain(EmitResult(r, k, ok))
  BY <1>2, <1>5, PlainCalls DEF EmitResult
<1> QED
  BY <1>1, <1>2, <1>4, <1>6

\* What PlainCounts asks of the handler of a run.
GoesPlainly(t, r, snap, calls) ==
  r = RunOf(t) =>
    /\ Plain(calls)
    /\ \/ /\ Derived(r, snap.node, Snap(t).node)
          /\ Call(t).op \in TokenOps \/ Quiet(calls)
       \/ snap.node = node[r] /\ Call(t).op \in TokenOps

\* A node is passed or failed, a DELAY or a confirmation begins, an edge leads
\* nowhere new, a run is ended or cancelled.
LEMMA StepCountsOn ==
  ASSUME TypeOK, HandlersSuit, NEW r \in Run, Counted(r), Alone(r), Counts(r),
         NEW t \in Thread,
         \/ CompleteNode(t) \/ FailNode(t) \/ ExecuteContext(t) \/ Bootstrap(t)
         \/ FailRun(t) \/ CancelRun(t) \/ FailWithoutStart(t) \/ MaybeFinishRun(t)
  PROVE  Counts(r)'
<1>1. CASE CompleteNode(t)
  <2>1. PICK c, k, snap, calls :
          /\ snap = SetNode(Snap(t), c, k, "SUCCEEDED") /\ Return(t, snap, calls)
          /\ UpdateNodeRun(RunOf(t), c, k, "SUCCEEDED")
          /\ calls = IF TypeOf(RunOf(t), k) = "END" THEN <<Op("finish")>>
                     ELSE FollowEdges(RunOf(t), k, "success", NoEvent)
                          \o <<Op("maybeFinish")>>
    BY <1>1 DEF CompleteNode
  <2>2. ~Idle(t) /\ Call(t).op \in TokenOps /\ UNCHANGED <<cmd, timer>>
    BY <1>1 DEF CompleteNode, Calls, TokenOps
  <2>3. Steady(r)
    BY <2>1, <2>2, SteadyWhole
  <2>4. Plain(<<Op("finish")>>)
    <3>1. Op("finish").op \notin CountedOps
      BY DEF Op, CountedOps
    <3> QED
      BY <3>1, PlainCalls
  <2>5. GoesPlainly(t, r, snap, calls)
    BY <2>1, <2>2, <2>4, PlainFollow, CopyDerived DEF GoesPlainly
  <2> QED
    BY <2>1, <2>2, <2>3, <2>5, PlainCounts DEF GoesPlainly
<1>2. CASE FailNode(t)
  <2>1. PICK c, k, snap, calls :
          /\ snap = SetNode(Snap(t), c, k, "FAILED") /\ Return(t, snap, calls)
          /\ UpdateNodeRun(RunOf(t), c, k, "FAILED")
          /\ calls = IF HasFailureEdge(RunOf(t), k)
                     THEN FollowEdges(RunOf(t), k, "failure", NoEvent)
                          \o <<Op("maybeFinish")>>
                     ELSE <<Op("failRun"), NotifyParent(FALSE)>>
    BY <1>2 DEF FailNode
  <2>2. ~Idle(t) /\ Call(t).op \in TokenOps /\ UNCHANGED <<cmd, timer>>
    BY <1>2 DEF FailNode, Calls, TokenOps
  <2>3. Steady(r)
    BY <2>1, <2>2, SteadyWhole
  <2>4. Plain(<<Op("failRun"), NotifyParent(FALSE)>>)
    <3>1. Op("failRun").op \notin CountedOps /\ NotifyParent(FALSE).op \notin CountedOps
      BY DEF Op, CountedOps, NotifyParent, WithOutcome
    <3> QED
      BY <3>1, PlainCalls
  <2>5. GoesPlainly(t, r, snap, calls)
    BY <2>1, <2>2, <2>4, PlainFollow, CopyDerived DEF GoesPlainly
  <2> QED
    BY <2>1, <2>2, <2>3, <2>5, PlainCounts DEF GoesPlainly
<1>3. CASE ExecuteContext(t)
  <2>1. /\ Return(t, Snap(t), <<OnKey("complete", Call(t).k)>>)
        /\ ~Idle(t) /\ Call(t).op \in TokenOps /\ UNCHANGED <<node, cmd, timer>>
    BY <1>3 DEF ExecuteContext, Calls, TokenOps
  <2>2. \A k : OnKey("complete", k).op \notin CountedOps
    BY DEF OnKey, Op, CountedOps
  <2>3. GoesPlainly(t, r, Snap(t), <<OnKey("complete", Call(t).k)>>)
    BY <2>1, <2>2, PlainCalls, CopyDerived DEF GoesPlainly
  <2> QED
    BY <2>1, <2>3, SteadyWhole, PlainCounts DEF GoesPlainly
<1>4. CASE Bootstrap(t)
  <2>1. PICK snap, calls :
          /\ snap = Load(RunOf(t)) /\ Return(t, snap, calls)
          /\ calls = <<Op("orphan")>> \/ \E k : calls = <<OnKey("complete", k)>>
    BY <1>4 DEF Bootstrap
  <2>2. ~Idle(t) /\ Call(t).op \in TokenOps /\ UNCHANGED <<node, cmd, timer>>
    BY <1>4 DEF Bootstrap, Calls, TokenOps, db
  <2>3. /\ \A k : OnKey("complete", k).op \notin CountedOps
        /\ Op("orphan").op \notin CountedOps
    BY DEF OnKey, Op, CountedOps
  <2>4. snap.node = node[RunOf(t)]
    BY <2>1 DEF Load
  <2>5. GoesPlainly(t, r, snap, calls)
    BY <2>1, <2>2, <2>3, <2>4, PlainCalls DEF GoesPlainly
  <2> QED
    BY <2>1, <2>2, <2>5, SteadyWhole, PlainCounts DEF GoesPlainly
<1>5. CASE FailRun(t) \/ CancelRun(t) \/ FailWithoutStart(t) \/ MaybeFinishRun(t)
  <2>1. PICK snap, calls :
          /\ Return(t, snap, calls)
          /\ snap = Snap(t) \/ \E state : snap = WithState(Snap(t), state)
          /\ calls = <<>> \/ calls = <<NotifyParent(TRUE)>>
    <3>1. CASE FailRun(t)
      BY <3>1 DEF FailRun, WithState
    <3>2. CASE CancelRun(t)
      BY <3>2 DEF CancelRun, WithState
    <3>3. CASE FailWithoutStart(t)
      BY <3>3 DEF FailWithoutStart, Skip
    <3>4. CASE MaybeFinishRun(t)
      <4>1. \/ Return(t, Snap(t), <<>>)
            \/ Return(t, WithState(Snap(t), "SUCCEEDED"), <<NotifyParent(TRUE)>>)
        BY <3>4 DEF MaybeFinishRun, Skip, WithState
      <4> QED
        BY <4>1
    <3> QED
      BY <1>5, <3>1, <3>2, <3>3, <3>4
  <2>2. ~Idle(t) /\ UNCHANGED <<node, cmd, timer>>
    <3>1. CASE FailRun(t) \/ CancelRun(t)
      BY <3>1 DEF FailRun, CancelRun, Calls
    <3>2. CASE MaybeFinishRun(t)
      BY <3>2 DEF MaybeFinishRun, Calls
    <3>3. CASE FailWithoutStart(t)
      BY <3>3 DEF FailWithoutStart, Calls
    <3> QED
      BY <1>5, <3>1, <3>2, <3>3
  <2>3. Plain(calls) /\ Quiet(calls)
    <3>1. NotifyParent(TRUE).op \notin CountedOps
      BY DEF Op, CountedOps, NotifyParent, WithOutcome
    <3> QED
      BY <2>1, <3>1, PlainCalls, OneFinishes, OneTogether
  <2>4. r = RunOf(t) => snap.node = Snap(t).node
    BY <2>1, <2>2, CopyDerived
  <2>5. GoesPlainly(t, r, snap, calls)
    BY <2>2, <2>3, <2>4, CopyDerived DEF GoesPlainly
  <2> QED
    BY <2>1, <2>2, <2>5, SteadyWhole, PlainCounts DEF GoesPlainly
<1> QED
  BY <1>1, <1>2, <1>3, <1>4, <1>5

\* A run is repeated, a node waits for the timer, for an event or for its child,
\* or has its output stored.
LEMMA StepCountsWaiting ==
  ASSUME TypeOK, HandlersSuit, NEW r \in Run, Counted(r), Alone(r), Counts(r),
         NEW t \in Thread,
         \/ FinishOrRepeat(t) \/ ExecuteDelay(t) \/ ExecuteWait(t) \/ ExecuteSubflow(t)
         \/ StoreOutput(t)
  PROVE  Counts(r)'
<1>1. CASE FinishOrRepeat(t)
  <2>1. \/ Return(t, WithState(Snap(t), "SUCCEEDED"), <<NotifyParent(TRUE)>>) /\ UNCHANGED timer
        \/ Return(t, Snap(t), <<>>) /\ UNCHANGED timer
        \/ /\ Return(t, WithNext(Snap(t)), <<>>)
           /\ timer' = BagAdd(timer, [kind |-> "cycle", run |-> RunOf(t),
                                      c |-> Snap(t).cycle + 1, k |-> ""])
    BY <1>1 DEF FinishOrRepeat, WithState, WithNext, Skip
  <2>2. ~Idle(t) /\ Call(t).op \in TokenOps /\ UNCHANGED <<node, cmd>>
    BY <1>1 DEF FinishOrRepeat, Calls, TokenOps
  <2>3. PICK snap, calls :
          /\ Return(t, snap, calls)
          /\ snap = Snap(t) \/ snap = WithState(Snap(t), "SUCCEEDED") \/ snap = WithNext(Snap(t))
          /\ calls = <<>> \/ calls = <<NotifyParent(TRUE)>>
    BY <2>1
  <2>4. TasksSteady(r)
    <3>1. CASE UNCHANGED timer
      BY <3>1, SteadyTasks
    <3>2. CASE timer' = BagAdd(timer, [kind |-> "cycle", run |-> RunOf(t),
                                       c |-> Snap(t).cycle + 1, k |-> ""])
      <4>1. PICK task : task = [kind |-> "cycle", run |-> RunOf(t),
                                c |-> Snap(t).cycle + 1, k |-> ""]
        OBVIOUS
      <4>2. task.kind # "retry"
        BY <4>1
      <4> QED
        BY <3>2, <4>1, <4>2, SteadyTasks
    <3> QED
      BY <2>1, <3>1, <3>2
  <2>5. Plain(calls)
    <3>1. NotifyParent(TRUE).op \notin CountedOps
      BY DEF Op, CountedOps, NotifyParent, WithOutcome
    <3> QED
      BY <2>3, <3>1, PlainCalls
  <2>6. r = RunOf(t) => snap.node = Snap(t).node
    BY <2>2, <2>3, CopyDerived
  <2>7. GoesPlainly(t, r, snap, calls)
    BY <2>2, <2>5, <2>6, CopyDerived DEF GoesPlainly
  <2> QED
    BY <2>2, <2>3, <2>4, <2>7, SteadyWhole, PlainCounts DEF GoesPlainly
<1>2. CASE ExecuteDelay(t)
  <2>1. PICK task : /\ task.kind = "delay" /\ timer' = BagAdd(timer, task)
                    /\ Return(t, Snap(t), <<>>)
                    /\ UpdateNodeRun(RunOf(t), Call(t).c, Call(t).k, "RUNNING")
    <3>1. PICK task : task = [kind |-> "delay", run |-> RunOf(t), c |-> Call(t).c, k |-> Call(t).k]
      OBVIOUS
    <3>2. task.kind = "delay"
      BY <3>1
    <3> QED
      BY <1>2, <3>1, <3>2 DEF ExecuteDelay, Skip
  <2>2. ~Idle(t) /\ Call(t).op \in TokenOps /\ UNCHANGED cmd
    BY <1>2 DEF ExecuteDelay, Calls, TokenOps
  <2>3. Steady(r)
    <3>1. RowsSteady(r)
      BY <2>1, SteadyRows
    <3>2. TasksSteady(r)
      BY <2>1, SteadyTasks
    <3> QED
      BY <2>2, <3>1, <3>2, SteadyCommands DEF Steady
  <2>4. GoesPlainly(t, r, Snap(t), <<>>)
    BY <2>2, PlainCalls, CopyDerived DEF GoesPlainly
  <2> QED
    BY <2>1, <2>2, <2>3, <2>4, PlainCounts DEF GoesPlainly
<1>3. CASE ExecuteWait(t) \/ ExecuteSubflow(t)
  <2>1. PICK c, k, state, calls :
          /\ UpdateNodeRun(RunOf(t), c, k, state) /\ state # "PENDING"
          /\ Return(t, SetNode(Snap(t), c, k, state), calls)
          /\ calls = <<>> \/ calls = <<OnNode("spawn", c, k)>>
    <3>1. CASE ExecuteWait(t)
      BY <3>1 DEF ExecuteWait
    <3>2. CASE ExecuteSubflow(t)
      BY <3>2 DEF ExecuteSubflow
    <3> QED
      BY <1>3, <3>1, <3>2
  <2>2. ~Idle(t) /\ UNCHANGED <<cmd, timer>>
    <3>1. CASE ExecuteWait(t)
      BY <3>1 DEF ExecuteWait, Calls
    <3>2. CASE ExecuteSubflow(t)
      BY <3>2 DEF ExecuteSubflow, Calls
    <3> QED
      BY <1>3, <3>1, <3>2
  <2>3. Plain(calls) /\ Quiet(calls)
    <3>1. OnNode("spawn", c, k).op \notin CountedOps \cup TokenOps
      BY DEF OnNode, Op, CountedOps, TokenOps
    <3> QED
      BY <2>1, <3>1, PlainCalls, OneTogether
  <2>4. GoesPlainly(t, r, SetNode(Snap(t), c, k, state), calls)
    BY <2>1, <2>2, <2>3, CopyDerived DEF GoesPlainly
  <2> QED
    BY <2>1, <2>2, <2>4, SteadyWhole, PlainCounts DEF GoesPlainly
<1>4. CASE StoreOutput(t)
  <2>1. /\ Return(t, Snap(t), <<>>) /\ UNCHANGED <<cmd, timer>>
        /\ ~Idle(t) /\ Call(t).op \in {"park", "link", "stamp"}
    BY <1>4 DEF StoreOutput, Skip, Calls
  <2>2. PICK c, k, state :
          /\ UpdateNodeRun(RunOf(t), c, k, state) /\ c = Call(t).c /\ k = Call(t).k
          /\ state = CASE Call(t).op = "park" -> "PENDING"
                       [] Call(t).op = "link" -> "WAITING_EVENT"
                       [] Call(t).op = "stamp" -> "RUNNING"
    BY <1>4 DEF StoreOutput
  <2>3. RunOf(t) = r /\ state = "PENDING" => MadeFor(cmd, <<r, c, k>>) = {}
    <3>1. state = "PENDING" => Call(t).op = "park"
      BY <2>1, <2>2
    <3> QED
      BY <2>1, <2>2, <3>1, CallCounted DEF CallCounts
  <2>4. RowsSteady(r)
    BY <2>2, <2>3, SteadyRows
  <2>5. GoesPlainly(t, r, Snap(t), <<>>)
    BY <2>1, PlainCalls, CopyDerived, OneTogether DEF GoesPlainly
  <2> QED
    BY <2>1, <2>4, <2>5, SteadyWhole, PlainCounts DEF GoesPlainly
<1> QED
  BY <1>1, <1>2, <1>3, <1>4

\* A command is given to the robot or refused, marked or done, and its result
\* applied.
LEMMA StepCountsCommands ==
  ASSUME TypeOK, HandlersSuit, NEW r \in Run, Counted(r), Alone(r), Counts(r),
         NEW t \in Thread,
         \/ SendCommand(t) \/ RefuseCommand(t) \/ MarkDispatched(t) \/ TopicPublished(t)
         \/ ApplyResult(t) \/ ApplySshResult(t) \/ CancelCommand(t)
  PROVE  Counts(r)'
<1>1. CASE SendCommand(t)
  <2>1. /\ ~Idle(t) /\ Call(t).op \in HandOps /\ Call(t).op \in TokenOps
        /\ UNCHANGED <<node, timer>>
    BY <1>1 DEF SendCommand, Calls, HandOps, TokenOps
  <2>2. Call(t) \in OpRecord
    BY <2>1, CallParts DEF HandOps, CommandOps
  <2>3. PICK a, b, c, p :
          /\ a = After(t, "mark") /\ b = OnNode("stamp", Call(t).c, Call(t).k)
          /\ c = After(t, "hand") /\ p = After(t, "published")
    OBVIOUS
  <2>4. /\ a.op \notin CountedOps /\ b.op \notin CountedOps
        /\ c.op \notin CountedOps /\ p.op \notin CountedOps
    BY <2>2, <2>3 DEF After, OnNode, Op, CountedOps, OpRecord
  <2>5. PICK calls, live :
          /\ Return(t, Snap(t), calls) /\ cmd' = [cmd EXCEPT ![Call(t).i].live = live]
          /\ \/ calls = <<a, b, c>> \/ calls = <<a, p>> \/ calls = <<a>> \/ calls = <<>>
    <3> DEFINE type == TypeOf(RunOf(t), Call(t).k)
               ssh == Calls(t, "send") /\ type = "SSH"
    <3>1. PICK calls, live :
            /\ live = (~ssh /\ type # "TOPIC")
            /\ calls = CASE ssh -> <<a, b, c>>
                 [] type = "TOPIC" -> <<a, p>>
                 [] type \in {"ROBOT_CAPABILITY", "NAVIGATION"} -> <<a>>
                 [] OTHER -> <<>>
      OBVIOUS
    <3>2. Return(t, Snap(t), calls) /\ cmd' = [cmd EXCEPT ![Call(t).i].live = live]
      BY <1>1, <2>3, <3>1 DEF SendCommand
    <3>3. CASE ssh
      BY <3>1, <3>2, <3>3
    <3>4. CASE ~ssh /\ type = "TOPIC"
      BY <3>1, <3>2, <3>4
    <3>5. CASE ~ssh /\ type # "TOPIC"
      BY <3>1, <3>2, <3>5
    <3> QED
      BY <3>3, <3>4, <3>5
  <2>6. Plain(calls)
    BY <2>4, <2>5, PlainCalls
  <2>7. GoesPlainly(t, r, Snap(t), calls)
    BY <2>1, <2>6, CopyDerived DEF GoesPlainly
  <2>8. CommandsSteady(r)
    BY <2>5, SteadyCommands
  <2> QED
    BY <2>1, <2>5, <2>7, <2>8, SteadyWhole, PlainCounts DEF GoesPlainly
<1>2. CASE RefuseCommand(t)
  <2>1. /\ ~Idle(t) /\ Call(t).op \in HandOps /\ Call(t).op \in TokenOps
        /\ UNCHANGED <<node, timer>> /\ cmd' = [cmd EXCEPT ![Call(t).i].state = "FAILED"]
    BY <1>2 DEF RefuseCommand, Calls, HandOps, TokenOps
  <2>2. Call(t) \in OpRecord
    BY <2>1, CallParts DEF HandOps, CommandOps
  <2>3. PICK call, op : /\ op \in {"fail", "retry"} /\ call = After(t, op)
                        /\ Return(t, Snap(t), <<call>>)
    <3>1. PICK op : op = IF TypeOf(RunOf(t), Call(t).k) = "NAVIGATION" THEN "fail"
                         ELSE "retry"
      OBVIOUS
    <3> QED
      BY <1>2, <3>1 DEF RefuseCommand
  <2>4. call.op \notin CountedOps
    BY <2>2, <2>3 DEF After, CountedOps, OpRecord
  <2>5. GoesPlainly(t, r, Snap(t), <<call>>)
    BY <2>1, <2>4, PlainCalls, CopyDerived DEF GoesPlainly
  <2>6. CommandsSteady(r)
    BY <2>1, SteadyCommands
  <2> QED
    BY <2>1, <2>3, <2>5, <2>6, SteadyWhole, PlainCounts DEF GoesPlainly
<1>3. CASE MarkDispatched(t)
  <2>1. PICK i, state : /\ ~Idle(t) /\ UNCHANGED <<node, timer>> /\ Return(t, Snap(t), <<>>)
                        /\ cmd' = [cmd EXCEPT ![i].state = state]
    <3>1. PICK i, state : /\ i = Call(t).i
                          /\ state = IF cmd[i].state = "CREATED" THEN "ACTIVE" ELSE cmd[i].state
      OBVIOUS
    <3> QED
      BY <1>3, <3>1 DEF MarkDispatched, Calls, Skip
  <2>2. CommandsSteady(r)
    BY <2>1, SteadyCommands
  <2>3. GoesPlainly(t, r, Snap(t), <<>>)
    BY <2>1, PlainCalls, CopyDerived, OneTogether DEF GoesPlainly
  <2> QED
    BY <2>1, <2>2, <2>3, SteadyWhole, PlainCounts DEF GoesPlainly
<1>4. CASE TopicPublished(t)
  <2>1. PICK calls :
          /\ ~Idle(t) /\ Call(t).op \in TokenOps /\ UNCHANGED <<node, timer>>
          /\ Return(t, Snap(t), calls)
          /\ cmd' = [cmd EXCEPT ![Call(t).i].state = "SUCCEEDED"]
          /\ calls = EmitResult(RunOf(t), Call(t).k, TRUE) \o <<OnKey("complete", Call(t).k)>>
    BY <1>4 DEF TopicPublished, Calls, TokenOps
  <2>2. OnKey("complete", Call(t).k).op \notin CountedOps
    BY DEF OnKey, Op, CountedOps
  <2>3. Plain(calls)
    BY <2>1, <2>2, PlainCalls, PlainFollow
  <2>4. GoesPlainly(t, r, Snap(t), calls)
    BY <2>1, <2>3, CopyDerived DEF GoesPlainly
  <2>5. CommandsSteady(r)
    BY <2>1, SteadyCommands
  <2> QED
    BY <2>1, <2>4, <2>5, SteadyWhole, PlainCounts DEF GoesPlainly
<1>5. CASE ApplyResult(t) \/ ApplySshResult(t)
  <2>1. PICK c, k, ok, snap, calls :
          /\ Return(t, snap, calls) /\ (snap = Snap(t) \/ snap = Load(RunOf(t)))
          /\ \/ calls = <<>>
             \/ calls = <<OnKey("complete", k)>> \o EmitResult(RunOf(t), k, ok)
             \/ calls = EmitResult(RunOf(t), k, ok) \o <<OnKey("complete", k)>>
             \/ calls = EmitResult(RunOf(t), k, ok) \o <<OnNode("retry", c, k)>>
             \/ calls = <<OnNode("stamp", c, k), OnNode("retry", c, k)>>
    <3>1. CASE ApplyResult(t)
      BY <3>1 DEF ApplyResult, ApplyTo, Skip
    <3>2. CASE ApplySshResult(t)
      BY <3>2 DEF ApplySshResult, ApplyTo, Skip
    <3> QED
      BY <1>5, <3>1, <3>2
  <2>2. /\ ~Idle(t) /\ Call(t).op \in TokenOps /\ UNCHANGED <<node, cmd, timer>>
    BY <1>5 DEF ApplyResult, ApplySshResult, Applies, Calls, ApplyTo, db, TokenOps
  <2>3. /\ OnKey("complete", k).op \notin CountedOps
        /\ OnNode("retry", c, k).op \notin CountedOps
        /\ OnNode("stamp", c, k).op \notin CountedOps
    BY DEF OnKey, OnNode, Op, CountedOps
  <2>4. Plain(calls)
    BY <2>1, <2>3, PlainCalls, PlainFollow
  <2>5. snap.node = Snap(t).node \/ snap.node = node[RunOf(t)]
    BY <2>1 DEF Load
  <2>6. GoesPlainly(t, r, snap, calls)
    BY <2>2, <2>4, <2>5, CopyDerived DEF GoesPlainly
  <2> QED
    BY <2>1, <2>2, <2>6, SteadyWhole, PlainCounts DEF GoesPlainly
<1>6. CASE CancelCommand(t)
  <2>1. ~Idle(t) /\ Call(t).op \notin TokenOps \cup CountedOps /\ UNCHANGED <<node, timer>>
    BY <1>6 DEF CancelCommand, Calls, TokenOps, CountedOps
  <2>2. CASE Skip(t) /\ UNCHANGED cmd
    <3>1. Return(t, Snap(t), <<>>)
      BY <2>2 DEF Skip
    <3>2. GoesPlainly(t, r, Snap(t), <<>>)
      BY <2>1, PlainCalls, CopyDerived, OneTogether DEF GoesPlainly
    <3> QED
      BY <2>1, <2>2, <3>1, <3>2, SteadyWhole, PlainCounts DEF GoesPlainly
  <2>3. ASSUME NEW i, cmd' = [cmd EXCEPT ![i].state = "CANCELLED"],
               Return(t, WithCommands(Snap(t), Snap(t).commands \ {i}), <<Call(t)>>)
        PROVE  Counts(r)'
    <3>1. PICK snap : snap = WithCommands(Snap(t), Snap(t).commands \ {i})
      OBVIOUS
    <3>2. r = RunOf(t) => snap.node = Snap(t).node
      BY <2>1, <3>1, CopyDerived
    <3>3. GoesPlainly(t, r, snap, <<Call(t)>>)
      BY <2>1, <3>2, PlainCalls, CopyDerived, OneTogether DEF GoesPlainly
    <3>4. CommandsSteady(r)
      BY <2>3, SteadyCommands
    <3> QED
      BY <2>1, <2>3, <3>1, <3>3, <3>4, SteadyWhole, PlainCounts DEF GoesPlainly
  <2> QED
    BY <1>6, <2>2, <2>3 DEF CancelCommand, WithCommands
<1> QED
  BY <1>1, <1>2, <1>3, <1>4, <1>5, <1>6

\* A node is cancelled, the nodes that wait are listed; a child's end and a
\* decision concern other runs.
LEMMA StepCountsOthers ==
  ASSUME TypeOK, HandlersSuit, NEW r \in Run, Counted(r), Alone(r), Counts(r),
         NEW t \in Thread,
         \/ CancelNode(t) \/ ListWaiting(t) \/ SettleSubflow(t) \/ ApplyDecision(t)
         \/ RecordDecision(t)
  PROVE  Counts(r)'
<1>1. CASE CancelNode(t)
  <2>1. ~Idle(t) /\ Call(t).op \notin TokenOps \cup CountedOps /\ UNCHANGED <<cmd, timer>>
    BY <1>1 DEF CancelNode, Calls, TokenOps, CountedOps
  <2>2. CASE Skip(t) /\ UNCHANGED node
    <3>1. Return(t, Snap(t), <<>>)
      BY <2>2 DEF Skip
    <3>2. GoesPlainly(t, r, Snap(t), <<>>)
      BY <2>1, PlainCalls, CopyDerived, OneTogether DEF GoesPlainly
    <3> QED
      BY <2>1, <2>2, <3>1, <3>2, SteadyWhole, PlainCounts DEF GoesPlainly
  <2>3. ASSUME NEW c, NEW k, UpdateNodeRun(RunOf(t), c, k, "CANCELLED"),
               Return(t, SetNode(Snap(t), c, k, "CANCELLED"), <<Call(t)>>)
        PROVE  Counts(r)'
    <3>1. PICK snap : snap = SetNode(Snap(t), c, k, "CANCELLED")
      OBVIOUS
    <3>2. r = RunOf(t) => Derived(r, snap.node, Snap(t).node)
      BY <2>1, <3>1, CopyDerived
    <3>3. GoesPlainly(t, r, snap, <<Call(t)>>)
      BY <2>1, <3>2, PlainCalls, OneTogether DEF GoesPlainly
    <3> QED
      BY <2>1, <2>3, <3>1, <3>3, SteadyWhole, PlainCounts DEF GoesPlainly
  <2> QED
    BY <1>1, <2>2, <2>3 DEF CancelNode
<1>2. CASE ListWaiting(t)
  <2>1. PICK snap, a, b : /\ snap = WithWaiting(Snap(t), WaitingRuns(Call(t).ev))
                          /\ a = Op("wake") /\ b = [Op("startRun") EXCEPT !.ev = Call(t).ev]
    OBVIOUS
  <2>2. a.op = "wake" /\ b.op = "startRun"
    BY <2>1 DEF Op
  <2>3. Return(t, snap, <<a, b>>)
    BY <1>2, <2>1 DEF ListWaiting, WithWaiting
  <2>4. ~Idle(t) /\ UNCHANGED <<node, cmd, timer>>
    BY <1>2 DEF ListWaiting, Calls, db
  <2>5. Plain(<<a, b>>) /\ Quiet(<<a, b>>)
    <3>1. a.op \notin TokenOps \cup CountedOps /\ b.op \notin TokenOps \cup CountedOps
      BY <2>2 DEF TokenOps, CountedOps
    <3> QED
      BY <3>1, OneOfFew, PlainCalls
  <2>6. r = RunOf(t) => snap.node = Snap(t).node
    BY <2>1, <2>4, CopyDerived
  <2>7. GoesPlainly(t, r, snap, <<a, b>>)
    BY <2>4, <2>5, <2>6, CopyDerived DEF GoesPlainly
  <2> QED
    BY <2>3, <2>4, <2>7, SteadyWhole, PlainCounts DEF GoesPlainly
<1>3. CASE SettleSubflow(t)
  <2>1. /\ ~Idle(t) /\ Call(t).op = "settle" /\ UNCHANGED <<cmd, timer>>
    BY <1>3 DEF SettleSubflow, Calls
  <2>2. r # RunOf(t)
    BY <2>1, NoWaitCall DEF WaitOps, Counted
  <2>3. /\ \E snap, calls : Return(t, snap, calls)
        /\ UNCHANGED node \/ \E c, k, state : /\ UpdateNodeRun(RunOf(t), c, k, state)
                                              /\ state # "PENDING"
    <3>1. PICK state : state = IF Call(t).ok THEN "SUCCEEDED" ELSE "FAILED"
      OBVIOUS
    <3> QED
      BY <1>3, <3>1 DEF SettleSubflow, Skip
  <2>4. Steady(r)
    BY <2>1, <2>3, SteadyWhole
  <2> QED
    BY <2>1, <2>2, <2>3, <2>4, PlainCounts
<1>4. CASE ApplyDecision(t) \/ RecordDecision(t)
  <2>1. ~Idle(t) /\ Call(t).op \in {"decide", "record"} /\ UNCHANGED <<cmd, timer>>
    BY <1>4 DEF ApplyDecision, RecordDecision, Calls
  <2>2. r # RunOf(t)
    BY <2>1, CallCounted DEF CallCounts
  <2>3. /\ Throw(t) \/ \E snap, calls : Return(t, snap, calls)
        /\ UNCHANGED node \/ \E c, k, state : /\ UpdateNodeRun(RunOf(t), c, k, state)
                                              /\ state # "PENDING"
    <3>1. CASE ApplyDecision(t)
      <4>1. PICK state : state = IF Call(t).ok THEN "SUCCEEDED" ELSE "FAILED"
        OBVIOUS
      <4> QED
        BY <3>1, <4>1 DEF ApplyDecision
    <3>2. CASE RecordDecision(t)
      BY <3>2 DEF RecordDecision
    <3> QED
      BY <1>4, <3>1, <3>2
  <2>4. Steady(r)
    BY <2>1, <2>3, SteadyWhole
  <2> QED
    BY <2>1, <2>2, <2>3, <2>4, PlainCounts, NothingCounts
<1> QED
  BY <1>1, <1>2, <1>3, <1>4

\* What the handler where the run is knows.
LEMMA HereCounts ==
  ASSUME TypeOK, NEW t \in Thread, ~Idle(t), NEW r, r = RunOf(t), Counts(r),
         Call(t).op \in TokenOps
  PROVE  /\ r \in Run
         /\ CopyCounts(node[r], cmd, r, Snap(t).node)
         /\ DOMAIN Snap(t).node \subseteq DOMAIN node[r]
         /\ DOMAIN Snap(t).node = 1..Len(Snap(t).node)
         /\ \A c \in DOMAIN Snap(t).node, k \in Key(r) : Snap(t).node[c][k] \in NodeRow
         /\ \A c \in DOMAIN node[r], k \in Key(r) :
              node[r][c][k] \in NodeRow /\ Graph[r].node[k].retry \in Nat
         /\ Call(t).op \notin FreeOps => Newest(Snap(t)) \in DOMAIN Snap(t).node
         /\ Call(t).op \in RowOps => Call(t).c \in DOMAIN Snap(t).node
         /\ Call(t).op \in KeyOps \cup RowOps => Call(t).k \in Key(r)
<1>1. CopyCounts(node[r], cmd, r, Snap(t).node)
  BY CallCounted DEF CallCounts
<1>2. r \in Run /\ Snap(t).node \in NodeRows(r) /\ node[r] \in NodeRows(r)
  BY CallParts, SnapshotParts DEF TypeOK, RunsOK
<1>3. /\ DOMAIN Snap(t).node = 1..Len(Snap(t).node) /\ DOMAIN node[r] = 1..Len(node[r])
      /\ Snap(t).node \in [DOMAIN Snap(t).node -> [Key(r) -> NodeRow]]
      /\ node[r] \in [DOMAIN node[r] -> [Key(r) -> NodeRow]]
  BY <1>2, LenProperties DEF NodeRows
<1>4. DOMAIN Snap(t).node \subseteq DOMAIN node[r]
  BY <1>3, CallParts
<1>5. \A k \in Key(r) : Graph[r].node[k].retry \in Nat
  BY <1>2, NodeParts DEF NodeAttributes
<1> QED
  BY <1>1, <1>2, <1>3, <1>4, <1>5, CallParts

\* What executing a node leads to.
LEMMA ExecuteKinds ==
  ASSUME NEW r, NEW c, NEW k
  PROVE  /\ ExecuteNode(r, c, k).op \in CountedOps
              => ExecuteNode(r, c, k) = OnNode("dispatch", c, k)
         /\ OnNode("dispatch", c, k).op = "dispatch"
         /\ OnNode("dispatch", c, k).c = c /\ OnNode("dispatch", c, k).k = k
<1>1. /\ OnKey("complete", k).op \notin CountedOps /\ OnKey("fail", k).op \notin CountedOps
      /\ OnKey("context", k).op \notin CountedOps
      /\ \A op \in {"retry", "delay", "pause", "await", "subflow"} :
           OnNode(op, c, k).op \notin CountedOps
      /\ OnNode("dispatch", c, k).op = "dispatch"
      /\ OnNode("dispatch", c, k).c = c /\ OnNode("dispatch", c, k).k = k
  <2>1. \A op : /\ OnKey(op, k).op = op /\ OnNode(op, c, k).op = op
               /\ OnNode(op, c, k).c = c /\ OnNode(op, c, k).k = k
    BY DEF OnKey, OnNode, Op
  <2> QED
    BY <2>1 DEF CountedOps
<1>2. \/ ExecuteNode(r, c, k) = OnNode("dispatch", c, k)
      \/ ExecuteNode(r, c, k) \in {OnKey("complete", k), OnKey("fail", k), OnKey("context", k)}
      \/ ExecuteNode(r, c, k) \in {OnNode("retry", c, k), OnNode("delay", c, k),
           OnNode("pause", c, k), OnNode("await", c, k), OnNode("subflow", c, k)}
  BY DEF ExecuteNode
<1> QED
  BY <1>1, <1>2

\* An edge is traversed, a node that has not started is.
LEMMA StepCountsAlong ==
  ASSUME TypeOK, HandlersSuit, NEW r \in Run, Counted(r), Alone(r), Counts(r),
         NEW t \in Thread, TraverseEdge(t) \/ ActivateNode(t)
  PROVE  Counts(r)'
<1>0. PICK rows, cmds : rows = node'[r] /\ cmds = cmd'
  OBVIOUS
<1>1. CASE TraverseEdge(t)
  <2> DEFINE e == Graph[RunOf(t)].edges[Call(t).i]
             others == FollowFrom(RunOf(t), e.src, e.kind, e.event, Call(t).i)
             c == Newest(Snap(t))
  <2>1. ~Idle(t) /\ Call(t).op = "edge" /\ Call(t).op \in TokenOps /\ UNCHANGED <<node, cmd, timer>>
    BY <1>1 DEF TraverseEdge, Calls, TokenOps
  <2>2. PICK snap : snap = WithMark(Snap(t), <<Call(t).i, Snap(t).cycle>>)
    OBVIOUS
  <2>3. snap.node = Snap(t).node /\ Newest(snap) = c /\ Latest(snap) = Snap(t).node[c]
    BY <2>1, <2>2, CopyDerived DEF Newest, Latest
  <2>4. PICK first, calls :
          /\ Return(t, snap, calls) /\ calls = first \o others
          /\ \/ first = <<OnKey("activate", e.dst)>>
             \/ first = <<OnNode("park", c, e.dst)>> /\ Snap(t).node[c][e.dst].state = "PENDING"
             \/ first = <<>>
    <3>1. PICK ready : ready = (\/ e.kind = "failure"
                                \/ EvaluateJoin(RunOf(t), e.dst, snap.cycle, Latest(snap),
                                                snap.traversed))
      OBVIOUS
    <3>2. PICK first : first = IF ready THEN <<OnKey("activate", e.dst)>>
              ELSE IF Latest(snap)[e.dst].state = "PENDING"
                THEN <<OnNode("park", Newest(snap), e.dst)>>
                ELSE <<>>
      OBVIOUS
    <3>3. Return(t, snap, first \o others)
      BY <1>1, <2>2, <3>1, <3>2 DEF TraverseEdge, WithMark
    <3> QED
      BY <2>3, <3>2, <3>3
  <2>5. Plain(others)
    BY PlainFollow
  <2>6. CASE r # RunOf(t)
    BY <2>1, <2>4, <2>6, SteadyWhole, ReturnCounts
  <2>7. CASE r = RunOf(t)
    <3>1. /\ CopyCounts(node[r], cmd, r, Snap(t).node)
          /\ c \in DOMAIN Snap(t).node
      BY <2>1, <2>7, HereCounts DEF FreeOps
    <3>2. e.dst \in Key(r)
      BY <2>1, <2>7, CallParts, EdgeParts
    <3>3. CopyCounts(rows, cmds, r, snap.node)
      BY <1>0, <2>1, <2>3, <3>1
    <3>4. ASSUME NEW call \in FramesOf(first)
          PROVE  CallCounts(rows, cmds, r, snap.node, call)
      <4>1. CASE first = <<OnKey("activate", e.dst)>>
        <5>1. call = OnKey("activate", e.dst)
          <6>1. PICK p : p = OnKey("activate", e.dst) /\ first = <<p>>
            BY <4>1
          <6>2. FramesOf(<<p>>) = {p}
            BY TupleElements
          <6> QED
            BY <3>4, <6>1, <6>2
        <5>2. call.op \notin CountedOps
          BY <5>1 DEF OnKey, Op, CountedOps
        <5> QED
          BY <3>3, <5>2, PlainCall
      <4>2. CASE /\ first = <<OnNode("park", c, e.dst)>>
                 /\ Snap(t).node[c][e.dst].state = "PENDING"
        <5>1. call = OnNode("park", c, e.dst)
          <6>1. PICK p : p = OnNode("park", c, e.dst) /\ first = <<p>>
            BY <4>2
          <6>2. FramesOf(<<p>>) = {p}
            BY TupleElements
          <6> QED
            BY <3>4, <6>1, <6>2
        <5>2. call.op = "park" /\ call.c = c /\ call.k = e.dst
          BY <5>1 DEF OnNode, Op
        <5>3. MadeFor(cmd, <<r, c, e.dst>>) = {}
          BY <3>1, <3>2, <4>2 DEF CopyCounts
        <5>4. MadeFor(cmds, <<r, call.c, call.k>>) = {}
          BY <1>0, <2>1, <5>2, <5>3
        <5> QED
          BY <3>3, <5>2, <5>4 DEF CallCounts
      <4>3. CASE first = <<>>
        BY <3>4, <4>3, TupleElements
      <4> QED
        BY <2>4, <4>1, <4>2, <4>3
    <3>5. first \in Seq(FramesOf(first))
      <4>1. \A p : <<p>> \in Seq(FramesOf(<<p>>))
        BY TupleElements
      <4>2. <<>> \in Seq(FramesOf(<<>>))
        BY TupleElements
      <4> QED
        BY <2>4, <4>1, <4>2
    <3>6. /\ calls \in Seq(FramesOf(calls))
          /\ FramesOf(calls) \subseteq FramesOf(first) \cup FramesOf(others)
      <4>1. PICK rest : rest = others
        OBVIOUS
      <4>2. rest \in Seq(FramesOf(rest)) /\ calls = first \o rest
        BY <2>4, <2>5, <4>1 DEF Plain
      <4>3. /\ calls \in Seq(FramesOf(calls))
            /\ FramesOf(calls) \subseteq FramesOf(first) \cup FramesOf(rest)
        BY <3>5, <4>2, ConcatElements
      <4> QED
        BY <4>1, <4>3
    <3>7. \A call \in FramesOf(others) : CallCounts(rows, cmds, r, snap.node, call)
      BY <2>5, <3>3, PlainCall DEF Plain
    <3>8. \A call \in FramesOf(calls) : CallCounts(node'[r], cmd', r, snap.node, call)
      BY <1>0, <3>4, <3>6, <3>7
    <3>9. Derived(r, snap.node, Snap(t).node)
      BY <2>1, <2>3, <2>7, CopyDerived
    <3> QED
      BY <2>1, <2>4, <3>6, <3>8, <3>9, SteadyWhole, ReturnCounts
  <2> QED
    BY <2>6, <2>7
<1>2. CASE ActivateNode(t)
  <2> DEFINE k == Call(t).k
             c == Newest(Snap(t))
  <2>1. /\ ~Idle(t) /\ Call(t).op = "activate" /\ Call(t).op \in TokenOps
        /\ UNCHANGED <<cmd, timer>>
    BY <1>2 DEF ActivateNode, Calls, TokenOps
  <2>2. CASE Skip(t) /\ UNCHANGED node
    <3>1. Return(t, Snap(t), <<>>)
      BY <2>2 DEF Skip
    <3>2. GoesPlainly(t, r, Snap(t), <<>>)
      BY <2>1, PlainCalls, CopyDerived DEF GoesPlainly
    <3> QED
      BY <2>1, <2>2, <3>1, <3>2, SteadyWhole, PlainCounts DEF GoesPlainly
  <2>3. CASE /\ Snap(t).node[c][k].state = "PENDING" /\ UpdateNodeRun(RunOf(t), c, k, "RUNNING")
             /\ Return(t, SetNode(Snap(t), c, k, "RUNNING"), <<ExecuteNode(RunOf(t), c, k)>>)
    <3>1. PICK snap, call : /\ snap = SetNode(Snap(t), c, k, "RUNNING")
                            /\ call = ExecuteNode(RunOf(t), c, k)
      OBVIOUS
    <3>2. Steady(r)
      BY <2>1, <2>3, SteadyWhole
    <3>3. CASE r # RunOf(t)
      BY <2>1, <2>3, <3>2, <3>3, ReturnCounts
    <3>4. CASE r = RunOf(t)
      <4>1. /\ CopyCounts(node[r], cmd, r, Snap(t).node)
            /\ c \in DOMAIN Snap(t).node /\ c \in DOMAIN node[r] /\ k \in Key(r)
            /\ DOMAIN Snap(t).node \subseteq DOMAIN node[r]
            /\ node[r][c][k] \in NodeRow /\ Graph[r].node[k].retry \in Nat
        BY <2>1, <3>4, HereCounts DEF FreeOps, KeyOps
      <4>2. MadeFor(cmd, <<r, c, k>>) = {}
        BY <2>3, <4>1 DEF CopyCounts
      <4>3. Cardinality(MadeFor(cmd, <<r, c, k>>)) < node[r][c][k].tries
        <5>1. Cardinality(MadeFor(cmd, <<r, c, k>>)) = 0
          BY <4>2, NoneCounted
        <5>2. node[r][c][k].tries \in 1..Graph[r].node[k].retry + 1
          BY <4>1 DEF Counts, RowsCount, RowCounts
        <5> QED
          BY <4>1, <5>1, <5>2
      <4>4. Fixed(r, rows, cmds)
        BY <1>0, <3>2, SteadyTables
      <4>5. Derived(r, snap.node, Snap(t).node)
        BY <2>1, <3>1, <3>4, CopyDerived
      <4>6. CopyCounts(rows, cmds, r, snap.node)
        BY <4>1, <4>4, <4>5, DerivedCounts
      <4>7. CallCounts(rows, cmds, r, snap.node, call)
        <5>1. CASE call.op \notin CountedOps
          BY <4>6, <5>1, PlainCall
        <5>2. CASE call.op \in CountedOps
          <6>1. call.op = "dispatch" /\ call.c = c /\ call.k = k
            <7>1. PICK d, j : d = c /\ j = k
              OBVIOUS
            <7>2. call = ExecuteNode(RunOf(t), d, j)
              BY <3>1, <7>1
            <7>3. call.op = "dispatch" /\ call.c = d /\ call.k = j
              BY <5>2, <7>2, ExecuteKinds
            <7> QED
              BY <7>1, <7>3
          <6>2. Cardinality(MadeFor(cmds, <<r, c, k>>)) < rows[c][k].tries
            BY <4>1, <4>3, <4>4 DEF Fixed
          <6>3. snap.node[c][k].state # "PENDING"
            <7>1. snap.node = [Snap(t).node EXCEPT ![c][k].state = "RUNNING"]
              <8>1. Snap(t) \in Snapshot(r, Owner, Attempts)
                BY <2>1, <3>4, CallParts
              <8> QED
                BY <3>1, <8>1 DEF SetNode, Snapshot
            <7>2. Snap(t).node \in [DOMAIN Snap(t).node -> [Key(r) -> NodeRow]]
              <8>1. Snap(t).node \in NodeRows(r)
                BY <2>1, <3>4, CallParts, SnapshotParts
              <8> QED
                BY <8>1, LenProperties DEF NodeRows
            <7> QED
              BY <4>1, <7>1, <7>2 DEF NodeRow
          <6> QED
            BY <4>6, <6>1, <6>2, <6>3 DEF CallCounts
        <5> QED
          BY <5>1, <5>2
      <4>8. FramesOf(<<call>>) = {call} /\ <<call>> \in Seq(FramesOf(<<call>>))
        BY TupleElements
      <4>9. \A x \in FramesOf(<<call>>) : CallCounts(node'[r], cmd', r, snap.node, x)
        BY <1>0, <4>7, <4>8
      <4>10. Return(t, snap, <<call>>)
        BY <2>3, <3>1
      <4> QED
        BY <2>1, <3>2, <4>5, <4>8, <4>9, <4>10, ReturnCounts
    <3> QED
      BY <3>3, <3>4
  <2> QED
    BY <1>2, <2>2, <2>3 DEF ActivateNode, Latest
<1> QED
  BY <1>1, <1>2

\* A retry is left to the timer, unless there is none left.
LEMMA StepCountsRetry ==
  ASSUME TypeOK, HandlersSuit, NEW r \in Run, Counted(r), Alone(r), Counts(r),
         NEW t \in Thread, ScheduleRetry(t)
  PROVE  Counts(r)'
<1> DEFINE c == Call(t).c
           k == Call(t).k
<1>1. /\ ~Idle(t) /\ Call(t).op \in TokenOps /\ Call(t).op \in RowOps /\ UNCHANGED cmd
  BY DEF ScheduleRetry, Calls, TokenOps, RowOps
<1>2. CASE Return(t, Snap(t), <<OnKey("fail", k)>>) /\ UNCHANGED <<node, timer>>
  <2>1. OnKey("fail", k).op \notin CountedOps
    BY DEF OnKey, Op, CountedOps
  <2>2. GoesPlainly(t, r, Snap(t), <<OnKey("fail", k)>>)
    BY <1>1, <2>1, PlainCalls, CopyDerived DEF GoesPlainly
  <2> QED
    BY <1>1, <1>2, <2>2, SteadyWhole, PlainCounts DEF GoesPlainly
<1>3. CASE ~(Return(t, Snap(t), <<OnKey("fail", k)>>) /\ UNCHANGED <<node, timer>>)
  <2>1. PICK task, row :
          /\ task = [kind |-> "retry", run |-> RunOf(t), c |-> c, k |-> k]
          /\ row = [state |-> "RUNNING", tries |-> Snap(t).node[c][k].tries]
    OBVIOUS
  <2>2. /\ ~Exhausted(RunOf(t), Snap(t).node[c][k], k)
        /\ timer' = BagAdd(timer, task) /\ Return(t, Snap(t), <<>>)
        /\ WriteRow(RunOf(t), c, k, row)
    BY <1>3, <2>1 DEF ScheduleRetry, WriteRow, Skip
  <2>3. /\ row.tries = Snap(t).node[c][k].tries /\ row.state # "PENDING"
        /\ task.run = RunOf(t) /\ task.c = c /\ task.k = k
    BY <2>1
  <2>4. r = RunOf(t) =>
          /\ c \in DOMAIN node[r] /\ k \in Key(r)
          /\ node[r][c][k].tries = Snap(t).node[c][k].tries
          /\ node[r][c][k].tries \in Nat /\ Graph[r].node[k].retry \in Nat
    <3> SUFFICES ASSUME r = RunOf(t)
                 PROVE  /\ c \in DOMAIN node[r] /\ k \in Key(r)
                        /\ node[r][c][k].tries = Snap(t).node[c][k].tries
                        /\ node[r][c][k].tries \in Nat /\ Graph[r].node[k].retry \in Nat
      OBVIOUS
    <3>1. /\ CopyCounts(node[r], cmd, r, Snap(t).node)
          /\ c \in DOMAIN Snap(t).node /\ c \in DOMAIN node[r] /\ k \in Key(r)
          /\ node[r][c][k] \in NodeRow /\ Graph[r].node[k].retry \in Nat
      BY <1>1, HereCounts
    <3> QED
      BY <3>1 DEF CopyCounts, NodeRow
  <2>5. r = RunOf(t) => node[r][c][k].tries <= Graph[r].node[k].retry
    BY <2>2, <2>4 DEF Exhausted
  <2> HIDE DEF c, k
  <2>6. RowsSteady(r)
    BY <2>2, <2>3, <2>4, SteadyRows
  <2>7. TasksSteady(r)
    <3>1. DOMAIN timer' = DOMAIN timer \cup {task}
      BY <2>2 DEF BagAdd
    <3> QED
      BY <2>3, <2>4, <2>5, <3>1 DEF TasksSteady
  <2>8. GoesPlainly(t, r, Snap(t), <<>>)
    BY <1>1, PlainCalls, CopyDerived DEF GoesPlainly
  <2> QED
    BY <1>1, <2>2, <2>6, <2>7, <2>8, SteadyCommands, PlainCounts DEF Steady, GoesPlainly
<1> QED
  BY <1>2, <1>3

\* The node's attempt is counted in the copy.
LEMMA TriesKept ==
  ASSUME TypeOK, NEW t \in Thread, ~Idle(t), NEW r, r = RunOf(t), Counts(r),
         Call(t).op \in TokenOps, Call(t).op \in RowOps, NEW tries,
         NEW copy, copy = WithTries(Snap(t), Call(t).c, Call(t).k, tries).node
  PROVE  /\ DOMAIN copy = DOMAIN Snap(t).node
         /\ \A d \in DOMAIN copy, j \in Key(r) :
              /\ copy[d][j].state = Snap(t).node[d][j].state
              /\ copy[d][j].tries = IF d = Call(t).c /\ j = Call(t).k THEN tries
                                    ELSE Snap(t).node[d][j].tries
<1>1. PICK rows, c, k : rows = Snap(t).node /\ c = Call(t).c /\ k = Call(t).k
  OBVIOUS
<1>2. rows \in [DOMAIN rows -> [Key(r) -> NodeRow]]
  <2>1. rows \in NodeRows(r)
    BY <1>1, CallParts, SnapshotParts
  <2> QED
    BY <2>1, LenProperties DEF NodeRows
<1>3. copy = [rows EXCEPT ![c][k].tries = tries]
  <2>1. Snap(t) \in Snapshot(r, Owner, Attempts)
    BY CallParts
  <2> QED
    BY <1>1, <2>1 DEF WithTries, Snapshot
<1>4. DOMAIN copy = DOMAIN rows
  BY <1>2, <1>3
<1>5. ASSUME NEW d \in DOMAIN copy, NEW j \in Key(r)
      PROVE  /\ copy[d][j].state = rows[d][j].state
             /\ copy[d][j].tries = IF d = c /\ j = k THEN tries ELSE rows[d][j].tries
  <2>1. rows[d] \in [Key(r) -> NodeRow] /\ rows[d][j] \in NodeRow
    BY <1>2, <1>4
  <2>2. CASE d = c /\ j = k
    <3>1. copy[d][j] = [rows[d][j] EXCEPT !.tries = tries]
      BY <1>2, <1>3, <1>4, <2>1, <2>2
    <3> QED
      BY <2>1, <2>2, <3>1 DEF NodeRow
  <2>3. CASE ~(d = c /\ j = k)
    <3>1. copy[d][j] = rows[d][j]
      BY <1>2, <1>3, <1>4, <2>1, <2>3
    <3> QED
      BY <2>3, <3>1
  <2> QED
    BY <2>2, <2>3
<1> QED
  BY <1>1, <1>4, <1>5

\* A retry starts an attempt, which has no command yet.
LEMMA StepCountsAgain ==
  ASSUME TypeOK, HandlersSuit, NEW r \in Run, Counted(r), Alone(r), Counts(r),
         NEW t \in Thread, RetryNode(t)
  PROVE  Counts(r)'
<1>1. PICK c, k, tries, row, snap, call :
        /\ c = Call(t).c /\ k = Call(t).k /\ tries = Snap(t).node[c][k].tries + 1
        /\ row = [state |-> "RUNNING", tries |-> tries]
        /\ snap = WithTries(Snap(t), c, k, tries) /\ call = ExecuteNode(RunOf(t), c, k)
  OBVIOUS
<1>2. /\ WriteRow(RunOf(t), c, k, row) /\ Return(t, snap, <<call>>)
      /\ UNCHANGED <<cmd, timer>> /\ row.state # "PENDING" /\ row.tries = tries
  BY <1>1 DEF RetryNode, WriteRow, WithTries
<1>3. ~Idle(t) /\ Call(t).op \in TokenOps /\ Call(t).op \in RowOps /\ Call(t).op = "again"
  BY DEF RetryNode, Calls, TokenOps, RowOps
<1>4. CASE r # RunOf(t)
  <2>1. Steady(r)
    BY <1>2, <1>4, SteadyRows, SteadyWhole
  <2> QED
    BY <1>2, <1>3, <1>4, <2>1, ReturnCounts
<1>5. CASE r = RunOf(t)
  <2>1. PICK rows, copy : rows = node'[r] /\ copy = snap.node
    OBVIOUS
  <2>2. /\ CopyCounts(node[r], cmd, r, Snap(t).node)
        /\ DOMAIN Snap(t).node \subseteq DOMAIN node[r]
        /\ c \in DOMAIN Snap(t).node /\ c \in DOMAIN node[r] /\ k \in Key(r)
        /\ node[r][c][k] \in NodeRow /\ Graph[r].node[k].retry \in Nat
    BY <1>1, <1>3, <1>5, HereCounts
  <2>3. /\ Snap(t).node[c][k].tries = node[r][c][k].tries
        /\ Snap(t).node[c][k].state # "PENDING"
        /\ node[r][c][k].tries <= Graph[r].node[k].retry
        /\ node[r][c][k].tries \in 1..Graph[r].node[k].retry + 1
        /\ Cardinality(MadeFor(cmd, <<r, c, k>>)) <= node[r][c][k].tries
    <3>1. CallCounts(node[r], cmd, r, Snap(t).node, Call(t))
      BY <1>3, <1>5, CallCounted
    <3>2. RowCounts(node[r], cmd, r, c, k)
      BY <2>2 DEF Counts, RowsCount
    <3> QED
      BY <1>1, <1>3, <2>2, <3>1, <3>2 DEF CallCounts, CopyCounts, RowCounts
  <2>4. /\ tries \in 1..Graph[r].node[k].retry + 1 /\ node[r][c][k].tries <= tries
        /\ Cardinality(MadeFor(cmd, <<r, c, k>>)) < tries
        /\ Cardinality(MadeFor(cmd, <<r, c, k>>)) <= tries
    <3>1. IsFiniteSet(MadeFor(cmd, <<r, c, k>>))
      <4>1. MadeFor(cmd, <<r, c, k>>) \subseteq 1..Len(cmd) /\ Len(cmd) \in Nat
        BY CommandsParts DEF TypeOK, MadeFor
      <4>2. IsFiniteSet(1..Len(cmd))
        BY <4>1, FS_Interval
      <4> QED
        BY <4>1, <4>2, FS_Subset
    <3>2. Cardinality(MadeFor(cmd, <<r, c, k>>)) \in Nat
      BY <3>1, FS_CardinalityType
    <3>3. PICK n, m : n = node[r][c][k].tries /\ m = Cardinality(MadeFor(cmd, <<r, c, k>>))
      OBVIOUS
    <3>4. /\ n \in Nat /\ m \in Nat /\ m <= n /\ tries = n + 1
          /\ n <= Graph[r].node[k].retry /\ Graph[r].node[k].retry \in Nat
      BY <1>1, <2>2, <2>3, <3>2, <3>3 DEF NodeRow
    <3>5. tries \in 1..Graph[r].node[k].retry + 1 /\ n <= tries /\ m < tries /\ m <= tries
      BY <3>4
    <3> QED
      BY <3>3, <3>5
  <2>5. /\ DOMAIN rows = DOMAIN node[r]
        /\ \A d \in DOMAIN node[r], j \in Key(r) :
             rows[d][j] = IF d = c /\ j = k THEN row ELSE node[r][d][j]
    BY <1>2, <1>5, <2>1, WrittenRows
  <2>6. RowsCount(rows, cmd, r)
    <3> SUFFICES ASSUME NEW d \in DOMAIN rows, NEW j \in Key(r)
                 PROVE  RowCounts(rows, cmd, r, d, j)
      BY DEF RowsCount
    <3>1. CASE d = c /\ j = k
      BY <1>2, <2>2, <2>4, <2>5, <3>1 DEF RowCounts
    <3>2. CASE ~(d = c /\ j = k)
      <4>1. RowCounts(node[r], cmd, r, d, j)
        BY <2>5 DEF Counts, RowsCount
      <4> QED
        BY <2>5, <3>2, <4>1 DEF RowCounts
    <3> QED
      BY <3>1, <3>2
  <2>7. TasksCount(timer, rows, r)
    <3>1. TaskTokens(timer, r) = {}
      BY <1>3, <1>5, OnlyHere
    <3> QED
      BY <3>1 DEF TaskTokens, TasksCount
  <2>8. /\ DOMAIN copy = DOMAIN Snap(t).node
        /\ \A d \in DOMAIN copy, j \in Key(r) :
             /\ copy[d][j].state = Snap(t).node[d][j].state
             /\ copy[d][j].tries = IF d = c /\ j = k THEN tries ELSE Snap(t).node[d][j].tries
    <3>1. copy = WithTries(Snap(t), Call(t).c, Call(t).k, tries).node
      BY <1>1, <2>1
    <3>2. /\ DOMAIN copy = DOMAIN Snap(t).node
          /\ \A d \in DOMAIN copy, j \in Key(r) :
               /\ copy[d][j].state = Snap(t).node[d][j].state
               /\ copy[d][j].tries = IF d = Call(t).c /\ j = Call(t).k THEN tries
                                     ELSE Snap(t).node[d][j].tries
      BY <1>3, <1>5, <3>1, TriesKept
    <3> QED
      BY <1>1, <3>2
  <2>9. CopyCounts(rows, cmd, r, copy)
    <3> SUFFICES ASSUME NEW d \in DOMAIN copy, NEW j \in Key(r)
                 PROVE  /\ copy[d][j].tries = rows[d][j].tries
                        /\ copy[d][j].state = "PENDING" => MadeFor(cmd, <<r, d, j>>) = {}
      BY DEF CopyCounts
    <3>1. /\ Snap(t).node[d][j].tries = node[r][d][j].tries
          /\ Snap(t).node[d][j].state = "PENDING" => MadeFor(cmd, <<r, d, j>>) = {}
      BY <2>2, <2>8 DEF CopyCounts
    <3>2. rows[d][j] = IF d = c /\ j = k THEN row ELSE node[r][d][j]
      BY <2>2, <2>5, <2>8
    <3>3. copy[d][j].tries = rows[d][j].tries
      <4>1. CASE d = c /\ j = k
        BY <1>2, <2>8, <3>2, <4>1
      <4>2. CASE ~(d = c /\ j = k)
        BY <2>8, <3>1, <3>2, <4>2
      <4> QED
        BY <4>1, <4>2
    <3> QED
      BY <2>8, <3>1, <3>3
  <2>10. CallCounts(rows, cmd, r, copy, call)
    <3>1. CASE call.op \notin CountedOps
      BY <2>9, <3>1, PlainCall
    <3>2. CASE call.op \in CountedOps
      <4>1. call.op = "dispatch" /\ call.c = c /\ call.k = k
        BY <1>1, <3>2, ExecuteKinds
      <4>2. copy[c][k].state # "PENDING" /\ rows[c][k].tries = tries
        BY <1>2, <2>2, <2>3, <2>5, <2>8
      <4> QED
        BY <2>4, <2>9, <4>1, <4>2 DEF CallCounts
    <3> QED
      BY <3>1, <3>2
  <2>11. FramesOf(<<call>>) = {call} /\ <<call>> \in Seq(FramesOf(<<call>>))
    BY TupleElements
  <2>12. \A x \in FramesOf(<<call>>) : CallCounts(node'[r], cmd', r, snap.node, x)
    BY <1>2, <2>1, <2>10, <2>11
  <2>13. RowsCount(node'[r], cmd', r) /\ TasksCount(timer', node'[r], r)
    BY <1>2, <2>1, <2>6, <2>7
  <2> QED
    BY <1>2, <1>3, <1>5, <2>11, <2>12, <2>13, TurnCounts
<1> QED
  BY <1>4, <1>5

\* The commands of a node are finitely many.
LEMMA MadeFinitely ==
  ASSUME TypeOK, NEW n
  PROVE  /\ IsFiniteSet(MadeFor(cmd, n)) /\ Cardinality(MadeFor(cmd, n)) \in Nat
         /\ \A i : i \notin MadeFor(cmd, n) =>
              Cardinality(MadeFor(cmd, n) \cup {i}) = Cardinality(MadeFor(cmd, n)) + 1
<1>1. MadeFor(cmd, n) \subseteq 1..Len(cmd) /\ Len(cmd) \in Nat
  BY CommandsParts DEF TypeOK, MadeFor
<1>2. IsFiniteSet(1..Len(cmd))
  BY <1>1, FS_Interval
<1>3. IsFiniteSet(MadeFor(cmd, n))
  BY <1>1, <1>2, FS_Subset
<1> QED
  BY <1>3, FS_CardinalityType, FS_AddElement

\* A command is created: the attempt has had none.
LEMMA StepCountsDispatch ==
  ASSUME TypeOK, HandlersSuit, NEW r \in Run, Counted(r), Alone(r), Counts(r),
         NEW t \in Thread, DispatchCapability(t) \/ DispatchSsh(t) \/ DispatchNavigation(t)
  PROVE  Counts(r)'
<1>1. PICK c, k, tries, row, snap, call, new, i :
        /\ c = Call(t).c /\ k = Call(t).k /\ CreateCommand(t, tries)
        /\ tries = Snap(t).node[c][k].tries \/ (tries = 1 /\ TypeOf(RunOf(t), k) = "NAVIGATION")
        /\ row = [state |-> "RUNNING", tries |-> tries] /\ i = Len(cmd) + 1
        /\ new = [run |-> RunOf(t), c |-> c, k |-> k, state |-> "CREATED",
                  live |-> FALSE, fired |-> FALSE]
        /\ snap = WithTries(Snap(t), c, k, tries)
        /\ call = [OnNode("send", c, k) EXCEPT !.i = Len(cmd) + 1]
  BY DEF DispatchCapability, DispatchSsh, DispatchNavigation, Dispatches, Tries
<1>2. /\ WriteRow(RunOf(t), c, k, row) /\ Return(t, snap, <<call>>)
      /\ cmd' = Append(cmd, new)
      /\ UNCHANGED timer /\ row.state # "PENDING" /\ row.tries = tries
      /\ new.run = RunOf(t) /\ new.c = c /\ new.k = k
  BY <1>1 DEF CreateCommand, WriteRow, WithTries
<1>3. /\ ~Idle(t) /\ Call(t).op \in TokenOps /\ Call(t).op \in RowOps
      /\ Call(t).op = "dispatch"
  BY DEF DispatchCapability, DispatchSsh, DispatchNavigation, Dispatches, Calls,
         TokenOps, RowOps
<1>4. CASE r # RunOf(t)
  <2>1. RowsSteady(r) /\ CommandsSteady(r) /\ TasksSteady(r)
    BY <1>2, <1>4, SteadyRows, SteadyCommands, SteadyTasks
  <2> QED
    BY <1>2, <1>3, <1>4, <2>1, ReturnCounts DEF Steady
<1>5. CASE r = RunOf(t)
  <2>1. PICK rows, cmds, copy : rows = node'[r] /\ cmds = cmd' /\ copy = snap.node
    OBVIOUS
  <2>2. /\ CopyCounts(node[r], cmd, r, Snap(t).node)
        /\ DOMAIN Snap(t).node \subseteq DOMAIN node[r]
        /\ c \in DOMAIN Snap(t).node /\ c \in DOMAIN node[r] /\ k \in Key(r)
        /\ node[r][c][k] \in NodeRow /\ Graph[r].node[k].retry \in Nat
    BY <1>1, <1>3, <1>5, HereCounts
  <2>3. /\ Snap(t).node[c][k].tries = node[r][c][k].tries
        /\ Snap(t).node[c][k].state # "PENDING"
        /\ node[r][c][k].tries \in 1..Graph[r].node[k].retry + 1
        /\ Cardinality(MadeFor(cmd, <<r, c, k>>)) < node[r][c][k].tries
    <3>1. CallCounts(node[r], cmd, r, Snap(t).node, Call(t))
      BY <1>3, <1>5, CallCounted
    <3>2. RowCounts(node[r], cmd, r, c, k)
      BY <2>2 DEF Counts, RowsCount
    <3> QED
      BY <1>1, <1>3, <2>2, <3>1, <3>2 DEF CallCounts, CopyCounts, RowCounts
  <2>4. tries = node[r][c][k].tries
    <3>1. CASE tries = 1 /\ TypeOf(r, k) = "NAVIGATION"
      <4>1. Graph[r].node[k].retry = 0
        BY <2>2, <3>1 DEF Counted
      <4>2. node[r][c][k].tries \in 1..1
        BY <2>3, <4>1
      <4> QED
        BY <3>1, <4>2
    <3> QED
      BY <1>1, <1>5, <2>3, <3>1
  <2>5. /\ DOMAIN cmds = DOMAIN cmd \cup {i} /\ i \notin DOMAIN cmd
        /\ \A j \in DOMAIN cmd : cmds[j] = cmd[j]
        /\ cmds[i] = new
    <3>1. cmd \in Seq(CommandRow) /\ DOMAIN cmd = 1..Len(cmd) /\ Len(cmd) \in Nat
      BY CommandsParts DEF TypeOK, CommandsOK
    <3> QED
      BY <1>1, <1>2, <2>1, <3>1
  <2>made. ASSUME NEW d, NEW j, NEW x
         PROVE  x \in MadeFor(cmds, <<r, d, j>>) <=>
                  x \in MadeFor(cmd, <<r, d, j>>) \/ (d = c /\ j = k /\ x = i)
    <3>1. CASE x \in DOMAIN cmd
      BY <2>5, <3>1 DEF MadeFor
    <3>2. CASE x = i
      BY <1>2, <1>5, <2>5, <3>2 DEF MadeFor
    <3>3. CASE x \notin DOMAIN cmd \cup {i}
      BY <2>5, <3>3 DEF MadeFor
    <3> QED
      BY <3>1, <3>2, <3>3
  <2>6. /\ MadeFor(cmds, <<r, c, k>>) = MadeFor(cmd, <<r, c, k>>) \cup {i}
        /\ \A d, j : ~(d = c /\ j = k) =>
             MadeFor(cmds, <<r, d, j>>) = MadeFor(cmd, <<r, d, j>>)
    <3>1. ASSUME NEW d, NEW j, ~(d = c /\ j = k)
          PROVE  MadeFor(cmds, <<r, d, j>>) = MadeFor(cmd, <<r, d, j>>)
      <4>1. \A x : x \in MadeFor(cmds, <<r, d, j>>) <=> x \in MadeFor(cmd, <<r, d, j>>)
        BY <2>made, <3>1
      <4> QED
        BY <4>1
    <3>2. MadeFor(cmds, <<r, c, k>>) = MadeFor(cmd, <<r, c, k>>) \cup {i}
      <4>1. \A x : x \in MadeFor(cmds, <<r, c, k>>)
                    <=> x \in MadeFor(cmd, <<r, c, k>>) \cup {i}
        BY <2>made
      <4> QED
        BY <4>1
    <3> QED
      BY <3>1, <3>2
  <2>7. Cardinality(MadeFor(cmds, <<r, c, k>>)) <= tries
    <3>1. MadeFor(cmds, <<r, c, k>>) = MadeFor(cmd, <<r, c, k>>) \cup {i}
      BY <2>6
    <3>2. i \notin MadeFor(cmd, <<r, c, k>>)
      BY <2>5 DEF MadeFor
    <3>3. PICK n, m : n = node[r][c][k].tries /\ m = Cardinality(MadeFor(cmd, <<r, c, k>>))
      OBVIOUS
    <3>4. m \in Nat /\ Cardinality(MadeFor(cmds, <<r, c, k>>)) = m + 1
      BY <3>1, <3>2, <3>3, MadeFinitely
    <3>5. n \in Nat /\ m < n /\ tries = n
      BY <2>2, <2>3, <2>4, <3>3 DEF NodeRow
    <3> QED
      BY <3>4, <3>5
  <2>8. /\ DOMAIN rows = DOMAIN node[r]
        /\ \A d \in DOMAIN node[r], j \in Key(r) :
             rows[d][j] = IF d = c /\ j = k THEN row ELSE node[r][d][j]
    BY <1>2, <1>5, <2>1, WrittenRows
  <2>9. RowsCount(rows, cmds, r)
    <3> SUFFICES ASSUME NEW d \in DOMAIN rows, NEW j \in Key(r)
                 PROVE  RowCounts(rows, cmds, r, d, j)
      BY DEF RowsCount
    <3>1. CASE d = c /\ j = k
      BY <1>2, <2>3, <2>4, <2>7, <2>8, <3>1 DEF RowCounts
    <3>2. CASE ~(d = c /\ j = k)
      <4>1. RowCounts(node[r], cmd, r, d, j)
        BY <2>8 DEF Counts, RowsCount
      <4>2. MadeFor(cmds, <<r, d, j>>) = MadeFor(cmd, <<r, d, j>>)
        BY <2>6, <3>2
      <4> QED
        BY <2>8, <3>2, <4>1, <4>2 DEF RowCounts
    <3> QED
      BY <3>1, <3>2
  <2>10. TasksCount(timer, rows, r)
    <3>1. TaskTokens(timer, r) = {}
      BY <1>3, <1>5, OnlyHere
    <3> QED
      BY <3>1 DEF TaskTokens, TasksCount
  <2>11. /\ DOMAIN copy = DOMAIN Snap(t).node
         /\ \A d \in DOMAIN copy, j \in Key(r) :
              /\ copy[d][j].state = Snap(t).node[d][j].state
              /\ copy[d][j].tries = IF d = c /\ j = k THEN tries ELSE Snap(t).node[d][j].tries
    <3>1. copy = WithTries(Snap(t), Call(t).c, Call(t).k, tries).node
      BY <1>1, <2>1
    <3>2. /\ DOMAIN copy = DOMAIN Snap(t).node
          /\ \A d \in DOMAIN copy, j \in Key(r) :
               /\ copy[d][j].state = Snap(t).node[d][j].state
               /\ copy[d][j].tries = IF d = Call(t).c /\ j = Call(t).k THEN tries
                                     ELSE Snap(t).node[d][j].tries
      BY <1>3, <1>5, <3>1, TriesKept
    <3> QED
      BY <1>1, <3>2
  <2>12. CopyCounts(rows, cmds, r, copy)
    <3> SUFFICES ASSUME NEW d \in DOMAIN copy, NEW j \in Key(r)
                 PROVE  /\ copy[d][j].tries = rows[d][j].tries
                        /\ copy[d][j].state = "PENDING" => MadeFor(cmds, <<r, d, j>>) = {}
      BY DEF CopyCounts
    <3>1. /\ Snap(t).node[d][j].tries = node[r][d][j].tries
          /\ Snap(t).node[d][j].state = "PENDING" => MadeFor(cmd, <<r, d, j>>) = {}
      BY <2>2, <2>11 DEF CopyCounts
    <3>2. rows[d][j] = IF d = c /\ j = k THEN row ELSE node[r][d][j]
      BY <2>2, <2>8, <2>11
    <3>3. CASE d = c /\ j = k
      BY <1>2, <2>3, <2>11, <3>2, <3>3
    <3>4. CASE ~(d = c /\ j = k)
      <4>1. MadeFor(cmds, <<r, d, j>>) = MadeFor(cmd, <<r, d, j>>)
        BY <2>6, <3>4
      <4> QED
        BY <2>11, <3>1, <3>2, <3>4, <4>1
    <3> QED
      BY <3>3, <3>4
  <2>13. CallCounts(rows, cmds, r, copy, call)
    <3>1. call.op \notin CountedOps
      BY <1>1 DEF OnNode, Op, CountedOps
    <3> QED
      BY <2>12, <3>1, PlainCall
  <2>14. FramesOf(<<call>>) = {call} /\ <<call>> \in Seq(FramesOf(<<call>>))
    BY TupleElements
  <2>15. \A x \in FramesOf(<<call>>) : CallCounts(node'[r], cmd', r, snap.node, x)
    BY <2>1, <2>13, <2>14
  <2>16. RowsCount(node'[r], cmd', r) /\ TasksCount(timer', node'[r], r)
    BY <1>2, <2>1, <2>9, <2>10
  <2> QED
    BY <1>2, <1>3, <1>5, <2>14, <2>15, <2>16, TurnCounts
<1> QED
  BY <1>4, <1>5

\* A frame with a fresh copy, as a request or a handler makes it.
LEMMA LoadedFrame ==
  ASSUME NEW s, NEW todo
  PROVE  LET f == Frame(s, Load(s), todo)
         IN f.run = s /\ f.snap.node = node[s] /\ f.todo = todo
BY DEF Frame, Load

\* An event or a run's end enters another run, and an event completes nodes
\* that wait for it.
LEMMA StepCountsEnters ==
  ASSUME TypeOK, HandlersSuit, NEW r \in Run, Counted(r), Alone(r), Counts(r),
         NEW t \in Thread, StartByEvent(t) \/ Notify(t)
  PROVE  Counts(r)'
<1>1. ~Idle(t) /\ UNCHANGED <<cmd, timer>>
  BY DEF StartByEvent, Notify, Calls, db
<1>2. CASE Skip(t) /\ UNCHANGED node
  <2>1. Steady(r) /\ Return(t, Snap(t), <<>>)
    BY <1>1, <1>2, SteadyWhole DEF Skip
  <2>2. GoesPlainly(t, r, Snap(t), <<>>)
    BY <1>1, PlainCalls, CopyDerived, OneTogether DEF GoesPlainly
  <2> QED
    BY <1>1, <2>1, <2>2, PlainCounts DEF GoesPlainly
<1>3. ASSUME NEW s \in Run, CreateWorkflowRun(s, NoParent),
             Enter(t, Frame(s, Load(s), <<Op("boot")>>))
      PROVE  Counts(r)'
  <2>1. PICK f : f = Frame(s, Load(s), <<Op("boot")>>)
    OBVIOUS
  <2>2. f.run = s /\ f.snap.node = node[s] /\ f.todo = <<Op("boot")>>
    BY <2>1, LoadedFrame
  <2>3. Plain(<<Op("boot")>>)
    <3>1. Op("boot").op \notin CountedOps
      BY DEF Op, CountedOps
    <3> QED
      BY <3>1, PlainCalls
  <2>4. Steady(r)
    BY <1>1, <1>3, SteadyRows, SteadyWhole
  <2> QED
    BY <1>1, <1>3, <2>1, <2>2, <2>3, <2>4, EnterCounts
<1>4. CASE StartByEvent(t)
  BY <1>2, <1>3, <1>4 DEF StartByEvent
<1>5. CASE Notify(t)
  <2> DEFINE up == run[RunOf(t)].parent
  <2>1. UNCHANGED node /\ Steady(r)
    BY <1>5, SteadyWhole DEF Notify, db
  <2>2. CASE Skip(t)
    BY <1>2, <2>1, <2>2
  <2>3. CASE ~Skip(t)
    <3>1. PICK s, f, call :
            /\ s = up[1] /\ call = WithOutcome(OnNode("settle", up[2], up[3]), Call(t).ok)
            /\ f = Frame(s, Load(s), <<call>>)
      OBVIOUS
    <3>2. Enter(t, f)
      BY <1>5, <2>3, <3>1 DEF Notify
    <3>3. f.run = s /\ f.snap.node = node[s] /\ f.todo = <<call>>
      BY <3>1, LoadedFrame
    <3>4. call.op \notin CountedOps
      BY <3>1 DEF WithOutcome, OnNode, Op, CountedOps
    <3> QED
      BY <1>1, <2>1, <3>2, <3>3, <3>4, PlainCalls, EnterCounts
  <2> QED
    BY <2>2, <2>3
<1> QED
  BY <1>4, <1>5

\* A called workflow's run begins on top of the one that waits for it.
LEMMA StepCountsSpawns ==
  ASSUME TypeOK, HandlersSuit, NEW r \in Run, Counted(r), Alone(r), Counts(r),
         NEW t \in Thread, SpawnChild(t)
  PROVE  Counts(r)'
<1>1. /\ ~Idle(t) /\ Call(t).op = "spawn" /\ UNCHANGED <<cmd, timer>>
  BY DEF SpawnChild, Calls
<1>2. r # RunOf(t)
  BY <1>1, NoWaitCall DEF Counted, WaitOps
<1>3. ASSUME NEW calls, Return(t, Snap(t), calls), UNCHANGED node
      PROVE  Counts(r)'
  BY <1>1, <1>2, <1>3, SteadyWhole, PlainCounts
<1>4. ASSUME NEW s \in Run, NEW parent, CreateWorkflowRun(s, parent), NEW f, NEW g,
             f.run = RunOf(t), g.run = s, g.snap.node = node[s], g.todo = <<Op("boot")>>,
             SetStack(t, <<f, g>> \o Push(Caller(t), Tail(stack[t])))
      PROVE  Counts(r)'
  <2>1. Steady(r)
    BY <1>1, <1>4, SteadyRows, SteadyWhole
  <2>2. Plain(<<Op("boot")>>)
    <3>1. Op("boot").op \notin CountedOps
      BY DEF Op, CountedOps
    <3> QED
      BY <3>1, PlainCalls
  <2>3. PICK h : h = Caller(t) /\ h.run = RunOf(t)
    <3>1. Caller(t).run = RunOf(t)
      BY DEF Caller, Frame
    <3> QED
      BY <3>1
  <2>4. /\ FrameCounts(node'[r], cmd', r, f) /\ FrameCounts(node'[r], cmd', r, g)
        /\ FrameCounts(node'[r], cmd', r, h)
    <3>1. FrameCounts(node'[r], cmd', r, g)
      BY <1>4, <2>1, <2>2, FreshCounts
    <3> QED
      BY <1>2, <1>4, <2>3, <3>1 DEF FrameCounts
  <2>5. Tail(stack[t]) \in Seq(FramesOf(Tail(stack[t])))
    BY <1>1, TopPlaces, ElementsOf
  <2>6. PICK below : /\ below = Push(h, Tail(stack[t])) /\ below \in Seq(FramesOf(below))
                     /\ FramesOf(below) \subseteq {h} \cup FramesOf(Tail(stack[t]))
    BY <2>5, PushElements
  <2>7. PICK s2 : s2 = <<f, g>> \o below /\ FramesOf(s2) \subseteq {f, g} \cup FramesOf(below)
    <3>1. <<f, g>> \in Seq(FramesOf(<<f, g>>)) /\ FramesOf(<<f, g>>) = {f, g}
      BY TupleElements
    <3> QED
      BY <2>6, <3>1, ConcatElements
  <2>8. stack' = [stack EXCEPT ![t] = s2]
    BY <1>4, <2>3, <2>6, <2>7 DEF SetStack
  <2>9. \A q \in FramesOf(s2) : q \in FramesOf(stack[t]) \/ FrameCounts(node'[r], cmd', r, q)
    BY <1>1, <2>4, <2>6, <2>7, TopElements
  <2> QED
    BY <2>1, <2>8, <2>9, StackCounts
<1>5. ASSUME NEW s \in Run, CreateWorkflowRun(s, <<RunOf(t), Call(t).c, Call(t).k>>),
             SetStack(t, <<Frame(RunOf(t), Snap(t), <<OnNode("link", Call(t).c, Call(t).k)>>),
                           Frame(s, Load(s), <<Op("boot")>>)>> \o Push(Caller(t), Tail(stack[t])))
      PROVE  Counts(r)'
  <2>1. PICK f, g, parent :
          /\ f = Frame(RunOf(t), Snap(t), <<OnNode("link", Call(t).c, Call(t).k)>>)
          /\ g = Frame(s, Load(s), <<Op("boot")>>)
          /\ parent = <<RunOf(t), Call(t).c, Call(t).k>>
    OBVIOUS
  <2>2. f.run = RunOf(t)
    BY <2>1 DEF Frame
  <2>3. g.run = s /\ g.snap.node = node[s] /\ g.todo = <<Op("boot")>>
    BY <2>1, LoadedFrame
  <2> QED
    BY <1>4, <1>5, <2>1, <2>2, <2>3
<1>6. Graph[RunOf(t)].node[Call(t).k].calls \subseteq Run
  BY <1>1, CallParts, NodeParts DEF NodeAttributes, RowOps
<1> QED
  BY <1>3, <1>5, <1>6 DEF SpawnChild

\* The nodes an event completes are entered one at a time, on fresh copies.
LEMMA StepCountsWakes ==
  ASSUME TypeOK, HandlersSuit, NEW r \in Run, Counted(r), Alone(r), Counts(r),
         NEW t \in Thread, WakeRun(t)
  PROVE  Counts(r)'
<1>1. ~Idle(t) /\ UNCHANGED <<cmd, timer, node>>
  BY DEF WakeRun, Calls, db
<1>2. Steady(r)
  BY <1>1, SteadyWhole
<1>3. CASE Skip(t)
  <2>1. GoesPlainly(t, r, Snap(t), <<>>)
    BY <1>1, PlainCalls, CopyDerived, OneTogether DEF GoesPlainly
  <2> QED
    BY <1>1, <1>2, <1>3, <2>1, PlainCounts DEF GoesPlainly, Skip
<1>4. ASSUME NEW left, left.run = RunOf(t), left.snap.node = Snap(t).node,
             left.todo = Top(t).todo, NEW above, NEW f,
             f.run = r => f.snap.node = node[r] /\ Plain(f.todo),
             above = <<>> \/ above = <<f>>,
             SetStack(t, above \o <<left>> \o Tail(stack[t]))
      PROVE  Counts(r)'
  <2>1. FrameCounts(node'[r], cmd', r, f) /\ FrameCounts(node'[r], cmd', r, left)
    BY <1>1, <1>2, <1>4, FreshCounts, CallerCounts
  <2>2. PICK below : /\ below = Tail(stack[t]) /\ below \in Seq(FramesOf(below))
                     /\ FramesOf(below) \subseteq FramesOf(stack[t])
    BY <1>1, TopPlaces, TopElements, ElementsOf
  <2>3. above \in Seq(FramesOf(above)) /\ FramesOf(above) \subseteq {f}
    BY <1>4, TupleElements
  <2>4. <<left>> \in Seq(FramesOf(<<left>>)) /\ FramesOf(<<left>>) = {left}
    BY TupleElements
  <2>5. PICK u : /\ u = above \o <<left>> /\ u \in Seq(FramesOf(u))
                 /\ FramesOf(u) \subseteq {f, left}
    <3>1. /\ above \o <<left>> \in Seq(FramesOf(above \o <<left>>))
          /\ FramesOf(above \o <<left>>) \subseteq FramesOf(above) \cup FramesOf(<<left>>)
      BY <2>3, <2>4, ConcatElements
    <3>2. FramesOf(above \o <<left>>) \subseteq {f, left}
      BY <2>3, <2>4, <3>1
    <3> QED
      BY <3>1, <3>2
  <2>6. PICK w : w = u \o below /\ FramesOf(w) \subseteq {f, left} \cup FramesOf(below)
    BY <2>2, <2>5, ConcatElements
  <2>7. stack' = [stack EXCEPT ![t] = w]
    BY <1>4, <2>2, <2>5, <2>6 DEF SetStack
  <2>8. \A q \in FramesOf(w) : q \in FramesOf(stack[t]) \/ FrameCounts(node'[r], cmd', r, q)
    BY <2>1, <2>2, <2>6
  <2> QED
    BY <1>2, <2>7, <2>8, StackCounts
<1>5. ASSUME NEW n \in Snap(t).waiting,
             SetStack(t, (IF run[n[1]].state = "RUNNING"
                            THEN <<Frame(n[1], Load(n[1]), <<OnKey("complete", n[3])>>)>>
                            ELSE <<>>)
                         \o <<Frame(RunOf(t), [Snap(t) EXCEPT !.waiting = @ \ {n}], Top(t).todo)>>
                         \o Tail(stack[t]))
      PROVE  Counts(r)'
  <2>1. PICK left, above, f :
             /\ left = Frame(RunOf(t), [Snap(t) EXCEPT !.waiting = @ \ {n}], Top(t).todo)
             /\ f = Frame(n[1], Load(n[1]), <<OnKey("complete", n[3])>>)
             /\ above = IF run[n[1]].state = "RUNNING" THEN <<f>> ELSE <<>>
    OBVIOUS
  <2>2. SetStack(t, above \o <<left>> \o Tail(stack[t])) /\ (above = <<>> \/ above = <<f>>)
    BY <1>5, <2>1
  <2>3. left.run = RunOf(t) /\ left.todo = Top(t).todo
        /\ left.snap = [Snap(t) EXCEPT !.waiting = @ \ {n}]
    BY <2>1 DEF Frame
  <2>4. left.snap.node = Snap(t).node
    <3>1. Snap(t) \in Snapshot(RunOf(t), Owner, Attempts)
      BY <1>1, CallParts
    <3> QED
      BY <2>3, <3>1 DEF Snapshot
  <2>5. f.run = n[1] /\ f.snap.node = node[n[1]] /\ Plain(f.todo)
    <3>1. OnKey("complete", n[3]).op \notin CountedOps
      BY DEF OnKey, Op, CountedOps
    <3> QED
      BY <2>1, <3>1, LoadedFrame, PlainCalls
  <2> QED
    BY <1>4, <2>2, <2>3, <2>4, <2>5
<1> QED
  BY <1>3, <1>5 DEF WakeRun

-----------------------------------------------------------------------------
\* Commands keep their nodes whatever happens to them.
LEMMA CommandsKept ==
  ASSUME TypeOK, NEW r
  PROVE  /\ \A i, state :
              cmd' = [cmd EXCEPT ![i].live = FALSE, ![i].state = state] => CommandsSteady(r)
         /\ cmd' = [i \in DOMAIN cmd |-> [cmd[i] EXCEPT !.live = FALSE]] => CommandsSteady(r)
<1>1. \A i \in DOMAIN cmd : cmd[i] \in CommandRow
  BY CommandsParts DEF TypeOK
<1>2. ASSUME NEW i, NEW state,
             cmd' = [cmd EXCEPT ![i].live = FALSE, ![i].state = state]
      PROVE  CommandsSteady(r)
  <2>1. cmd' = [cmd EXCEPT ![i] = [cmd[i] EXCEPT !.live = FALSE, !.state = state]]
    BY <1>2
  <2>2. /\ DOMAIN cmd' = DOMAIN cmd
        /\ \A j \in DOMAIN cmd : /\ cmd'[j].run = cmd[j].run /\ cmd'[j].c = cmd[j].c
                                 /\ cmd'[j].k = cmd[j].k
    BY <1>1, <2>1 DEF CommandRow
  <2> QED
    BY <2>2, SteadyCommands
<1>3. ASSUME cmd' = [i \in DOMAIN cmd |-> [cmd[i] EXCEPT !.live = FALSE]]
      PROVE  CommandsSteady(r)
  <2>1. /\ DOMAIN cmd' = DOMAIN cmd
        /\ \A j \in DOMAIN cmd : /\ cmd'[j].run = cmd[j].run /\ cmd'[j].c = cmd[j].c
                                 /\ cmd'[j].k = cmd[j].k
    BY <1>1, <1>3 DEF CommandRow
  <2> QED
    BY <2>1, SteadyCommands
<1> QED
  BY <1>2, <1>3

\* The end of a DELAY, the next attempt, which the node has left, and the next
\* cycle, whose nodes are new.
LEMMA StepCountsFires ==
  ASSUME TypeOK, NEW r \in Run, Counts(r), NEW task \in DOMAIN timer, Fire(task)
  PROVE  Counts(r)'
<1>1. /\ timer' = BagRemove(timer, task) /\ UNCHANGED cmd
      /\ Timer \in Thread /\ CommandsSteady(r) /\ TasksSteady(r)
  <2>1. timer' = BagRemove(timer, task) /\ UNCHANGED cmd
    BY DEF Fire, FireDelay, FireRetry, FireCycle, FireTask
  <2> QED
    BY <2>1, SteadyCommands, SteadyTasks DEF Thread
<1>2. ASSUME NEW todo, Plain(todo), Steady(r),
             stack' = [stack EXCEPT ![Timer] = <<Frame(task.run, Load(task.run), todo)>>]
      PROVE  Counts(r)'
  <2>1. PICK f : f = Frame(task.run, Load(task.run), todo)
    OBVIOUS
  <2>2. f.run = task.run /\ f.snap.node = node[task.run] /\ f.todo = todo
    BY <2>1, LoadedFrame
  <2>3. PICK t \in Thread : t = Timer
    BY <1>1
  <2>4. stack' = [stack EXCEPT ![t] = <<f>>]
    BY <1>2, <2>1, <2>3
  <2> QED
    BY <1>2, <2>2, <2>4, StartCounts
<1>3. \A k : Plain(<<OnKey("complete", k)>>) /\ Plain(<<Op("boot")>>)
  <2>1. \A k : OnKey("complete", k).op \notin CountedOps /\ Op("boot").op \notin CountedOps
    BY DEF OnKey, Op, CountedOps
  <2> QED
    BY <2>1, PlainCalls
<1>4. CASE FireDelay(task)
  <2>1. Steady(r)
    BY <1>1, <1>4, SteadyRows DEF FireDelay, Steady
  <2>2. \/ UNCHANGED stack
        \/ stack' = [stack EXCEPT ![Timer] =
                       <<Frame(task.run, Load(task.run), <<OnKey("complete", task.k)>>)>>]
    BY <1>4 DEF FireDelay
  <2> QED
    BY <1>2, <1>3, <2>1, <2>2, NothingCounts
<1>5. CASE FireRetry(task)
  <2>1. Steady(r) /\ UNCHANGED node
    BY <1>1, <1>5, SteadyRows DEF FireRetry, Steady
  <2>2. CASE UNCHANGED stack
    BY <2>1, <2>2, NothingCounts
  <2>3. CASE ~UNCHANGED stack
    <3>1. PICK f, call : /\ call = OnNode("again", task.c, task.k)
                         /\ f = Frame(task.run, Load(task.run), <<call>>)
      OBVIOUS
    <3>2. PICK t \in Thread : t = Timer
      BY <1>1
    <3>3. stack' = [stack EXCEPT ![t] = <<f>>] /\ StillRunning(task) /\ task.kind = "retry"
      BY <1>5, <2>3, <3>1, <3>2 DEF FireRetry
    <3>4. f.run = task.run /\ f.snap.node = node[task.run] /\ f.todo = <<call>>
      BY <3>1, LoadedFrame
    <3>5. call.op = "again" /\ call.c = task.c /\ call.k = task.k
      BY <3>1 DEF OnNode, Op
    <3>6. ASSUME task.run = r
          PROVE  CallCounts(node[r], cmd, r, node[r], call)
      <4>1. CopyCounts(node[r], cmd, r, node[r])
        BY LoadedCounts DEF Fixed
      <4>2. node[r][call.c][call.k].tries <= Graph[r].node[call.k].retry
        BY <3>3, <3>5, <3>6 DEF Counts, TasksCount
      <4>3. node[r][call.c][call.k].state # "PENDING"
        BY <3>3, <3>5, <3>6 DEF StillRunning
      <4> QED
        BY <3>5, <4>1, <4>2, <4>3 DEF CallCounts
    <3>7. FrameCounts(node[r], cmd, r, f)
      <4>1. FramesOf(f.todo) = {call}
        BY <3>4, TupleElements
      <4> QED
        BY <3>4, <3>6, <4>1 DEF FrameCounts
    <3>8. FrameCounts(node'[r], cmd', r, f)
      BY <1>1, <2>1, <3>7
    <3>9. FramesOf(<<f>>) = {f}
      BY TupleElements
    <3> QED
      BY <2>1, <3>3, <3>8, <3>9, StackCounts
  <2> QED
    BY <2>2, <2>3
<1>6. CASE FireCycle(task)
  <2>1. \/ UNCHANGED <<node, stack>>
        \/ /\ node' = [node EXCEPT ![task.run] = Append(node[task.run], FreshNodes(task.run))]
           /\ stack' = [stack EXCEPT ![Timer] =
                          <<Frame(task.run, Load(task.run), <<Op("boot")>>)>>]
    BY <1>6 DEF FireCycle
  <2>2. CASE UNCHANGED <<node, stack>>
    BY <1>1, <2>2, SteadyRows, NothingCounts DEF Steady
  <2>3. CASE /\ node' = [node EXCEPT ![task.run] = Append(node[task.run], FreshNodes(task.run))]
             /\ stack' = [stack EXCEPT ![Timer] =
                            <<Frame(task.run, Load(task.run), <<Op("boot")>>)>>]
    <3>1. RowsSteady(r)
      <4>1. DOMAIN node = Run /\ node[r] \in Seq([Key(r) -> NodeRow])
        BY DEF TypeOK, RunsOK, NodeRows
      <4>2. CASE r # task.run
        <5>1. node'[r] = node[r]
          BY <2>3, <4>1, <4>2
        <5> QED
          BY <5>1 DEF RowsSteady
      <4>3. CASE r = task.run
        <5>1. node'[r] = Append(node[r], FreshNodes(r))
          BY <2>3, <4>1, <4>3
        <5>2. PICK rows, more : rows = node[r] /\ more = node'[r]
          OBVIOUS
        <5>3. rows \in Seq([Key(r) -> NodeRow]) /\ DOMAIN rows = 1..Len(rows) /\ Len(rows) \in Nat
          BY <4>1, <5>2, LenProperties
        <5>4. /\ DOMAIN more = DOMAIN rows \cup {Len(rows) + 1}
              /\ \A c \in DOMAIN rows : more[c] = rows[c]
              /\ more[Len(rows) + 1] = FreshNodes(r)
          BY <5>1, <5>2, <5>3
        <5>5. \A k \in Key(r) : FreshNodes(r)[k].tries = 1
          BY DEF FreshNodes
        <5> QED
          BY <5>2, <5>4, <5>5 DEF RowsSteady
      <4> QED
        BY <4>2, <4>3
    <3>2. Steady(r)
      BY <1>1, <3>1 DEF Steady
    <3> QED
      BY <1>2, <1>3, <2>3, <3>2
  <2> QED
    BY <2>1, <2>2, <2>3
<1> QED
  BY <1>4, <1>5, <1>6 DEF Fire

\* A robot's answer, and its feedback.
LEMMA StepCountsAnswers ==
  ASSUME TypeOK, NEW r \in Run, Counts(r), NEW i \in DOMAIN cmd,
         Result(i) \/ CommandFeedback(i)
  PROVE  Counts(r)'
<1>1. ASSUME NEW todo, Plain(todo), CommandsSteady(r), UNCHANGED <<node, timer>>,
             stack' = [stack EXCEPT ![Callback] =
                         <<Frame(cmd[i].run, Load(cmd[i].run), todo)>>]
      PROVE  Counts(r)'
  <2>1. PICK s, f : s = cmd[i].run /\ f = Frame(s, Load(s), todo)
    OBVIOUS
  <2>2. f.run = s /\ f.snap.node = node[s] /\ f.todo = todo
    BY <2>1, LoadedFrame
  <2>3. PICK t \in Thread : t = Callback
    BY DEF Thread
  <2>4. stack' = [stack EXCEPT ![t] = <<f>>]
    BY <1>1, <2>1, <2>3
  <2>5. Steady(r)
    BY <1>1, SteadyWhole
  <2> QED
    BY <1>1, <2>2, <2>4, <2>5, StartCounts
<1>2. CASE Result(i)
  <2>1. PICK ok : CommandResult(i, ok)
    BY <1>2 DEF Result
  <2>2. PICK state, call :
          /\ state = IF ok THEN "SUCCEEDED" ELSE "FAILED"
          /\ call = WithOutcome(OnIndex("result", i), ok)
    OBVIOUS
  <2>3. /\ cmd' = [cmd EXCEPT ![i].live = FALSE, ![i].state = state]
        /\ stack' = [stack EXCEPT ![Callback] =
                       <<Frame(cmd[i].run, Load(cmd[i].run), <<call>>)>>]
        /\ UNCHANGED <<node, timer>>
    BY <2>1, <2>2 DEF CommandResult
  <2>4. call.op \notin CountedOps
    BY <2>2 DEF WithOutcome, OnIndex, Op, CountedOps
  <2> QED
    BY <1>1, <2>3, <2>4, CommandsKept, PlainCalls
<1>3. CASE CommandFeedback(i)
  <2>1. PICK s, todo :
          /\ s = cmd[i].run
          /\ todo = FollowEdges(s, cmd[i].k, "event", Graph[s].node[cmd[i].k].feedback)
    OBVIOUS
  <2>2. /\ cmd' = [cmd EXCEPT ![i].fired = TRUE] /\ UNCHANGED <<node, timer>>
        /\ stack' = [stack EXCEPT ![Callback] = <<Frame(s, Load(s), todo)>>]
    BY <1>3, <2>1 DEF CommandFeedback
  <2> QED
    BY <1>1, <2>1, <2>2, SteadyCommands, PlainFollow
<1> QED
  BY <1>2, <1>3

\* A request: a start, a cancellation, an injected event.  A decision is asked
\* of a run that has a confirmation.
LEMMA StepCountsAsks ==
  ASSUME TypeOK, NEW r \in Run, Counted(r), Counts(r), NEW h \in Http, HttpRequest(h)
  PROVE  Counts(r)'
<1>1. ASSUME NEW kind, NEW f, Request(h, kind, f), Steady(r),
             f.run = r => f.snap.node = node[r] /\ Plain(f.todo)
      PROVE  Counts(r)'
  <2>1. PICK t \in Thread : t = h
    BY DEF Thread
  <2>2. stack' = [stack EXCEPT ![t] = <<f>>]
    BY <1>1, <2>1 DEF Request
  <2> QED
    BY <1>1, <2>2, StartCounts
<1>2. ASSUME NEW kind, NEW f, Request(h, kind, f), UNCHANGED db
      PROVE  Steady(r)
  BY <1>2, SteadyWhole DEF Request, db
<1>3. ASSUME NEW s \in Manual, StartManual(h, s)
      PROVE  Counts(r)'
  <2>1. PICK f : f = Frame(s, Load(s), <<Op("boot")>>)
    OBVIOUS
  <2>2. f.run = s /\ f.snap.node = node[s] /\ Plain(f.todo) /\ s \in Run
    <3>1. Op("boot").op \notin CountedOps
      BY DEF Op, CountedOps
    <3> QED
      BY <2>1, <3>1, LoadedFrame, PlainCalls, ExecutorAssumption
  <2>3. /\ Request(h, "start", f) /\ CreateWorkflowRun(s, NoParent)
        /\ UNCHANGED <<cmd, timer>>
    BY <1>3, <2>1 DEF StartManual, Request
  <2>4. Steady(r)
    BY <2>2, <2>3, SteadyRows, SteadyWhole
  <2> QED
    BY <1>1, <2>2, <2>3, <2>4
<1>4. ASSUME NEW s \in Run, Cancel(h, s)
      PROVE  Counts(r)'
  <2>1. PICK snap, f, a, b, c, d :
          /\ a = Op("cancelCommands") /\ b = Op("cancelNodes") /\ c = Op("cancelRun")
          /\ d = NotifyParent(FALSE)
          /\ f = Frame(s, snap, <<a, b, c, d>>)
          /\ Request(h, "cancel", f) /\ UNCHANGED db
          /\ \E commands : snap = [Load(s) EXCEPT !.commands = commands]
    BY <1>4 DEF Cancel
  <2>2. a.op \notin CountedOps /\ b.op \notin CountedOps /\ c.op \notin CountedOps
        /\ d.op \notin CountedOps
    BY <2>1 DEF Op, NotifyParent, WithOutcome, CountedOps
  <2>3. Plain(<<a, b, c, d>>)
    <3>1. FramesOf(<<a, b, c, d>>) = {a, b, c, d}
      BY DEF FramesOf
    <3>2. <<a, b, c, d>> \in Seq({a, b, c, d})
      OBVIOUS
    <3> QED
      BY <2>2, <3>1, <3>2 DEF Plain
  <2>4. f.run = s /\ f.todo = <<a, b, c, d>> /\ f.snap = snap
    BY <2>1 DEF Frame
  <2>5. snap.node = node[s]
    BY <2>1 DEF Load
  <2> QED
    BY <1>1, <1>2, <2>1, <2>3, <2>4, <2>5
<1>5. ASSUME NEW s \in Run, NEW c, NEW k \in Key(s), NEW ok, DecideManual(h, s, c, k, ok)
      PROVE  Counts(r)'
  <2>1. PICK f : f = Frame(s, Load(s), <<WithOutcome(OnNode("decide", c, k), ok)>>)
    OBVIOUS
  <2>2. f.run = s
    BY <2>1 DEF Frame
  <2>3. Request(h, "decide", f) /\ UNCHANGED db /\ Confirms(s, k)
    BY <1>5, <2>1 DEF DecideManual, Confirms
  <2>4. s # r
    BY <2>3 DEF Counted
  <2> QED
    BY <1>1, <1>2, <2>2, <2>3, <2>4
<1>6. ASSUME NEW ev, InjectEvent(h, ev)
      PROVE  Counts(r)'
  <2>1. PICK s, f, call : /\ s = (CHOOSE q \in Run : TRUE)
                          /\ call = [Op("inject") EXCEPT !.ev = ev]
                          /\ f = Frame(s, Load(s), <<call>>)
    OBVIOUS
  <2>2. call.op \notin CountedOps
    BY <2>1 DEF Op, CountedOps
  <2>3. f.run = s /\ f.snap.node = node[s] /\ f.todo = <<call>>
    BY <2>1, LoadedFrame
  <2>4. Request(h, "inject", f) /\ UNCHANGED db
    BY <1>6, <2>1 DEF InjectEvent
  <2> QED
    BY <1>1, <1>2, <2>2, <2>3, <2>4, PlainCalls
<1> QED
  BY <1>3, <1>4, <1>5, <1>6, ExecutorAssumption DEF HttpRequest

\* A restart keeps the tables and leaves no frame and no task.
LEMMA StepCountsDies ==
  ASSUME TypeOK, NEW r \in Run, Counts(r), Restart
  PROVE  Counts(r)'
<1>1. Steady(r)
  BY SteadyRows, CommandsKept, SteadyTasks DEF Restart, Steady
<1>2. PICK stacks : stacks = stack' /\ \A t \in Thread : stacks[t] = <<>>
  BY DEF Restart
<1>3. FramesOf(<<>>) = {}
  BY TupleElements
<1>4. FramesCount(stacks, node'[r], cmd', r)
  BY <1>2, <1>3 DEF FramesCount
<1> QED
  BY <1>1, <1>2, <1>4, SteadyTables, CountsAfter

-----------------------------------------------------------------------------
\* The tables count on through every step of the system.
LEMMA NextCounts ==
  ASSUME TypeOK, HandlersSuit, NEW r \in Run, Counted(r), Alone(r), Counts(r), [Next]_vars
  PROVE  Counts(r)'
<1>1. ASSUME NEW t \in Thread, Step(t) PROVE Counts(r)'
  BY <1>1, StepCountsOn, StepCountsWaiting, StepCountsCommands, StepCountsOthers,
     StepCountsAlong, StepCountsRetry, StepCountsAgain, StepCountsDispatch,
     StepCountsEnters, StepCountsSpawns, StepCountsWakes DEF Step
<1>2. ASSUME NEW task \in DOMAIN timer, Fire(task) PROVE Counts(r)'
  BY <1>2, StepCountsFires
<1>3. ASSUME NEW i \in DOMAIN cmd, Result(i) \/ CommandFeedback(i) PROVE Counts(r)'
  BY <1>3, StepCountsAnswers
<1>4. ASSUME NEW h \in Http, HttpRequest(h) PROVE Counts(r)'
  BY <1>4, StepCountsAsks
<1>5. CASE Restart
  BY <1>5, StepCountsDies
<1>6. CASE UNCHANGED vars
  <2>1. UNCHANGED <<node, cmd, timer, stack>>
    BY <1>6 DEF vars
  <2> QED
    BY <2>1, SteadyWhole, NothingCounts
<1> QED
  BY <1>1, <1>2, <1>3, <1>4, <1>5, <1>6 DEF Next

\* Before the first request there is nothing to count.
LEMMA NothingAtFirst ==
  ASSUME Init, NEW r \in Run
  PROVE  Counts(r)
<1>1. RowsCount(node[r], cmd, r)
  <2>1. PICK rows : rows = node[r] /\ rows = <<>>
    BY DEF Init
  <2>2. DOMAIN rows = {}
    BY <2>1
  <2>3. RowsCount(rows, cmd, r)
    BY <2>2 DEF RowsCount
  <2> QED
    BY <2>1, <2>3
<1>2. TasksCount(timer, node[r], r)
  <2>1. DOMAIN timer = {}
    BY NoTasks DEF Init
  <2> QED
    BY <2>1 DEF TasksCount
<1>3. FramesCount(stack, node[r], cmd, r)
  <2>1. \A t \in Thread : stack[t] = <<>>
    BY DEF Init
  <2>2. FramesOf(<<>>) = {}
    BY TupleElements
  <2> QED
    BY <2>1, <2>2 DEF FramesCount
<1> QED
  BY <1>1, <1>2, <1>3 DEF Counts

\* What is counted bounds the commands of a node run.
LEMMA CountBounds ==
  ASSUME TypeOK, NEW n \in Existing, Counts(n[1])
  PROVE  Cardinality(CommandsOf(n)) <= Graph[n[1]].node[n[3]].retry + 1
<1>1. PICK r \in Run : n \in {r} \X (DOMAIN node[r]) \X Key(r)
  BY DEF Existing
<1>2. PICK c \in DOMAIN node[r], k \in Key(r) : n = <<r, c, k>>
  BY <1>1
<1>3. n[1] = r /\ n[3] = k
  BY <1>2
<1>4. RowCounts(node[r], cmd, r, c, k)
  BY <1>3 DEF Counts, RowsCount
<1>5. CommandsOf(n) = MadeFor(cmd, n)
  BY DEF CommandsOf, MadeFor
<1>6. Graph[r].node[k].retry \in Nat
  BY NodeParts DEF NodeAttributes
<1>7. PICK m, q \in Nat : /\ m = Cardinality(MadeFor(cmd, <<r, c, k>>))
                          /\ q = Graph[r].node[k].retry
  BY <1>6, MadeFinitely
<1>8. m <= q + 1
  BY <1>4, <1>7, MadeFinitely DEF RowCounts
<1> QED
  BY <1>2, <1>3, <1>5, <1>7, <1>8

\* RetriesBounded, of the node runs of counted runs.
CountedRetriesBounded ==
  \A n \in Existing :
    Counted(n[1]) => Cardinality(CommandsOf(n)) <= Graph[n[1]].node[n[3]].retry + 1

\* A node run of a counted run has at most retry_count + 1 commands, whatever
\* the other runs of the system are like: no order of answers, timer tasks,
\* cancellations, injected events and restarts makes dispatchNode create two
\* commands for an attempt, or scheduleNodeRetry work on a copy that is behind
\* command_attempt.
THEOREM CountedRetriesBoundedHolds == Spec => []CountedRetriesBounded
<1> DEFINE AllCount == \A r \in Run : Counted(r) => Counts(r)
<1>1. Init => AllCount
  BY NothingAtFirst
<1>2. TypeOK /\ HandlersSuit /\ OnePlace /\ AllCount /\ [Next]_vars => AllCount'
  <2> SUFFICES ASSUME TypeOK, HandlersSuit, OnePlace, AllCount, [Next]_vars,
                      NEW r \in Run, Counted(r)
               PROVE  Counts(r)'
    BY DEF Counted, Sequential, EdgeIds, Key, Waits, Confirms, TypeOf
  <2>1. Alone(r)
    BY DEF OnePlace, SequentialRuns, Counted
  <2> QED
    BY <2>1, NextCounts
<1>3. TypeOK /\ AllCount => CountedRetriesBounded
  <2> SUFFICES ASSUME TypeOK, AllCount, NEW n \in Existing, Counted(n[1])
               PROVE  Cardinality(CommandsOf(n)) <= Graph[n[1]].node[n[3]].retry + 1
    BY DEF CountedRetriesBounded
  <2>1. n[1] \in Run
    BY DEF Existing
  <2> QED
    BY <2>1, CountBounds
<1> QED
  BY <1>1, <1>2, <1>3, Typing, HandlersStaySuited, OnePlaceHolds, PTL DEF Spec

\* Where every run is counted, failure retries are finite for all of them: no
\* node run gets more commands than retry_count allows, as scheduleNodeRetry
\* means to ensure by looking at command_attempt alone.
THEOREM RetriesBoundedHolds ==
  ASSUME \A r \in Run : Counted(r)
  PROVE  Spec => []RetriesBounded
<1>1. CountedRetriesBounded => RetriesBounded
  BY DEF CountedRetriesBounded, RetriesBounded, Existing
<1> QED
  BY <1>1, CountedRetriesBoundedHolds, PTL
==============================================================================
