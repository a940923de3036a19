------------------------- MODULE DspHandshake_proofs -------------------------
(***************************************************************************)
(* Every call of the firmware interface keeps the driver and the DSP in    *)
(* step, for any depth of the FIFOs, any number of calls and any pace of   *)
(* the two sides, as long as no wait times out.                            *)
(***************************************************************************)
EXTENDS DspHandshake, SequenceTheorems, TLAPS

-----------------------------------------------------------------------------
(* What it is for a script of the driver and the operations of the DSP to  *)
(* agree: seen when the FIFOs are empty, one exchange after the other.     *)

IsSeq(s) == \E S : s \in Seq(S)

Reading == {"expect", "read", "skip", "note", "count", "drain"}

\* Commands that are no calls.
Special == {"none", "BRDHRDRST", "BRDFWDNLD", "PCI_LOAD", "PCI_EXEC"}

\* What the DSP takes one word at a time, and goes on with afterwards.
Takeable == {"word", "counted", "list", "samples"}

Taken(what, w) ==
  CASE what = "counted" -> {Follow(w, "word")}
    [] what = "list"    ->
         {CASE w = AIBM_GET -> Times(2, Reply(Values))
            [] w = AIBM_SET -> Follow(Block, "word")
            [] OTHER        -> Follow(w, "word")}
    [] what = "samples" -> {Times(n, Reply(Values)) \o Reply({ErrRet}) : n \in 0 .. Block}
    [] OTHER            -> {<<>>}

\* The word w is one the script s goes on with.
Accepts(s, w) ==
  /\ Head(s).op \in Reading
  /\ Head(s).op = "expect" => w = Head(s).arg
  /\ Head(s).op \in {"skip", "note"} => w = 1

Onward(s, w) ==
  CASE Head(s).op = "count" -> After(Head(s).arg, w)
    [] Head(s).op = "drain" -> AfterSample(Head(s).arg, w)
    [] OTHER -> Tail(s)

\* After a command, and perhaps some words, there is something to wait for.
Waits(s) ==
  /\ IsSeq(s)
  /\ \E i \in 1 .. Len(s) : s[i].op \in Reading /\ \A j \in 1 .. i - 1 : s[j].op = "write"

\* Between a command and the answer no other command follows.
Ongoing(s) == s # <<>> /\ Head(s).op \in Reading \cup {"write"}

\* One exchange: the command, a word either way, or the end.  M has what may
\* come after it.
Agrees(s, o, M) ==
  \/ s = <<>> /\ o = <<>>
  \/ /\ s # <<>> /\ Head(s).op = "command" /\ Head(s).arg \notin Special
     /\ o = <<>> /\ Firmware(Head(s).arg) # <<>>
     /\ <<Tail(s), Firmware(Head(s).arg)>> \in M
     /\ Waits(Tail(s))
  \/ /\ s # <<>> /\ Head(s).op = "write" /\ Ongoing(Tail(s))
     /\ o # <<>> /\ Head(o).op = "take" /\ Head(o).arg \in Takeable
     /\ \A q \in Taken(Head(o).arg, Head(s).arg) : <<Tail(s), q \o Tail(o)>> \in M
  \/ /\ s # <<>> /\ Head(s).op \in Reading
     /\ o # <<>> /\ Head(o).op = "reply"
     /\ \A w \in Head(o).arg : Accepts(s, w) /\ <<Onward(s, w), <<>> \o Tail(o)>> \in M

Closed(M) == \A s, o : <<s, o>> \in M => Agrees(s, o, M)

Session(s, o) == \E M : Closed(M) /\ <<s, o>> \in M
-----------------------------------------------------------------------------
(* The same with words under way.                                          *)

\* Whatever the DSP does with the words d on their way to it, it then agrees
\* with s.  f[i] has what it may be about after i of them.
DownAgrees(s, o, d, M) ==
  /\ \E f :
       /\ o \in f[0]
       /\ \A i \in 1 .. Len(d) : \A p \in f[i - 1] :
            /\ p # <<>> /\ Head(p).op = "take" /\ Head(p).arg \in Takeable
            /\ \A q \in Taken(Head(p).arg, d[i].word) : q \o Tail(p) \in f[i]
       /\ f[Len(d)] # {} /\ \A p \in f[Len(d)] : <<s, p>> \in M
  /\ d # <<>> => Ongoing(s)

\* Once the driver has read the words u it agrees with o.  g[i] is what is left
\* of its script after i of them.
UpAgrees(s, o, u, M) ==
  \E g :
    /\ g[0] = s
    /\ \A i \in 1 .. Len(u) :
         g[i - 1] # <<>> /\ Accepts(g[i - 1], u[i].word) /\ g[i] = Onward(g[i - 1], u[i].word)
    /\ <<g[Len(u)], o>> \in M

\* What the DSP has to do, also if it has not taken the command yet.
ToDo == IF HCVR.cmd = "none" THEN work.ops ELSE Firmware(HCVR.cmd)

Talking ==
  \E M : /\ Closed(M)
         /\ \/ up = <<>> /\ DownAgrees(script, ToDo, down, M)
            \/ down = <<>> /\ UpAgrees(script, ToDo, up, M)

\* Without the firmware there will be no answer.
Deaf ==
  /\ up = <<>> /\ work.ops = <<>>
  /\ \/ script # <<>> /\ Session(script, <<>>)
     \/ Waits(script)

OwnWords(d) == \A i \in 1 .. Len(d) : d[i].own = TRUE

Conversing ==
  /\ result = TRUE /\ mixed = FALSE
  /\ OwnWords(down) /\ OwnWords(up)
  /\ HCVR.cmd # "none" =>
       HCVR.own = TRUE /\ work.ops = <<>> /\ HCVR.cmd \notin Special /\ Firmware(HCVR.cmd) # <<>>
  /\ work.ops # <<>> => work.own = TRUE
  /\ IF mode = "firmware" THEN Talking ELSE Deaf

InStepIInv ==
  /\ IsSeq(down) /\ IsSeq(up)
  /\ \E c, own : HCVR = [cmd |-> c, own |-> own]
  /\ \E ops, own : work = [ops |-> ops, own |-> own]
  /\ task \in {"absent", "attached"} => script = <<>>
  /\ task = "attached" /\ ~late => Quiet /\ mixed = FALSE
  /\ task = "calling" /\ ~late => Conversing
-----------------------------------------------------------------------------
(* Sequences of anything.                                                  *)

LEMMA EmptyIsSeq == IsSeq(<<>>) /\ Len(<<>>) = 0
BY EmptySeq DEF IsSeq

LEMMA LongerSeq ==
  ASSUME NEW d, IsSeq(d), NEW e
  PROVE  /\ IsSeq(Append(d, e)) /\ Len(d) \in Nat /\ Len(Append(d, e)) = Len(d) + 1
         /\ Append(d, e) # <<>>
         /\ \A i \in 1 .. Len(d) : Append(d, e)[i] = d[i]
         /\ Append(d, e)[Len(d) + 1] = e
<1>1. PICK S : d \in Seq(S)
  BY DEF IsSeq
<1>2. d \in Seq(S \cup {e})
  BY <1>1, SeqMonotonic
<1> QED
  BY <1>2, AppendProperties, LenProperties DEF IsSeq

LEMMA ShorterSeq ==
  ASSUME NEW d, IsSeq(d), d # <<>>
  PROVE  /\ IsSeq(Tail(d)) /\ Len(d) \in Nat \ {0} /\ Len(Tail(d)) = Len(d) - 1
         /\ Head(d) = d[1] /\ Tail(d) = SubSeq(d, 2, Len(d))
         /\ \A i \in 1 .. Len(d) - 1 : Tail(d)[i] = d[i + 1]
<1>1. PICK S : d \in Seq(S)
  BY DEF IsSeq
<1>2. Len(d) \in Nat \ {0}
  BY <1>1, EmptySeq
<1> QED
  BY <1>1, <1>2, HeadTailProperties, TailIsSubSeq DEF IsSeq

LEMMA OldSeq ==
  ASSUME NEW d, IsSeq(d)
  PROVE  IsSeq(Old(d)) /\ (d = <<>> => Old(d) = <<>>)
<1>1. PICK S : d \in Seq(S)
  BY DEF IsSeq
<1>2. DOMAIN d = 1 .. Len(d) /\ Len(d) \in Nat
  BY <1>1, LenProperties
<1> DEFINE T == {Word(w, FALSE) : w \in {d[i].word : i \in DOMAIN d}}
<1>3. Old(d) \in Seq(T)
  <2>1. Old(d) \in [1 .. Len(d) -> T]
    BY <1>2 DEF Old
  <2> HIDE DEF T
  <2> QED BY <1>2, <2>1
<1>4. d = <<>> => Old(d) = <<>>
  BY DEF Old
<1> QED BY <1>3, <1>4 DEF IsSeq
-----------------------------------------------------------------------------
(* The words under way, step by step.                                      *)

\* With nothing under way to the DSP.
LEMMA DownAtRest ==
  ASSUME NEW s, NEW o, NEW M
  PROVE  DownAgrees(s, o, <<>>, M) <=> <<s, o>> \in M
<1>1. ASSUME DownAgrees(s, o, <<>>, M) PROVE <<s, o>> \in M
  BY <1>1, EmptyIsSeq DEF DownAgrees
<1>2. ASSUME <<s, o>> \in M PROVE DownAgrees(s, o, <<>>, M)
  <2> DEFINE f == [i \in {0} |-> {o}]
  <2>1. f[0] = {o}
    OBVIOUS
  <2> HIDE DEF f
  <2>2. 1 .. Len(<<>>) = {}
    BY EmptyIsSeq
  <2> QED BY <1>2, <2>1, <2>2, EmptyIsSeq DEF DownAgrees
<1> QED BY <1>1, <1>2

\* With nothing under way from it.
LEMMA UpAtRest ==
  ASSUME NEW s, NEW o, NEW M
  PROVE  UpAgrees(s, o, <<>>, M) <=> <<s, o>> \in M
<1>1. ASSUME UpAgrees(s, o, <<>>, M) PROVE <<s, o>> \in M
  BY <1>1, EmptyIsSeq DEF UpAgrees
<1>2. ASSUME <<s, o>> \in M PROVE UpAgrees(s, o, <<>>, M)
  <2> DEFINE g == [i \in {0} |-> s]
  <2>1. g[0] = s
    OBVIOUS
  <2> HIDE DEF g
  <2>2. 1 .. Len(<<>>) = {}
    BY EmptyIsSeq
  <2> QED BY <1>2, <2>1, <2>2, EmptyIsSeq DEF UpAgrees
<1> QED BY <1>1, <1>2

LEMMA TakenSomehow ==
  ASSUME NEW what \in Takeable, NEW w PROVE Taken(what, w) # {}
<1>1. CASE what = "samples"
  <2>1. Times(0, Reply(Values)) \o Reply({ErrRet})
          \in {Times(n, Reply(Values)) \o Reply({ErrRet}) : n \in 0 .. Block}
    BY DEF Block
  <2> QED BY <1>1, <2>1 DEF Taken
<1>2. CASE what # "samples"
  BY <1>2 DEF Takeable, Taken
<1> QED BY <1>1, <1>2

\* The driver writes another word.
LEMMA DownWrites ==
  ASSUME NEW s, NEW o, NEW d, NEW M, Closed(M), IsSeq(d), DownAgrees(s, o, d, M),
         s # <<>>, Head(s).op = "write"
  PROVE  DownAgrees(Tail(s), o, Append(d, Word(Head(s).arg, TRUE)), M)
<1> DEFINE n  == Len(d)
           w  == Head(s).arg
           d1 == Append(d, Word(w, TRUE))
           After1 == {p \in {x[2] : x \in M} : <<Tail(s), p>> \in M}
<1>1. PICK f :
       /\ o \in f[0]
       /\ \A i \in 1 .. n : \A p \in f[i - 1] :
            /\ p # <<>> /\ Head(p).op = "take" /\ Head(p).arg \in Takeable
            /\ \A q \in Taken(Head(p).arg, d[i].word) : q \o Tail(p) \in f[i]
       /\ f[n] # {} /\ \A p \in f[n] : <<s, p>> \in M
  BY DEF DownAgrees
<1>2. /\ n \in Nat /\ Len(d1) = n + 1 /\ \A i \in 1 .. n : d1[i] = d[i]
      /\ d1[n + 1].word = w
  BY LongerSeq DEF Word
<1> DEFINE f1 == [i \in 0 .. n + 1 |-> IF i <= n THEN f[i] ELSE After1]
<1>3. \A i \in 0 .. n : f1[i] = f[i]
  BY <1>2
<1>4. f1[n + 1] = After1
  BY <1>2
<1>5. \A p \in f[n] :
        /\ Ongoing(Tail(s))
        /\ p # <<>> /\ Head(p).op = "take" /\ Head(p).arg \in Takeable
        /\ \A q \in Taken(Head(p).arg, w) : q \o Tail(p) \in After1
  <2> SUFFICES ASSUME NEW p \in f[n]
               PROVE  /\ Ongoing(Tail(s))
                      /\ p # <<>> /\ Head(p).op = "take" /\ Head(p).arg \in Takeable
                      /\ \A q \in Taken(Head(p).arg, w) : q \o Tail(p) \in After1
    OBVIOUS
  <2>1. Agrees(s, p, M)
    BY <1>1 DEF Closed
  <2>2. /\ Ongoing(Tail(s))
        /\ p # <<>> /\ Head(p).op = "take" /\ Head(p).arg \in Takeable
        /\ \A q \in Taken(Head(p).arg, w) : <<Tail(s), q \o Tail(p)>> \in M
    BY <2>1 DEF Agrees, Reading
  <2>3. \A q : <<Tail(s), q>> \in M => q \in After1
    <3> SUFFICES ASSUME NEW q, <<Tail(s), q>> \in M PROVE q \in After1
      OBVIOUS
    <3>1. <<Tail(s), q>>[2] = q
      OBVIOUS
    <3> QED BY <3>1
  <2> QED BY <2>2, <2>3
<1>6. \A p \in After1 : <<Tail(s), p>> \in M
  OBVIOUS
<1>7. Ongoing(Tail(s)) /\ After1 # {}
  BY <1>1, <1>5, TakenSomehow
<1> HIDE DEF After1, f1
<1>8. \A i \in 1 .. n + 1 : \A p \in f1[i - 1] :
        /\ p # <<>> /\ Head(p).op = "take" /\ Head(p).arg \in Takeable
        /\ \A q \in Taken(Head(p).arg, d1[i].word) : q \o Tail(p) \in f1[i]
  <2> SUFFICES ASSUME NEW i \in 1 .. n + 1, NEW p \in f1[i - 1]
               PROVE  /\ p # <<>> /\ Head(p).op = "take" /\ Head(p).arg \in Takeable
                      /\ \A q \in Taken(Head(p).arg, d1[i].word) : q \o Tail(p) \in f1[i]
    OBVIOUS
  <2>1. CASE i = n + 1
    <3>1. p \in f[n]
      BY <1>2, <1>3, <2>1
    <3> QED BY <1>2, <1>4, <1>5, <2>1, <3>1
  <2>2. CASE i \in 1 .. n
    <3>1. p \in f[i - 1] /\ f1[i] = f[i] /\ d1[i] = d[i]
      BY <1>2, <1>3, <2>2
    <3>2. /\ p # <<>> /\ Head(p).op = "take" /\ Head(p).arg \in Takeable
          /\ \A q \in Taken(Head(p).arg, d[i].word) : q \o Tail(p) \in f[i]
      BY <1>1, <2>2, <3>1
    <3> QED BY <3>1, <3>2
  <2>3. i = n + 1 \/ i \in 1 .. n
    BY <1>2
  <2> QED BY <2>1, <2>2, <2>3
<1>9. o \in f1[0]
  BY <1>1, <1>2, <1>3
<1> QED
  BY <1>2, <1>4, <1>6, <1>7, <1>8, <1>9 DEF DownAgrees

\* The DSP takes the first of the words.
LEMMA DownTakes ==
  ASSUME NEW s, NEW o, NEW d, NEW M, IsSeq(d), d # <<>>, DownAgrees(s, o, d, M)
  PROVE  /\ o # <<>> /\ Head(o).op = "take" /\ Head(o).arg \in Takeable
         /\ \A q \in Taken(Head(o).arg, d[1].word) : DownAgrees(s, q \o Tail(o), Tail(d), M)
<1> DEFINE n == Len(d)
<1>1. PICK f :
       /\ o \in f[0]
       /\ \A i \in 1 .. n : \A p \in f[i - 1] :
            /\ p # <<>> /\ Head(p).op = "take" /\ Head(p).arg \in Takeable
            /\ \A q \in Taken(Head(p).arg, d[i].word) : q \o Tail(p) \in f[i]
       /\ f[n] # {} /\ \A p \in f[n] : <<s, p>> \in M
  BY DEF DownAgrees
<1>2. /\ n \in Nat \ {0} /\ Len(Tail(d)) = n - 1
      /\ \A i \in 1 .. n - 1 : Tail(d)[i] = d[i + 1]
  BY ShorterSeq
<1>3. /\ o # <<>> /\ Head(o).op = "take" /\ Head(o).arg \in Takeable
      /\ \A q \in Taken(Head(o).arg, d[1].word) : q \o Tail(o) \in f[1]
  <2>1. 1 \in 1 .. n /\ o \in f[1 - 1]
    BY <1>1, <1>2
  <2> QED BY <1>1, <2>1
<1> DEFINE f1 == [i \in 0 .. n - 1 |-> f[i + 1]]
<1>4. \A i \in 0 .. n - 1 : f1[i] = f[i + 1]
  OBVIOUS
<1> HIDE DEF f1
<1>5. \A i \in 1 .. n - 1 : \A p \in f1[i - 1] :
        /\ p # <<>> /\ Head(p).op = "take" /\ Head(p).arg \in Takeable
        /\ \A q \in Taken(Head(p).arg, Tail(d)[i].word) : q \o Tail(p) \in f1[i]
  <2> SUFFICES ASSUME NEW i \in 1 .. n - 1, NEW p \in f1[i - 1]
               PROVE  /\ p # <<>> /\ Head(p).op = "take" /\ Head(p).arg \in Takeable
                      /\ \A q \in Taken(Head(p).arg, Tail(d)[i].word) : q \o Tail(p) \in f1[i]
    OBVIOUS
  <2>1. i + 1 \in 1 .. n /\ f1[i - 1] = f[(i + 1) - 1] /\ f1[i] = f[i + 1]
    BY <1>2, <1>4
  <2> QED BY <1>1, <1>2, <2>1
<1>6. f1[n - 1] = f[n] /\ f1[0] = f[1]
  BY <1>2, <1>4
<1>7. Ongoing(s)
  BY DEF DownAgrees
<1>8. ASSUME NEW q \in Taken(Head(o).arg, d[1].word) PROVE DownAgrees(s, q \o Tail(o), Tail(d), M)
  <2>1. q \o Tail(o) \in f1[0]
    BY <1>3, <1>6
  <2>2. f1[Len(Tail(d))] # {} /\ \A p \in f1[Len(Tail(d))] : <<s, p>> \in M
    BY <1>1, <1>2, <1>6
  <2> QED BY <1>2, <1>5, <1>7, <2>1, <2>2 DEF DownAgrees
<1> QED BY <1>3, <1>8

\* The driver reads the first of the words.
LEMMA UpReads ==
  ASSUME NEW s, NEW o, NEW u, NEW M, IsSeq(u), u # <<>>, UpAgrees(s, o, u, M)
  PROVE  /\ s # <<>> /\ Accepts(s, Head(u).word)
         /\ UpAgrees(Onward(s, Head(u).word), o, Tail(u), M)
<1> DEFINE n == Len(u)
<1>1. PICK g :
        /\ g[0] = s
        /\ \A i \in 1 .. n :
             g[i - 1] # <<>> /\ Accepts(g[i - 1], u[i].word) /\ g[i] = Onward(g[i - 1], u[i].word)
        /\ <<g[n], o>> \in M
  BY DEF UpAgrees
<1>2. /\ n \in Nat \ {0} /\ Len(Tail(u)) = n - 1 /\ Head(u) = u[1]
      /\ \A i \in 1 .. n - 1 : Tail(u)[i] = u[i + 1]
  BY ShorterSeq
<1>3. s # <<>> /\ Accepts(s, Head(u).word) /\ g[1] = Onward(s, Head(u).word)
  <2>1. 1 \in 1 .. n /\ g[1 - 1] = s
    BY <1>1, <1>2
  <2> QED BY <1>1, <1>2, <2>1
<1> DEFINE g1 == [i \in 0 .. n - 1 |-> g[i + 1]]
<1>4. \A i \in 0 .. n - 1 : g1[i] = g[i + 1]
  OBVIOUS
<1> HIDE DEF g1
<1>5. \A i \in 1 .. n - 1 :
        /\ g1[i - 1] # <<>> /\ Accepts(g1[i - 1], Tail(u)[i].word)
        /\ g1[i] = Onward(g1[i - 1], Tail(u)[i].word)
  <2> SUFFICES ASSUME NEW i \in 1 .. n - 1
               PROVE  /\ g1[i - 1] # <<>> /\ Accepts(g1[i - 1], Tail(u)[i].word)
                      /\ g1[i] = Onward(g1[i - 1], Tail(u)[i].word)
    OBVIOUS
  <2>1. i + 1 \in 1 .. n /\ g1[i - 1] = g[(i + 1) - 1] /\ g1[i] = g[i + 1]
    BY <1>2, <1>4
  <2> QED BY <1>1, <1>2, <2>1
<1>6. g1[n - 1] = g[n] /\ g1[0] = g[1]
  BY <1>2, <1>4
<1> QED
  BY <1>1, <1>2, <1>3, <1>5, <1>6 DEF UpAgrees

\* The DSP answers.
LEMMA UpReplies ==
  ASSUME NEW s, NEW o, NEW u, NEW M, IsSeq(u), Closed(M), UpAgrees(s, o, u, M),
         o # <<>>, Head(o).op = "reply", NEW w \in Head(o).arg, NEW own
  PROVE  UpAgrees(s, <<>> \o Tail(o), Append(u, Word(w, own)), M)
<1> DEFINE n  == Len(u)
           u1 == Append(u, Word(w, own))
<1>1. PICK g :
        /\ g[0] = s
        /\ \A i \in 1 .. n :
             g[i - 1] # <<>> /\ Accepts(g[i - 1], u[i].word) /\ g[i] = Onward(g[i - 1], u[i].word)
        /\ <<g[n], o>> \in M
  BY DEF UpAgrees
<1>2. /\ n \in Nat /\ Len(u1) = n + 1 /\ \A i \in 1 .. n : u1[i] = u[i]
      /\ u1[n + 1].word = w
  BY LongerSeq DEF Word
<1>3. /\ g[n] # <<>> /\ Accepts(g[n], w) /\ <<Onward(g[n], w), <<>> \o Tail(o)>> \in M
  BY <1>1 DEF Closed, Agrees
<1> DEFINE g1 == [i \in 0 .. n + 1 |-> IF i <= n THEN g[i] ELSE Onward(g[n], w)]
<1>4. (\A i \in 0 .. n : g1[i] = g[i]) /\ g1[n + 1] = Onward(g[n], w)
  BY <1>2
<1> HIDE DEF g1
<1>5. \A i \in 1 .. n + 1 :
        /\ g1[i - 1] # <<>> /\ Accepts(g1[i - 1], u1[i].word)
        /\ g1[i] = Onward(g1[i - 1], u1[i].word)
  <2> SUFFICES ASSUME NEW i \in 1 .. n + 1
               PROVE  /\ g1[i - 1] # <<>> /\ Accepts(g1[i - 1], u1[i].word)
                      /\ g1[i] = Onward(g1[i - 1], u1[i].word)
    OBVIOUS
  <2>1. CASE i = n + 1
    <3>1. g1[i - 1] = g[n]
      BY <1>2, <1>4, <2>1
    <3> QED BY <1>2, <1>3, <1>4, <2>1, <3>1
  <2>2. CASE i \in 1 .. n
    <3>1. g1[i - 1] = g[i - 1] /\ g1[i] = g[i]
      BY <1>2, <1>4, <2>2
    <3> QED BY <1>1, <1>2, <2>2, <3>1
  <2> QED BY <1>2, <2>1, <2>2
<1>6. g1[0] = s
  BY <1>1, <1>2, <1>4
<1> QED
  BY <1>2, <1>3, <1>4, <1>5, <1>6 DEF UpAgrees
-----------------------------------------------------------------------------
(* The steps of the two sides during a call.                               *)

TalkingOf(M) ==
  /\ Closed(M)
  /\ \/ up = <<>> /\ DownAgrees(script, ToDo, down, M)
     \/ down = <<>> /\ UpAgrees(script, ToDo, up, M)

\* When the driver is about to return, or to give a command, nothing is under way.
LEMMA NothingUnderWay ==
  ASSUME InStepIInv, NEW M, TalkingOf(M), ~Ongoing(script)
  PROVE  up = <<>> /\ down = <<>> /\ <<script, ToDo>> \in M
<1>1. CASE up = <<>> /\ DownAgrees(script, ToDo, down, M)
  BY <1>1, DownAtRest DEF DownAgrees
<1>2. CASE down = <<>> /\ UpAgrees(script, ToDo, up, M)
  <2>1. up = <<>>
    BY <1>2, UpReads DEF InStepIInv, Accepts, Ongoing
  <2> QED BY <1>2, <2>1, UpAtRest
<1> QED BY <1>1, <1>2 DEF TalkingOf

\* Only the accesses that calls are made of come up.
LEMMA OrdinaryAccess ==
  ASSUME InStepIInv, Conversing, script # <<>>
  PROVE  Head(script).op \in Reading \cup {"command", "write"}
<1>1. CASE mode = "firmware"
  <2>1. PICK M : TalkingOf(M)
    BY <1>1 DEF Conversing, Talking, TalkingOf
  <2>2. CASE Ongoing(script)
    BY <2>2 DEF Ongoing
  <2>3. CASE ~Ongoing(script)
    <3>1. Agrees(script, ToDo, M)
      BY <2>1, <2>3, NothingUnderWay DEF TalkingOf, Closed
    <3> QED BY <3>1 DEF Agrees
  <2> QED BY <2>2, <2>3
<1>2. CASE mode # "firmware"
  <2>1. CASE Session(script, <<>>)
    BY <2>1 DEF Session, Closed, Agrees
  <2>2. CASE Waits(script)
    BY <2>2, ShorterSeq DEF Waits
  <2> QED BY <1>2, <2>1, <2>2 DEF Conversing, Deaf
<1> QED BY <1>1, <1>2

LEMMA OwnTail ==
  ASSUME NEW d, IsSeq(d), d # <<>>, OwnWords(d)
  PROVE  OwnWords(Tail(d)) /\ d[1].own = TRUE /\ Head(d) = d[1]
<1>1. /\ Len(d) \in Nat \ {0} /\ Len(Tail(d)) = Len(d) - 1 /\ Head(d) = d[1]
      /\ \A i \in 1 .. Len(d) - 1 : Tail(d)[i] = d[i + 1]
  BY ShorterSeq
<1>2. 1 \in 1 .. Len(d) /\ \A i \in 1 .. Len(d) - 1 : i + 1 \in 1 .. Len(d)
  BY <1>1
<1> QED BY <1>1, <1>2 DEF OwnWords

LEMMA CommandKeepsStep ==
  ASSUME InStepIInv, Conversing, PutCommand PROVE Conversing'
<1> USE DEF PutCommand, Next1, Arg, GoOn, dsp
<1>1. CASE mode = "firmware"
  <2>1. PICK M : TalkingOf(M)
    BY <1>1 DEF Conversing, Talking, TalkingOf
  <2>2. up = <<>> /\ down = <<>> /\ <<script, ToDo>> \in M /\ Closed(M)
    BY <2>1, NothingUnderWay DEF Ongoing, Reading, TalkingOf
  <2>3. Agrees(script, ToDo, M)
    BY <2>2 DEF Closed
  <2>4. /\ Head(script).arg \notin Special /\ ToDo = <<>> /\ Firmware(Head(script).arg) # <<>>
        /\ <<Tail(script), Firmware(Head(script).arg)>> \in M
    BY <2>3 DEF Agrees, Reading
  <2>5. work.ops = <<>> /\ work' = work
    BY <2>4 DEF ToDo, Conversing
  <2>6. ToDo' = Firmware(Head(script).arg)
    BY <2>4 DEF ToDo, Special
  <2>7. Talking'
    BY <2>2, <2>4, <2>6, DownAtRest DEF Talking
  <2> QED BY <1>1, <2>4, <2>5, <2>7 DEF Conversing
<1>2. CASE mode # "firmware"
  <2>1. ~Waits(script)
    BY ShorterSeq DEF Waits, Reading
  <2>2. PICK M : Closed(M) /\ <<script, <<>> >> \in M
    BY <1>2, <2>1 DEF Conversing, Deaf, Session
  <2>3. Agrees(script, <<>>, M)
    BY <2>2 DEF Closed
  <2>4. Head(script).arg \notin Special /\ Firmware(Head(script).arg) # <<>> /\ Waits(Tail(script))
    BY <2>3 DEF Agrees, Reading
  <2>5. work.ops = <<>> /\ work' = work /\ up' = <<>>
    BY <1>2 DEF Conversing, Deaf
  <2> QED BY <1>2, <2>4, <2>5 DEF Conversing, Deaf
<1> QED BY <1>1, <1>2

LEMMA WordKeepsStep ==
  ASSUME InStepIInv, Conversing, PutWord, ~late' PROVE Conversing'
<1> USE DEF PutWord, Next1, Arg, GoOn, dsp
<1>1. down' = Append(down, Word(Head(script).arg, TRUE)) /\ OwnWords(down')
  <2>1. down' = Append(down, Word(Head(script).arg, TRUE))
    OBVIOUS
  <2>2. \A i \in 1 .. Len(down') : i \in 1 .. Len(down) \/ i = Len(down) + 1
    BY <2>1, LongerSeq DEF InStepIInv
  <2> QED BY <2>1, <2>2, LongerSeq DEF InStepIInv, Conversing, OwnWords, Word
<1>2. CASE mode = "firmware"
  <2>1. PICK M : TalkingOf(M)
    BY <1>2 DEF Conversing, Talking, TalkingOf
  <2>2. up = <<>> /\ DownAgrees(script, ToDo, down, M)
    <3>1. CASE down = <<>> /\ UpAgrees(script, ToDo, up, M)
      <4>1. up = <<>>
        BY <3>1, UpReads DEF InStepIInv, Accepts, Reading
      <4> QED BY <3>1, <4>1, UpAtRest, DownAtRest
    <3> QED BY <2>1, <3>1 DEF TalkingOf
  <2>3. DownAgrees(Tail(script), ToDo, Append(down, Word(Head(script).arg, TRUE)), M)
    BY <2>1, <2>2, DownWrites DEF TalkingOf, InStepIInv
  <2>4. ToDo' = ToDo
    BY DEF ToDo
  <2>5. Talking'
    BY <1>1, <2>1, <2>2, <2>3, <2>4 DEF Talking, TalkingOf
  <2> QED BY <1>1, <1>2, <2>5 DEF Conversing
<1>3. CASE mode # "firmware"
  <2>1. Waits(script)
    BY <1>3 DEF Conversing, Deaf, Session, Closed, Agrees, Reading
  <2>2. Waits(Tail(script))
    <3>1. PICK i \in 1 .. Len(script) :
            script[i].op \in Reading /\ \A j \in 1 .. i - 1 : script[j].op = "write"
      BY <2>1 DEF Waits
    <3>2. /\ IsSeq(Tail(script)) /\ Len(script) \in Nat /\ Len(Tail(script)) = Len(script) - 1
          /\ Head(script) = script[1] /\ \A k \in 1 .. Len(script) - 1 : Tail(script)[k] = script[k + 1]
      BY <2>1, ShorterSeq DEF Waits
    <3>3. i # 1
      BY <3>1, <3>2 DEF Reading
    <3>4. /\ i - 1 \in 1 .. Len(Tail(script)) /\ Tail(script)[i - 1] = script[i]
          /\ \A j \in 1 .. (i - 1) - 1 : Tail(script)[j] = script[j + 1] /\ j + 1 \in 1 .. i - 1
      BY <3>2, <3>3
    <3> QED BY <3>1, <3>2, <3>4 DEF Waits
  <2> QED BY <1>1, <1>3, <2>2 DEF Conversing, Deaf
<1> QED BY <1>2, <1>3

LEMMA AnswerKeepsStep ==
  ASSUME InStepIInv, Conversing, GetWord, ~late' PROVE Conversing'
<1> USE DEF GetWord, dsp
<1>1. up # <<>> /\ Takes(Head(up).word) /\ up' = Tail(up)
  OBVIOUS
<1>2. mixed' = FALSE /\ OwnWords(up')
  <2>1. Head(up).own = TRUE /\ OwnWords(Tail(up))
    BY <1>1, OwnTail DEF InStepIInv, Conversing
  <2> QED BY <1>1, <2>1 DEF Conversing
<1>3. mode = "firmware"
  BY <1>1 DEF Conversing, Deaf
<1>4. PICK M : TalkingOf(M)
  BY <1>3 DEF Conversing, Talking, TalkingOf
<1>5. down = <<>> /\ UpAgrees(script, ToDo, up, M)
  BY <1>1, <1>4 DEF TalkingOf
<1>6. /\ script # <<>> /\ Accepts(script, Head(up).word)
      /\ UpAgrees(Onward(script, Head(up).word), ToDo, Tail(up), M)
  BY <1>1, <1>5, UpReads DEF InStepIInv
<1>7. script' = Onward(script, Head(up).word) /\ result' = result
  BY <1>1, <1>6 DEF Takes, Next1, Arg, GoOn, Accepts, Onward, Reading
<1>8. ToDo' = ToDo
  BY DEF ToDo
<1>9. Talking'
  BY <1>1, <1>4, <1>5, <1>6, <1>7, <1>8 DEF Talking, TalkingOf
<1> QED BY <1>2, <1>3, <1>7, <1>9 DEF Conversing

\* A call that comes to its end has left nothing behind.
LEMMA EndIsQuiet ==
  ASSUME InStepIInv, Conversing, script = <<>> PROVE Quiet
<1>1. mode = "firmware"
  BY EmptyIsSeq DEF Conversing, Deaf, Waits
<1>2. PICK M : TalkingOf(M)
  BY <1>1 DEF Conversing, Talking, TalkingOf
<1>3. up = <<>> /\ down = <<>> /\ <<script, ToDo>> \in M
  BY <1>2, NothingUnderWay DEF Ongoing
<1>4. Agrees(script, ToDo, M)
  BY <1>2, <1>3 DEF TalkingOf, Closed
<1>5. ToDo = <<>>
  BY <1>4 DEF Agrees
<1> QED BY <1>3, <1>5 DEF Quiet, ToDo, Conversing

LEMMA DspKeepsStep ==
  ASSUME InStepIInv, Conversing, Dsp PROVE Conversing'
<1>1. CASE DspTakesCommand
  <2> USE <1>1 DEF DspTakesCommand, host, NoCommand
  <2>1. HCVR.own = TRUE /\ HCVR.cmd \notin Special
    BY DEF Conversing
  <2>2. work'.ops = Understood(HCVR.cmd) /\ work'.own = TRUE /\ HCVR'.cmd = "none"
    BY <2>1
  <2>3. CASE mode = "firmware"
    <3>1. Understood(HCVR.cmd) = Firmware(HCVR.cmd)
      BY <2>1, <2>3 DEF Understood, Special
    <3>2. ToDo' = ToDo
      BY <2>2, <3>1 DEF ToDo
    <3>3. Talking'
      BY <2>3, <3>2 DEF Conversing, Talking
    <3> QED BY <2>2, <2>3, <3>3 DEF Conversing
  <2>4. CASE mode # "firmware"
    <3>1. Understood(HCVR.cmd) = <<>>
      BY <2>1, <2>4 DEF Understood, Special
    <3> QED BY <2>2, <2>4, <3>1 DEF Conversing, Deaf
  <2> QED BY <2>3, <2>4
<1>2. CASE DspReplies
  <2> USE <1>2 DEF DspReplies, Doing, Then, host
  <2>1. /\ work.ops # <<>> /\ Head(work.ops).op = "reply" /\ work.own = TRUE /\ HCVR.cmd = "none"
        /\ mode = "firmware"
    BY DEF Conversing, Deaf
  <2>2. PICK M : TalkingOf(M)
    BY <2>1 DEF Conversing, Talking, TalkingOf
  <2>3. ToDo = work.ops
    BY <2>1 DEF ToDo
  <2>4. down = <<>> /\ UpAgrees(script, ToDo, up, M)
    <3>1. CASE up = <<>> /\ DownAgrees(script, ToDo, down, M)
      <4>1. down = <<>>
        BY <2>1, <2>3, <3>1, DownTakes DEF InStepIInv
      <4> QED BY <3>1, <4>1, UpAtRest, DownAtRest
    <3> QED BY <2>2, <3>1 DEF TalkingOf
  <2>5. PICK w \in Head(work.ops).arg : up' = Append(up, Word(w, work.own))
    OBVIOUS
  <2>6. UpAgrees(script, <<>> \o Tail(ToDo), up', M)
    BY <2>1, <2>2, <2>3, <2>4, <2>5, UpReplies DEF TalkingOf, InStepIInv
  <2>7. ToDo' = <<>> \o Tail(ToDo) /\ work'.own = TRUE
    BY <2>1, <2>3 DEF ToDo, InStepIInv
  <2>8. OwnWords(up')
    <3>1. \A i \in 1 .. Len(up') : i \in 1 .. Len(up) \/ i = Len(up) + 1
      BY <2>5, LongerSeq DEF InStepIInv
    <3> QED BY <2>1, <2>5, <3>1, LongerSeq DEF InStepIInv, Conversing, OwnWords, Word
  <2>9. Talking'
    BY <2>2, <2>4, <2>6, <2>7 DEF Talking, TalkingOf
  <2> QED BY <2>1, <2>7, <2>8, <2>9 DEF Conversing
<1>3. CASE DspTakesWord \/ DspStores
  <2>1. /\ work.ops # <<>> /\ Head(work.ops).op \in {"take", "store"} /\ work.own = TRUE
        /\ HCVR.cmd = "none" /\ mode = "firmware"
    BY <1>3 DEF DspTakesWord, DspStores, Doing, Conversing, Deaf
  <2>2. down # <<>>
    BY <1>3, EmptyIsSeq DEF DspTakesWord, DspStores, Needs
  <2>3. PICK M : TalkingOf(M)
    BY <2>1 DEF Conversing, Talking, TalkingOf
  <2>4. up = <<>> /\ DownAgrees(script, ToDo, down, M) /\ ToDo = work.ops
    BY <2>1, <2>2, <2>3 DEF TalkingOf, ToDo
  <2>5. /\ Head(work.ops).op = "take" /\ Head(work.ops).arg \in Takeable
        /\ \A q \in Taken(Head(work.ops).arg, down[1].word) :
             DownAgrees(script, q \o Tail(work.ops), Tail(down), M)
    BY <2>2, <2>4, DownTakes DEF InStepIInv
  <2>6. DspTakesWord
    BY <1>3, <2>5 DEF DspStores, Doing
  <2> USE <2>6 DEF DspTakesWord, host
  <2>7. Needs = 1
    BY <2>5 DEF Needs, Takeable
  <2>8. down' = Tail(down) /\ IsSeq(Tail(down)) /\ OwnWords(down')
    <3>1. down' = Tail(down)
      BY <2>2, <2>7, ShorterSeq DEF InStepIInv
    <3> QED BY <2>2, <3>1, ShorterSeq, OwnTail DEF InStepIInv, Conversing
  <2>9. mixed' = FALSE
    <3>1. down[1].own = TRUE
      BY <2>2, OwnTail DEF InStepIInv, Conversing
    <3> QED BY <2>1, <3>1 DEF Conversing
  <2>10. \E q \in Taken(Head(work.ops).arg, down[1].word) : Then(q)
    BY <2>5 DEF Taken, Takeable
  <2>11. PICK q \in Taken(Head(work.ops).arg, down[1].word) : Then(q)
    BY <2>10
  <2>12. work'.ops = q \o Tail(work.ops) /\ work'.own = TRUE
    BY <2>1, <2>11 DEF Then, InStepIInv
  <2>13. ToDo' = q \o Tail(work.ops)
    BY <2>1, <2>12 DEF ToDo
  <2>14. Talking'
    BY <2>3, <2>4, <2>5, <2>8, <2>11, <2>13 DEF Talking, TalkingOf
  <2> QED BY <2>1, <2>8, <2>9, <2>12, <2>14 DEF Conversing
<1>4. ~DspRuns
  <2> SUFFICES ASSUME DspRuns PROVE FALSE
    OBVIOUS
  <2>1. /\ work.ops # <<>> /\ Head(work.ops).op \in {"loaded", "run"}
        /\ HCVR.cmd = "none" /\ mode = "firmware"
    BY DEF DspRuns, Doing, Conversing, Deaf
  <2>2. PICK M : TalkingOf(M)
    BY <2>1 DEF Conversing, Talking, TalkingOf
  <2>3. ToDo = work.ops
    BY <2>1 DEF ToDo
  <2>4. down = <<>>
    BY <2>1, <2>2, <2>3, DownTakes DEF TalkingOf, InStepIInv
  <2>5. UpAgrees(script, ToDo, up, M)
    BY <2>2, <2>4, UpAtRest, DownAtRest DEF TalkingOf
  <2>6. \E s : Agrees(s, ToDo, M)
    BY <2>2, <2>5 DEF UpAgrees, Closed, TalkingOf
  <2> QED BY <2>1, <2>3, <2>6 DEF Agrees
<1>5. ~DspResets
  BY DEF DspResets, Conversing, Special
<1> QED BY <1>1, <1>2, <1>3, <1>4, <1>5 DEF Dsp
-----------------------------------------------------------------------------
(* The invariant.                                                          *)

\* The FIFOs stay sequences, and nobody but the driver has a script.
Shapes ==
  /\ IsSeq(down) /\ IsSeq(up)
  /\ \E c, own : HCVR = [cmd |-> c, own |-> own]
  /\ \E ops, own : work = [ops |-> ops, own |-> own]
  /\ task \in {"absent", "attached"} => script = <<>>

LEMMA ShapesStep ==
  ASSUME Shapes, [Next]_vars PROVE Shapes'
<1> USE DEF Shapes
<1>1. ASSUME NEW t \in {"starting", "calling", "leaving"}, NEW s, Begin(t, s) PROVE Shapes'
  BY <1>1, OldSeq DEF Begin
<1>2. CASE Start \/ Unload \/ \E n \in DOMAIN AllCalls : Call(AllCalls[n])
  BY <1>1, <1>2 DEF Start, Unload, Call
<1>3. CASE PutCommand \/ PutFlags \/ GetFlags
  BY <1>3 DEF PutCommand, PutFlags, GetFlags, Next1, dsp
<1>4. CASE PutWord
  BY <1>4, LongerSeq DEF PutWord, Next1, dsp
<1>5. CASE GetWord
  BY <1>5, ShorterSeq DEF GetWord, Next1, dsp
<1>6. CASE Return
  BY <1>6 DEF Return, dsp
<1>7. CASE DspTakesCommand
  BY <1>7 DEF DspTakesCommand, host, NoCommand
<1>8. CASE DspReplies
  BY <1>8, LongerSeq DEF DspReplies, Then, host
<1>9. CASE DspTakesWord
  <2>1. IsSeq(SubSeq(down, Needs + 1, Len(down)))
    <3>1. PICK S : down \in Seq(S)
      BY DEF Shapes, IsSeq
    <3>2. Len(down) \in Nat /\ Needs + 1 \in 1 .. 3
      BY <3>1, LenProperties DEF Needs
    <3>3. \A i \in Needs + 1 .. Len(down) : down[i] \in S
      BY <3>1, <3>2, ElementOfSeq
    <3> DEFINE m == Needs + 1
    <3>4. m \in Int /\ Len(down) \in Int
      BY <3>2
    <3> HIDE DEF m
    <3>5. SubSeq(down, m, Len(down)) \in Seq(S)
      BY <3>3, <3>4, SubSeqProperties DEF m
    <3> QED BY <3>5 DEF IsSeq, m
  <2>2. \E q : Then(q)
    <3> DEFINE what == Head(work.ops).arg
               w    == down[1].word
    <3>1. CASE what \in {"segment", "loader", "start", "echo", "counted", "list", "samples"}
      BY <1>9, <3>1 DEF DspTakesWord
    <3>2. CASE what \notin {"segment", "loader", "start", "echo", "counted", "list", "samples"}
      BY <1>9, <3>2 DEF DspTakesWord
    <3> QED BY <3>1, <3>2
  <2>3. \E ops, own : work' = [ops |-> ops, own |-> own]
    BY <2>2 DEF Then
  <2> QED BY <1>9, <2>1, <2>3 DEF DspTakesWord, host
<1>10. CASE DspStores
  BY <1>10, ShorterSeq DEF DspStores, Then, host
<1>11. CASE DspRuns
  BY <1>11 DEF DspRuns, Then, host
<1>12. CASE DspResets
  BY <1>12, EmptyIsSeq DEF DspResets, NoCommand, NoWork, host
<1>13. CASE UNCHANGED vars
  BY <1>13 DEF vars, host, dsp
<1> QED
  BY <1>2, <1>3, <1>4, <1>5, <1>6, <1>7, <1>8, <1>9, <1>10, <1>11, <1>12, <1>13 DEF Next, Driver, Dsp

\* A call begins in agreement with the DSP, or before a DSP without the firmware.
LEMMA CallBegins ==
  ASSUME InStepIInv, ~late, NEW s, s # <<>>, Session(s, <<>>), Call(s) PROVE Conversing'
<1> USE DEF Call, Begin
<1>1. Quiet /\ mixed = FALSE
  BY DEF InStepIInv
<1>2. down' = <<>> /\ up' = <<>> /\ HCVR'.cmd = "none" /\ work'.ops = <<>> /\ script' = s
  BY <1>1, OldSeq, EmptyIsSeq DEF Quiet, InStepIInv
<1>3. ToDo' = <<>>
  BY <1>2 DEF ToDo
<1>4. PICK M : Closed(M) /\ <<s, <<>> >> \in M
  BY DEF Session
<1>5. DownAgrees(s, <<>>, <<>>, M)
  BY <1>4, DownAtRest
<1>6. Talking'
  BY <1>2, <1>3, <1>4, <1>5 DEF Talking
<1>7. Deaf'
  BY <1>2 DEF Deaf
<1>8. OwnWords(<<>>)
  BY EmptyIsSeq DEF OwnWords
<1> QED BY <1>1, <1>2, <1>6, <1>7, <1>8 DEF Conversing

\* An accepted start.
Accepted == task = "starting" /\ task' = "attached"

\* Only the beginning and the end of a call change the task; late stays set
\* during it.
LEMMA TaskChanges ==
  ASSUME [Next]_vars
  PROVE  /\ task' # task => Start \/ Unload \/ Return \/ \E n \in DOMAIN AllCalls : Call(AllCalls[n])
         /\ task # "starting" => late' = late \/ late' = TRUE
<1>1. CASE PutCommand \/ PutWord \/ GetWord \/ PutFlags \/ GetFlags
  BY <1>1 DEF PutCommand, PutWord, GetWord, PutFlags, GetFlags, Next1
<1>2. CASE Dsp
  BY <1>2 DEF Dsp, DspTakesCommand, DspReplies, DspTakesWord, DspStores, DspRuns, DspResets, host
<1>3. CASE Start \/ Unload \/ Return \/ \E n \in DOMAIN AllCalls : Call(AllCalls[n])
  BY <1>3 DEF Start, Unload, Return, Call, Begin
<1> QED BY <1>1, <1>2, <1>3 DEF Next, Driver, vars, host

LEMMA InStepStep ==
  ASSUME InStepIInv, [Next]_vars, Accepted => Quiet',
         \A n \in DOMAIN AllCalls : AllCalls[n] # <<>> /\ Session(AllCalls[n], <<>>)
  PROVE  InStepIInv'
<1>0. Shapes /\ Shapes'
  BY ShapesStep DEF InStepIInv, Shapes
<1>1. ASSUME task' = "attached", ~late' PROVE Quiet' /\ mixed' = FALSE
  <2>1. CASE task = "starting"
    <3>1. Return
      BY <1>1, <2>1, TaskChanges DEF Start, Unload, Call, Begin
    <3> QED BY <1>1, <2>1, <3>1 DEF Return, Accepted
  <2>2. CASE task = "calling"
    <3>1. Return
      BY <1>1, <2>2, TaskChanges DEF Start, Unload, Call, Begin
    <3>2. Conversing /\ script = <<>>
      BY <1>1, <2>2, <3>1 DEF Return, InStepIInv
    <3>3. Quiet /\ mixed = FALSE
      BY <3>2, EndIsQuiet DEF Conversing
    <3> QED BY <2>2, <3>1, <3>3 DEF Return, Quiet, dsp
  <2>3. CASE task = "attached"
    <3>1. script = <<>>
      BY <2>3 DEF InStepIInv
    <3>2. Quiet /\ mixed = FALSE
      BY <1>1, <2>3, TaskChanges DEF InStepIInv
    <3>3. ~Dsp
      BY <3>2 DEF Quiet, Dsp, DspTakesCommand, DspReplies, DspTakesWord, DspStores, DspRuns,
                  DspResets, Doing
    <3>4. ~Driver
      BY <2>3, <3>1 DEF Driver, PutCommand, PutWord, GetWord, PutFlags, GetFlags, Return, Next1
    <3>5. UNCHANGED vars
      BY <1>1, <2>3, <3>3, <3>4 DEF Next, Start, Unload, Call, Begin
    <3> QED BY <3>2, <3>5 DEF Quiet, vars, dsp, host
  <2>4. CASE task \notin {"starting", "calling", "attached"}
    BY <1>1, <2>4, TaskChanges DEF Start, Unload, Call, Begin, Return
  <2> QED BY <2>1, <2>2, <2>3, <2>4
<1>2. ASSUME task' = "calling", ~late' PROVE Conversing'
  <2>1. CASE task = "calling"
    <3>1. Conversing
      BY <1>2, <2>1, TaskChanges DEF InStepIInv
    <3>2. CASE Dsp
      BY <3>1, <3>2, DspKeepsStep
    <3>3. CASE PutCommand \/ PutWord \/ GetWord
      BY <1>2, <3>1, <3>3, CommandKeepsStep, WordKeepsStep, AnswerKeepsStep
    <3>4. ~PutFlags /\ ~GetFlags
      BY <3>1, OrdinaryAccess DEF PutFlags, GetFlags, Next1, Reading
    <3>5. CASE UNCHANGED vars
      BY <3>1, <3>5 DEF vars, host, dsp, Conversing, Talking, Deaf, ToDo
    <3> QED
      BY <1>2, <2>1, <3>2, <3>3, <3>4, <3>5 DEF Next, Driver, Return, Start, Unload, Call, Begin
  <2>2. CASE task # "calling"
    <3>1. PICK n \in DOMAIN AllCalls : Call(AllCalls[n])
      BY <1>2, <2>2, TaskChanges DEF Start, Unload, Return, Begin
    <3>2. ~late
      BY <1>2, <3>1 DEF Call, Begin
    <3> QED BY <3>1, <3>2, CallBegins
  <2> QED BY <2>1, <2>2
<1> QED BY <1>0, <1>1, <1>2 DEF InStepIInv, Shapes
-----------------------------------------------------------------------------
(* How sessions are put together.                                          *)

LEMMA OneIsSeq == \A x : IsSeq(<<x>>) /\ Len(<<x>>) = 1 /\ <<x>>[1] = x
<1> SUFFICES ASSUME NEW x PROVE IsSeq(<<x>>) /\ Len(<<x>>) = 1 /\ <<x>>[1] = x
  OBVIOUS
<1>1. <<x>> \in Seq({x})
  OBVIOUS
<1> QED BY <1>1 DEF IsSeq

LEMMA CommonSet ==
  ASSUME NEW a, NEW b, IsSeq(a), IsSeq(b) PROVE \E S : a \in Seq(S) /\ b \in Seq(S)
<1>1. PICK A : a \in Seq(A)
  BY DEF IsSeq
<1>2. PICK B : b \in Seq(B)
  BY DEF IsSeq
<1>3. a \in Seq(A \cup B) /\ b \in Seq(A \cup B)
  BY <1>1, <1>2, SeqMonotonic
<1> QED BY <1>3

LEMMA ConcatIsSeq ==
  \A a, b : IsSeq(a) /\ IsSeq(b) => IsSeq(a \o b)
<1> SUFFICES ASSUME NEW a, NEW b, IsSeq(a), IsSeq(b) PROVE IsSeq(a \o b)
  OBVIOUS
<1>1. PICK S : a \in Seq(S) /\ b \in Seq(S)
  BY CommonSet
<1> QED BY <1>1, ConcatProperties DEF IsSeq

LEMMA ConcatAnywhere ==
  ASSUME NEW a, NEW b, NEW c, IsSeq(a), IsSeq(b), IsSeq(c)
  PROVE  (a \o b) \o c = a \o (b \o c)
<1>1. PICK S : a \in Seq(S) /\ b \in Seq(S)
  BY CommonSet
<1>2. PICK T : c \in Seq(T)
  BY DEF IsSeq
<1>3. a \in Seq(S \cup T) /\ b \in Seq(S \cup T) /\ c \in Seq(S \cup T)
  BY <1>1, <1>2, SeqMonotonic
<1> QED BY <1>3, ConcatAssociative

LEMMA ConcatNothing == \A a : IsSeq(a) => a \o <<>> = a /\ <<>> \o a = a
<1> SUFFICES ASSUME NEW a, IsSeq(a) PROVE a \o <<>> = a /\ <<>> \o a = a
  OBVIOUS
<1>1. PICK S : a \in Seq(S)
  BY DEF IsSeq
<1> QED BY <1>1, ConcatEmptySeq

LEMMA FirstAndRest ==
  \A x, t : IsSeq(t) =>
    /\ IsSeq(<<x>> \o t) /\ <<x>> \o t # <<>>
    /\ Head(<<x>> \o t) = x /\ Tail(<<x>> \o t) = t
<1> SUFFICES ASSUME NEW x, NEW t, IsSeq(t)
             PROVE  /\ IsSeq(<<x>> \o t) /\ <<x>> \o t # <<>>
                    /\ Head(<<x>> \o t) = x /\ Tail(<<x>> \o t) = t
  OBVIOUS
<1>1. PICK S : <<x>> \in Seq(S) /\ t \in Seq(S)
  BY OneIsSeq, CommonSet
<1> DEFINE s == <<x>> \o t
<1>2. /\ s \in Seq(S) /\ Len(s) = 1 + Len(t) /\ Len(t) \in Nat
      /\ \A i \in 1 .. 1 + Len(t) : s[i] = IF i <= 1 THEN x ELSE t[i - 1]
  BY <1>1, ConcatProperties, LenProperties, OneIsSeq
<1>3. s # <<>> /\ s[1] = x
  BY <1>2, EmptySeq
<1> HIDE DEF s
<1>4. Head(s) = x /\ Tail(s) \in Seq(S) /\ Len(Tail(s)) = Len(t)
  BY <1>2, <1>3, HeadTailProperties
<1>5. \A i \in 1 .. Len(t) : Tail(s)[i] = t[i]
  <2> SUFFICES ASSUME NEW i \in 1 .. Len(t) PROVE Tail(s)[i] = t[i]
    OBVIOUS
  <2>1. Tail(s)[i] = s[i + 1]
    BY <1>2, <1>3, <1>4, HeadTailProperties
  <2> QED BY <1>2, <2>1
<1>6. Tail(s) = t
  BY <1>1, <1>4, <1>5, SeqEqual
<1> QED BY <1>2, <1>3, <1>4, <1>6 DEF s, IsSeq

LEMMA TwiceAndSo ==
  ASSUME NEW x
  PROVE  /\ Times(0, <<x>>) = <<>> /\ Times(1, <<x>>) = <<x>>
         /\ Times(2, <<x>>) = <<x>> \o <<x>>
         /\ Times(3, <<x>>) = <<x>> \o (<<x>> \o <<x>>)
         /\ Times(4, <<x>>) = <<x>> \o (<<x>> \o (<<x>> \o <<x>>))
BY DEF Times

\* What may come after an exchange may itself be any sessions.
LEMMA ClosedUnion ==
  ASSUME NEW D, \A x \in D : x = <<x[1], x[2]>> /\ Session(x[1], x[2])
  PROVE  \E M : Closed(M) /\ D \subseteq M
<1> DEFINE Of(x) == CHOOSE M : Closed(M) /\ x \in M
           U     == UNION {Of(x) : x \in D}
<1>1. \A x \in D : Closed(Of(x)) /\ x \in Of(x)
  <2> SUFFICES ASSUME NEW x \in D PROVE Closed(Of(x)) /\ x \in Of(x)
    OBVIOUS
  <2>1. \E M : Closed(M) /\ x \in M
    BY DEF Session
  <2> QED BY <2>1
<1>2. Closed(U)
  <2> SUFFICES ASSUME NEW s, NEW o, <<s, o>> \in U PROVE Agrees(s, o, U)
    BY DEF Closed
  <2>1. PICK x \in D : <<s, o>> \in Of(x)
    OBVIOUS
  <2>2. Agrees(s, o, Of(x))
    BY <1>1, <2>1 DEF Closed
  <2>3. Of(x) \subseteq U
    OBVIOUS
  <2> HIDE DEF Of, U
  <2> QED BY <2>2, <2>3 DEF Agrees
<1>3. D \subseteq U
  BY <1>1
<1> HIDE DEF U
<1> QED BY <1>2, <1>3

\* An exchange before sessions makes a session.
LEMMA OneMore ==
  ASSUME NEW s, NEW o, NEW M, Closed(M), Agrees(s, o, M) PROVE Session(s, o)
<1> DEFINE N == M \cup {<<s, o>>}
<1>1. \A a, b : <<a, b>> \in N => Agrees(a, b, M)
  BY DEF Closed
<1>2. M \subseteq N /\ <<s, o>> \in N
  OBVIOUS
<1> HIDE DEF N
<1>3. \A a, b : Agrees(a, b, M) => Agrees(a, b, N)
  <2> TAKE a, b
  <2> QED BY <1>2 DEF Agrees
<1>4. Closed(N)
  BY <1>1, <1>3 DEF Closed
<1> QED BY <1>2, <1>4 DEF Session

LEMMA NothingAgrees == Session(<<>>, <<>>)
<1>1. Closed({}) /\ Agrees(<<>>, <<>>, {})
  BY DEF Closed, Agrees
<1> QED BY <1>1, OneMore

LEMMA CommandAgrees ==
  ASSUME NEW c, c \notin Special, NEW t, Waits(t), Firmware(c) # <<>>, Session(t, Firmware(c))
  PROVE  Session(Command(c) \o t, <<>>)
<1> DEFINE x == [op |-> "command", arg |-> c]
<1>1. PICK M : Closed(M) /\ <<t, Firmware(c)>> \in M
  BY DEF Session
<1>2. Command(c) \o t # <<>> /\ Head(Command(c) \o t) = x /\ Tail(Command(c) \o t) = t
  BY FirstAndRest DEF Command, Waits
<1>3. x.op = "command" /\ x.arg = c
  OBVIOUS
<1> HIDE DEF x
<1>4. Agrees(Command(c) \o t, <<>>, M)
  BY <1>1, <1>2, <1>3 DEF Agrees
<1> QED BY <1>1, <1>4, OneMore

LEMMA WriteAgrees ==
  ASSUME NEW w, NEW t, IsSeq(t), Ongoing(t), NEW what \in Takeable, NEW q, IsSeq(q),
         \A r \in Taken(what, w) : Session(t, r \o q)
  PROVE  Session(Write(w) \o t, Take(what) \o q)
<1> DEFINE D == {<<t, r \o q>> : r \in Taken(what, w)}
           x == [op |-> "write", arg |-> w]
           y == [op |-> "take", arg |-> what]
<1>1. \A z \in D : z = <<z[1], z[2]>> /\ Session(z[1], z[2])
  <2> SUFFICES ASSUME NEW r \in Taken(what, w), NEW z, z = <<t, r \o q>>
               PROVE  z = <<z[1], z[2]>> /\ Session(z[1], z[2])
    OBVIOUS
  <2>1. z[1] = t /\ z[2] = r \o q
    OBVIOUS
  <2> QED BY <2>1
<1>2. \A r \in Taken(what, w) : <<t, r \o q>> \in D
  OBVIOUS
<1> HIDE DEF D
<1>3. PICK M : Closed(M) /\ D \subseteq M
  BY <1>1, ClosedUnion
<1>4. /\ Write(w) \o t # <<>> /\ Head(Write(w) \o t) = x /\ Tail(Write(w) \o t) = t
      /\ Take(what) \o q # <<>> /\ Head(Take(what) \o q) = y /\ Tail(Take(what) \o q) = q
  BY FirstAndRest DEF Write, Take
<1>5. x.op = "write" /\ x.arg = w /\ y.op = "take" /\ y.arg = what
  OBVIOUS
<1> HIDE DEF x, y
<1>6. Agrees(Write(w) \o t, Take(what) \o q, M)
  BY <1>2, <1>3, <1>4, <1>5 DEF Agrees
<1> QED BY <1>3, <1>6, OneMore

LEMMA WordAgrees ==
  ASSUME NEW w, NEW t, IsSeq(t), Ongoing(t), NEW q, IsSeq(q), Session(t, q)
  PROVE  Session(Write(w) \o t, Take("word") \o q)
<1>1. Taken("word", w) = {<<>>} /\ <<>> \o q = q
  BY ConcatNothing DEF Taken
<1> QED BY <1>1, WriteAgrees DEF Takeable

\* An access that takes any of the words W as it should be.
Fits(x, W) ==
  /\ x.op \in {"read", "expect", "skip", "note"}
  /\ x.op = "expect" => W = {x.arg}
  /\ x.op \in {"skip", "note"} => W = {1}

LEMMA AnswerAgrees ==
  ASSUME NEW s, s # <<>>, Head(s).op \in Reading, NEW W, NEW q, IsSeq(q),
         \A w \in W : Accepts(s, w) /\ Session(Onward(s, w), q)
  PROVE  Session(s, Reply(W) \o q)
<1> DEFINE D == {<<Onward(s, w), q>> : w \in W}
           y == [op |-> "reply", arg |-> W]
<1>1. \A z \in D : z = <<z[1], z[2]>> /\ Session(z[1], z[2])
  OBVIOUS
<1>2. \A w \in W : <<Onward(s, w), q>> \in D
  OBVIOUS
<1> HIDE DEF D
<1>3. PICK M : Closed(M) /\ D \subseteq M
  BY <1>1, ClosedUnion
<1>4. /\ Reply(W) \o q # <<>> /\ Head(Reply(W) \o q) = y /\ Tail(Reply(W) \o q) = q
      /\ <<>> \o q = q
  BY FirstAndRest, ConcatNothing DEF Reply
<1>5. y.op = "reply" /\ y.arg = W
  OBVIOUS
<1> HIDE DEF y
<1>6. Agrees(s, Reply(W) \o q, M)
  BY <1>2, <1>3, <1>4, <1>5 DEF Agrees
<1> QED BY <1>3, <1>6, OneMore

LEMMA ReadAgrees ==
  ASSUME NEW W, NEW x, Fits(x, W), NEW t, IsSeq(t), NEW q, IsSeq(q), Session(t, q)
  PROVE  Session(<<x>> \o t, Reply(W) \o q)
<1>1. <<x>> \o t # <<>> /\ Head(<<x>> \o t) = x /\ Tail(<<x>> \o t) = t
  BY FirstAndRest
<1>2. x.op \in Reading /\ \A w \in W : Accepts(<<x>> \o t, w) /\ Onward(<<x>> \o t, w) = t
  BY <1>1 DEF Fits, Accepts, Onward, Reading
<1> QED BY <1>1, <1>2, AnswerAgrees

LEMMA CountAgrees ==
  ASSUME NEW kind, NEW W, NEW q, IsSeq(q), \A w \in W : Session(After(kind, w), q)
  PROVE  Session(Count(kind), Reply(W) \o q)
<1> DEFINE x == [op |-> "count", arg |-> kind]
<1>1. Count(kind) # <<>> /\ Head(Count(kind)) = x
  BY DEF Count
<1>2. \A w \in W : Accepts(Count(kind), w) /\ Onward(Count(kind), w) = After(kind, w)
  BY <1>1 DEF Accepts, Onward, Reading
<1>3. Head(Count(kind)).op \in Reading
  BY <1>1 DEF Reading
<1> QED BY <1>1, <1>2, <1>3, AnswerAgrees

LEMMA DrainAgrees ==
  ASSUME NEW n, NEW W, NEW q, IsSeq(q), \A w \in W : Session(AfterSample(n, w), q)
  PROVE  Session(Drain(n), Reply(W) \o q)
<1> DEFINE x == [op |-> "drain", arg |-> n]
<1>1. Drain(n) # <<>> /\ Head(Drain(n)) = x
  BY DEF Drain
<1>2. \A w \in W : Accepts(Drain(n), w) /\ Onward(Drain(n), w) = AfterSample(n, w)
  BY <1>1 DEF Accepts, Onward, Reading
<1>3. Head(Drain(n)).op \in Reading
  BY <1>1 DEF Reading
<1> QED BY <1>1, <1>2, <1>3, AnswerAgrees
-----------------------------------------------------------------------------
(* The exchanges the calls are made of.                                    *)

Cat(a, b) == a \o b

LEMMA CatProperties ==
  /\ \A a, b : IsSeq(a) /\ IsSeq(b) => IsSeq(Cat(a, b))
  /\ \A a, b, c : IsSeq(a) /\ IsSeq(b) /\ IsSeq(c) => Cat(Cat(a, b), c) = Cat(a, Cat(b, c))
  /\ \A a : IsSeq(a) => Cat(a, <<>>) = a /\ Cat(<<>>, a) = a
<1>1. ASSUME NEW a, NEW b, NEW c, IsSeq(a), IsSeq(b), IsSeq(c)
      PROVE  Cat(Cat(a, b), c) = Cat(a, Cat(b, c))
  BY <1>1, ConcatAnywhere DEF Cat
<1>2. \A a, b : IsSeq(a) /\ IsSeq(b) => IsSeq(Cat(a, b))
  BY ConcatIsSeq DEF Cat
<1>3. \A a : IsSeq(a) => Cat(a, <<>>) = a /\ Cat(<<>>, a) = a
  BY ConcatNothing DEF Cat
<1> QED BY <1>1, <1>2, <1>3

\* A script that leaves the two sides in step, whatever comes after it.
Round(a) ==
  /\ IsSeq(a) /\ a # <<>>
  /\ \A t : IsSeq(t) /\ Session(t, <<>>) => Session(Cat(a, t), <<>>)

LEMMA RoundAlone == \A a : Round(a) => a # <<>> /\ Session(a, <<>>)
<1> SUFFICES ASSUME NEW a, Round(a) PROVE a # <<>> /\ Session(a, <<>>)
  OBVIOUS
<1>1. Session(Cat(a, <<>>), <<>>)
  BY EmptyIsSeq, NothingAgrees DEF Round
<1> QED BY <1>1, CatProperties DEF Round

LEMMA RoundAfterRound == \A a, b : Round(a) /\ Round(b) => Round(Cat(a, b))
<1> SUFFICES ASSUME NEW a, NEW b, Round(a), Round(b) PROVE Round(Cat(a, b))
  OBVIOUS
<1>1. IsSeq(a) /\ IsSeq(b) /\ IsSeq(Cat(a, b))
  BY CatProperties DEF Round
<1>2. Cat(a, b) # <<>>
  <2>1. PICK S : a \in Seq(S) /\ b \in Seq(S)
    BY <1>1, CommonSet
  <2>2. Len(a \o b) = Len(a) + Len(b) /\ Len(a) \in Nat \ {0} /\ Len(b) \in Nat
    BY <2>1, ConcatProperties, LenProperties, EmptySeq DEF Round
  <2> QED BY <2>2, EmptyIsSeq DEF Cat
<1>3. ASSUME NEW t, IsSeq(t), Session(t, <<>>) PROVE Session(Cat(Cat(a, b), t), <<>>)
  <2>1. Session(Cat(b, t), <<>>) /\ IsSeq(Cat(b, t))
    BY <1>1, <1>3, CatProperties DEF Round
  <2>2. Session(Cat(a, Cat(b, t)), <<>>)
    BY <2>1 DEF Round
  <2> QED BY <1>1, <1>3, <2>2, CatProperties
<1> QED BY <1>1, <1>2, <1>3 DEF Round

LEMMA Single ==
  /\ \A c : IsSeq(Command(c))
  /\ \A w : IsSeq(Write(w)) /\ IsSeq(Expect(w))
  /\ \A n : IsSeq(SkipUnlessAck(n)) /\ IsSeq(NoteUnlessAck(n))
  /\ IsSeq(Read)
  /\ \A W : IsSeq(Reply(W))
  /\ IsSeq(Ok)
  /\ \A what : IsSeq(Take(what))
BY OneIsSeq DEF Command, Write, Expect, SkipUnlessAck, NoteUnlessAck, Read, Reply, Ok, Take

LEMMA Regroup ==
  ASSUME NEW a, NEW b, NEW c, NEW d, IsSeq(a), IsSeq(b), IsSeq(c), IsSeq(d)
  PROVE  /\ Cat(Cat(a, b), Cat(c, d)) = Cat(a, Cat(b, Cat(c, d)))
         /\ Cat(Cat(Cat(a, b), c), d) = Cat(a, Cat(b, Cat(c, d)))
BY CatProperties

LEMMA RegroupFive ==
  ASSUME NEW a, NEW b, NEW c, NEW d, NEW e,
         IsSeq(a), IsSeq(b), IsSeq(c), IsSeq(d), IsSeq(e)
  PROVE  /\ Cat(Cat(Cat(a, b), c), Cat(d, e)) = Cat(a, Cat(b, Cat(c, Cat(d, e))))
         /\ Cat(Cat(Cat(Cat(a, b), c), d), e) = Cat(a, Cat(b, Cat(c, Cat(d, e))))
BY CatProperties

LEMMA RegroupSix ==
  ASSUME NEW a, NEW b, NEW c, NEW d, NEW e, NEW f,
         IsSeq(a), IsSeq(b), IsSeq(c), IsSeq(d), IsSeq(e), IsSeq(f)
  PROVE  Cat(Cat(Cat(Cat(a, b), c), d), Cat(e, f))
           = Cat(a, Cat(b, Cat(c, Cat(d, Cat(e, f)))))
BY CatProperties

LEMMA WaitsForWord ==
  ASSUME NEW x, x.op \in Reading, NEW t, IsSeq(t)
  PROVE  Waits(Cat(<<x>>, t)) /\ Ongoing(Cat(<<x>>, t))
<1> DEFINE s == Cat(<<x>>, t)
<1>1. IsSeq(s) /\ s # <<>> /\ Head(s) = x
  BY FirstAndRest DEF Cat
<1> HIDE DEF s
<1>2. s[1] = x /\ Len(s) \in Nat \ {0}
  BY <1>1, ShorterSeq
<1>3. 1 \in 1 .. Len(s) /\ 1 .. 1 - 1 = {}
  BY <1>2
<1>4. Waits(s)
  BY <1>1, <1>2, <1>3 DEF Waits
<1>5. Ongoing(s)
  BY <1>1 DEF Ongoing
<1> QED BY <1>4, <1>5 DEF s

LEMMA WaitsAfterWrite ==
  ASSUME NEW w, NEW t, Waits(t)
  PROVE  Waits(Cat(Write(w), t)) /\ Ongoing(Cat(Write(w), t))
<1> DEFINE x == [op |-> "write", arg |-> w]
           s == Cat(Write(w), t)
<1>1. IsSeq(t)
  BY DEF Waits
<1>2. IsSeq(s) /\ s # <<>> /\ Head(s) = x /\ Tail(s) = t
  BY <1>1, FirstAndRest DEF Write, Cat
<1>3. x.op = "write"
  OBVIOUS
<1> HIDE DEF s, x
<1>4. /\ s[1] = x /\ Len(s) \in Nat \ {0} /\ Len(t) = Len(s) - 1
      /\ \A i \in 1 .. Len(s) - 1 : t[i] = s[i + 1]
  BY <1>2, ShorterSeq
<1>5. PICK i \in 1 .. Len(t) : t[i].op \in Reading /\ \A j \in 1 .. i - 1 : t[j].op = "write"
  BY DEF Waits
<1>6. i + 1 \in 1 .. Len(s) /\ s[i + 1].op \in Reading
  BY <1>4, <1>5
<1>7. ASSUME NEW j \in 1 .. (i + 1) - 1 PROVE s[j].op = "write"
  <2>1. CASE j = 1
    BY <1>3, <1>4, <2>1
  <2>2. CASE j # 1
    <3>1. j - 1 \in 1 .. i - 1 /\ j - 1 \in 1 .. Len(s) - 1
      BY <1>4, <1>5, <2>2
    <3>2. s[(j - 1) + 1] = t[j - 1]
      BY <1>4, <3>1
    <3>3. (j - 1) + 1 = j
      BY <1>5
    <3> QED BY <1>5, <3>1, <3>2, <3>3
  <2> QED BY <2>1, <2>2
<1>8. Waits(s)
  BY <1>2, <1>6, <1>7 DEF Waits
<1>9. Ongoing(s)
  BY <1>2, <1>3 DEF Ongoing
<1> QED BY <1>8, <1>9 DEF s

\* The last answer of an exchange.
LEMMA LastAnswer ==
  ASSUME NEW W, NEW y, Fits(y, W), NEW t, IsSeq(t), Session(t, <<>>)
  PROVE  /\ Session(Cat(<<y>>, t), Reply(W)) /\ IsSeq(Cat(<<y>>, t))
         /\ Waits(Cat(<<y>>, t)) /\ Ongoing(Cat(<<y>>, t))
<1>1. Session(Cat(<<y>>, t), Cat(Reply(W), <<>>))
  BY ReadAgrees, EmptyIsSeq DEF Cat
<1>2. y.op \in Reading
  BY DEF Fits, Reading
<1> QED BY <1>1, <1>2, Single, OneIsSeq, CatProperties, WaitsForWord

\* A word before the rest of it.
LEMMA OneMoreWord ==
  ASSUME NEW w, NEW s, IsSeq(s), Waits(s), Ongoing(s), NEW q, IsSeq(q), Session(s, q)
  PROVE  LET v == Cat(Write(w), s)
             p == Cat(Take("word"), q)
         IN  Session(v, p) /\ IsSeq(v) /\ IsSeq(p) /\ Waits(v) /\ Ongoing(v)
<1>1. Session(Cat(Write(w), s), Cat(Take("word"), q))
  BY WordAgrees DEF Cat
<1> QED BY <1>1, WaitsAfterWrite, Single, CatProperties

\* The command, and its acknowledgement.
LEMMA Acknowledged ==
  ASSUME NEW c, c \notin Special, NEW x, Fits(x, {1}), NEW s, IsSeq(s), NEW q, IsSeq(q),
         Session(s, q), Firmware(c) = Cat(Ok, q)
  PROVE  Session(Cat(Command(c), Cat(<<x>>, s)), <<>>)
<1>1. Session(Cat(<<x>>, s), Cat(Ok, q))
  BY ReadAgrees DEF Ok, Cat
<1>2. x.op \in Reading
  BY DEF Fits, Reading
<1>3. Waits(Cat(<<x>>, s))
  BY <1>2, WaitsForWord
<1>4. Firmware(c) # <<>>
  BY FirstAndRest DEF Ok, Reply, Cat
<1> QED BY <1>1, <1>3, <1>4, CommandAgrees DEF Cat

LEMMA CommandFirst ==
  ASSUME NEW c, NEW t, IsSeq(t)
  PROVE  IsSeq(Cat(Command(c), t)) /\ Cat(Command(c), t) # <<>>
BY FirstAndRest DEF Command, Cat

\* A command that only answers.
LEMMA OneAnswer ==
  ASSUME NEW c, c \notin Special, NEW W, NEW x, Fits(x, W), Firmware(c) = Reply(W)
  PROVE  Round(Cat(Command(c), <<x>>))
<1>1. ASSUME NEW t, IsSeq(t), Session(t, <<>>)
      PROVE  Session(Cat(Cat(Command(c), <<x>>), t), <<>>)
  <2>1. Session(Cat(<<x>>, t), Reply(W)) /\ Waits(Cat(<<x>>, t))
    BY <1>1, LastAnswer
  <2>2. Firmware(c) # <<>>
    BY DEF Reply
  <2>3. Session(Cat(Command(c), Cat(<<x>>, t)), <<>>)
    BY <2>1, <2>2, CommandAgrees DEF Cat
  <2> QED BY <1>1, <2>3, CatProperties, Single, OneIsSeq
<1> QED BY <1>1, CommandFirst, OneIsSeq DEF Round

\* A command with one word, with two and with three.
LEMMA OneWord ==
  ASSUME NEW c, c \notin Special, NEW W, NEW x, Fits(x, {1}), NEW y, Fits(y, W),
         Firmware(c) = Cat(Ok, Cat(Take("word"), Reply(W)))
  PROVE  Round(Cat(Command(c), Cat(<<x>>, Cat(Write(Param), <<y>>))))
<1> DEFINE b == Cat(<<x>>, Cat(Write(Param), <<y>>))
<1>1. IsSeq(b)
  BY CatProperties, Single, OneIsSeq
<1>2. ASSUME NEW t, IsSeq(t), Session(t, <<>>)
      PROVE  Session(Cat(Cat(Command(c), b), t), <<>>)
  <2> DEFINE s0 == Cat(<<y>>, t)
             s1 == Cat(Write(Param), s0)
             q1 == Cat(Take("word"), Reply(W))
  <2>1. Session(s0, Reply(W)) /\ IsSeq(s0) /\ Waits(s0) /\ Ongoing(s0)
    BY <1>2, LastAnswer
  <2>2. Session(s1, q1) /\ IsSeq(s1) /\ IsSeq(q1)
    BY <2>1, Single, OneMoreWord
  <2>3. Session(Cat(Command(c), Cat(<<x>>, s1)), <<>>)
    <3> HIDE DEF s0, s1
    <3> QED BY <2>2, Acknowledged
  <2>4. Cat(Cat(Command(c), b), t) = Cat(Command(c), Cat(b, t))
    BY <1>1, <1>2, CatProperties, Single
  <2>5. Cat(b, t) = Cat(<<x>>, s1)
    BY <1>2, CatProperties, Single, OneIsSeq
  <2> QED BY <2>3, <2>4, <2>5
<1> HIDE DEF b
<1>3. Round(Cat(Command(c), b))
  BY <1>1, <1>2, CommandFirst DEF Round
<1> QED BY <1>3 DEF b

LEMMA TwoWords ==
  ASSUME NEW c, c \notin Special, NEW W, NEW x, Fits(x, {1}), NEW y, Fits(y, W),
         Firmware(c) = Cat(Ok, Cat(Take("word"), Cat(Take("word"), Reply(W))))
  PROVE  Round(Cat(Command(c), Cat(<<x>>, Cat(Write(Param), Cat(Write(Param), <<y>>)))))
<1> DEFINE b == Cat(<<x>>, Cat(Write(Param), Cat(Write(Param), <<y>>)))
<1>1. IsSeq(b)
  BY CatProperties, Single, OneIsSeq
<1>2. ASSUME NEW t, IsSeq(t), Session(t, <<>>)
      PROVE  Session(Cat(Cat(Command(c), b), t), <<>>)
  <2> DEFINE s0 == Cat(<<y>>, t)
             s1 == Cat(Write(Param), s0)
             q1 == Cat(Take("word"), Reply(W))
             s2 == Cat(Write(Param), s1)
             q2 == Cat(Take("word"), q1)
  <2>1. Session(s0, Reply(W)) /\ IsSeq(s0) /\ Waits(s0) /\ Ongoing(s0)
    BY <1>2, LastAnswer
  <2>2. Session(s1, q1) /\ IsSeq(s1) /\ IsSeq(q1) /\ Waits(s1) /\ Ongoing(s1)
    BY <2>1, Single, OneMoreWord
  <2>3. Session(s2, q2) /\ IsSeq(s2) /\ IsSeq(q2)
    <3> HIDE DEF s1, q1
    <3> QED BY <2>2, OneMoreWord
  <2>4. Session(Cat(Command(c), Cat(<<x>>, s2)), <<>>)
    <3>1. Firmware(c) = Cat(Ok, q2)
      OBVIOUS
    <3> HIDE DEF s2, q2
    <3> QED BY <2>3, <3>1, Acknowledged
  <2>5. Cat(Cat(Command(c), b), t) = Cat(Command(c), Cat(b, t))
    BY <1>1, <1>2, CatProperties, Single
  <2>6. Cat(b, t) = Cat(<<x>>, s2)
    BY <1>2, CatProperties, Single, OneIsSeq
  <2> QED BY <2>4, <2>5, <2>6
<1> HIDE DEF b
<1>3. Round(Cat(Command(c), b))
  BY <1>1, <1>2, CommandFirst DEF Round
<1> QED BY <1>3 DEF b

LEMMA ThreeWords ==
  ASSUME NEW c, c \notin Special, NEW W, NEW x, Fits(x, {1}), NEW y, Fits(y, W),
         Firmware(c) = Cat(Ok, Cat(Take("word"), Cat(Take("word"), Cat(Take("word"), Reply(W)))))
  PROVE  Round(Cat(Command(c),
               Cat(<<x>>, Cat(Write(Param), Cat(Write(Param), Cat(Write(Param), <<y>>))))))
<1> DEFINE a == Cat(Write(Param), Cat(Write(Param), <<y>>))
           b == Cat(<<x>>, Cat(Write(Param), a))
<1>1. IsSeq(a) /\ IsSeq(b)
  BY CatProperties, Single, OneIsSeq
<1>2. ASSUME NEW t, IsSeq(t), Session(t, <<>>)
      PROVE  Session(Cat(Cat(Command(c), b), t), <<>>)
  <2> DEFINE s0 == Cat(<<y>>, t)
             s1 == Cat(Write(Param), s0)
             q1 == Cat(Take("word"), Reply(W))
             s2 == Cat(Write(Param), s1)
             q2 == Cat(Take("word"), q1)
             s3 == Cat(Write(Param), s2)
             q3 == Cat(Take("word"), q2)
  <2>1. Session(s0, Reply(W)) /\ IsSeq(s0) /\ Waits(s0) /\ Ongoing(s0)
    BY <1>2, LastAnswer
  <2>2. Session(s1, q1) /\ IsSeq(s1) /\ IsSeq(q1) /\ Waits(s1) /\ Ongoing(s1)
    BY <2>1, Single, OneMoreWord
  <2>3. Session(s2, q2) /\ IsSeq(s2) /\ IsSeq(q2) /\ Waits(s2) /\ Ongoing(s2)
    <3> HIDE DEF s1, q1
    <3> QED BY <2>2, OneMoreWord
  <2>4. Session(s3, q3) /\ IsSeq(s3) /\ IsSeq(q3)
    <3> HIDE DEF s2, q2
    <3> QED BY <2>3, OneMoreWord
  <2>5. Session(Cat(Command(c), Cat(<<x>>, s3)), <<>>)
    <3>1. Firmware(c) = Cat(Ok, q3)
      OBVIOUS
    <3> HIDE DEF s3, q3
    <3> QED BY <2>4, <3>1, Acknowledged
  <2>6. Cat(Cat(Command(c), b), t) = Cat(Command(c), Cat(b, t))
    BY <1>1, <1>2, CatProperties, Single
  <2>7. Cat(b, t) = Cat(<<x>>, s3)
    <3>1. Cat(a, t) = s2
      BY <1>2, CatProperties, Single, OneIsSeq
    <3>2. Cat(b, t) = Cat(<<x>>, Cat(Write(Param), Cat(a, t)))
      <4> HIDE DEF a
      <4> QED BY <1>1, <1>2, CatProperties, Single, OneIsSeq
    <3> QED BY <3>1, <3>2
  <2> QED BY <2>5, <2>6, <2>7
<1> HIDE DEF b
<1>3. Round(Cat(Command(c), b))
  BY <1>1, <1>2, CommandFirst DEF Round
<1> QED BY <1>3 DEF a, b
-----------------------------------------------------------------------------
(* The commands without a case of their own.                               *)

PlainCommands ==
  {"BRDINTEN", "BRDSETEVNTS1", "BRDSETEVNTS2", "CALDACWRITE", "DICFG", "DOWRITE",
   "DININTRREENABLE", "UCTCFG", "UCTWRITE", "UCTSWGATE", "AICVCLK", "AICLCLK", "AISETEVNT",
   "AICVEN", "AISETSSHGAIN", "AIXFERSIZE", "AOCVCLK", "AOSETEVNT", "AOCVEN", "AOPUTVALUE"}

WriteThreeCommands == {"DIODMASET", "AODMASET", "AICFG"}

LEMMA AckFirmware ==
  \A c \in AckCommands : c \notin Special /\ Firmware(c) = Reply({1})
<1> SUFFICES ASSUME NEW c \in AckCommands PROVE c \notin Special /\ Firmware(c) = Ok
  BY DEF Ok
<1> QED BY DEF AckCommands, Special, Firmware, WriteTwoCommands, ReadAtCommands, ValueCommands

LEMMA ValueFirmware ==
  \A c \in ValueCommands : c \notin Special /\ Firmware(c) = Reply(Values)
<1> SUFFICES ASSUME NEW c \in ValueCommands
             PROVE  c \notin Special /\ Firmware(c) = Reply(Values)
  OBVIOUS
<1> QED BY DEF Special, Firmware, WriteTwoCommands, ReadAtCommands, ValueCommands, AckCommands

LEMMA PlainFirmware ==
  \A c \in PlainCommands :
    c \notin Special /\ Firmware(c) = Cat(Ok, Cat(Take("word"), Reply({1})))
<1> SUFFICES ASSUME NEW c \in PlainCommands
             PROVE  c \notin Special /\ Firmware(c) = Cat(Ok, Cat(Take("word"), Ok))
  BY DEF Ok
<1>1. c \notin Special /\ Firmware(c) = Ok \o Take("word") \o Ok
  BY DEF PlainCommands, Special, Firmware, WriteTwoCommands, ReadAtCommands, ValueCommands,
         AckCommands
<1>2. Firmware(c) = Cat(Cat(Ok, Take("word")), Ok)
  BY <1>1 DEF Cat
<1> QED BY <1>1, <1>2, CatProperties, Single

LEMMA ReadAtFirmware ==
  \A c \in ReadAtCommands :
    c \notin Special /\ Firmware(c) = Cat(Ok, Cat(Take("word"), Reply(Values)))
<1> SUFFICES ASSUME NEW c \in ReadAtCommands
             PROVE  c \notin Special /\ Firmware(c) = Cat(Ok, Cat(Take("word"), Reply(Values)))
  OBVIOUS
<1>1. c \notin Special /\ Firmware(c) = Ok \o Take("word") \o Reply(Values)
  BY DEF Special, Firmware, WriteTwoCommands, ReadAtCommands, ValueCommands, AckCommands
<1>2. Firmware(c) = Cat(Cat(Ok, Take("word")), Reply(Values))
  BY <1>1 DEF Cat
<1> QED BY <1>1, <1>2, CatProperties, Single

LEMMA WriteTwoFirmware ==
  \A c \in WriteTwoCommands :
    c \notin Special
    /\ Firmware(c) = Cat(Ok, Cat(Take("word"), Cat(Take("word"), Reply({1}))))
<1> SUFFICES ASSUME NEW c \in WriteTwoCommands
             PROVE  /\ c \notin Special
                    /\ Firmware(c) = Cat(Ok, Cat(Take("word"), Cat(Take("word"), Ok)))
  BY DEF Ok
<1>1. c \notin Special /\ Firmware(c) = Ok \o Times(2, Take("word")) \o Ok
  BY DEF Special, Firmware, WriteTwoCommands, ReadAtCommands, ValueCommands, AckCommands
<1>2. Times(2, Take("word")) = Cat(Take("word"), Take("word"))
  BY TwiceAndSo DEF Take, Cat
<1>3. Firmware(c) = Cat(Cat(Ok, Cat(Take("word"), Take("word"))), Ok)
  BY <1>1, <1>2 DEF Cat
<1> QED BY <1>1, <1>3, CatProperties, Single

LEMMA WriteThreeFirmware ==
  \A c \in WriteThreeCommands :
    c \notin Special
    /\ Firmware(c) = Cat(Ok, Cat(Take("word"), Cat(Take("word"), Cat(Take("word"), Reply({1})))))
<1> SUFFICES ASSUME NEW c \in WriteThreeCommands
             PROVE  /\ c \notin Special
                    /\ Firmware(c) = Cat(Ok, Cat(Take("word"), Cat(Take("word"),
                                       Cat(Take("word"), Ok))))
  BY DEF Ok
<1>1. c \notin Special /\ Firmware(c) = Ok \o Times(3, Take("word")) \o Ok
  BY DEF WriteThreeCommands, Special, Firmware,
          WriteTwoCommands, ReadAtCommands, ValueCommands, AckCommands
<1>2. Times(3, Take("word")) = Cat(Take("word"), Cat(Take("word"), Take("word")))
  BY TwiceAndSo DEF Take, Cat
<1>3. Firmware(c) = Cat(Cat(Ok, Cat(Take("word"), Cat(Take("word"), Take("word")))), Ok)
  BY <1>1, <1>2 DEF Cat
<1> QED BY <1>1, <1>3, CatProperties, Single

LEMMA Accesses ==
  /\ \E x : Expect(1) = <<x>> /\ Fits(x, {1})
  /\ \A W : \E x : Read = <<x>> /\ Fits(x, W)
  /\ \A n : \E x : SkipUnlessAck(n) = <<x>> /\ Fits(x, {1})
  /\ \A n : \E x : NoteUnlessAck(n) = <<x>> /\ Fits(x, {1})
<1>1. \E x : Expect(1) = <<x>> /\ Fits(x, {1})
  <2>1. Fits([op |-> "expect", arg |-> 1], {1})
    BY DEF Fits
  <2> QED BY <2>1 DEF Expect
<1>2. ASSUME NEW W PROVE \E x : Read = <<x>> /\ Fits(x, W)
  <2>1. Fits([op |-> "read", arg |-> 0], W)
    BY DEF Fits
  <2> QED BY <2>1 DEF Read
<1>3. ASSUME NEW n PROVE \E x : SkipUnlessAck(n) = <<x>> /\ Fits(x, {1})
  <2>1. Fits([op |-> "skip", arg |-> n], {1})
    BY DEF Fits
  <2> QED BY <2>1 DEF SkipUnlessAck
<1>4. ASSUME NEW n PROVE \E x : NoteUnlessAck(n) = <<x>> /\ Fits(x, {1})
  <2>1. Fits([op |-> "note", arg |-> n], {1})
    BY DEF Fits
  <2> QED BY <2>1 DEF NoteUnlessAck
<1> QED BY <1>1, <1>2, <1>3, <1>4

LEMMA AckRound == \A c \in AckCommands : Round(CmdRetAck(c))
<1> SUFFICES ASSUME NEW c \in AckCommands PROVE Round(CmdRetAck(c))
  OBVIOUS
<1>1. PICK x : Expect(1) = <<x>> /\ Fits(x, {1})
  BY Accesses
<1>2. Round(Cat(Command(c), <<x>>))
  BY <1>1, AckFirmware, OneAnswer
<1> QED BY <1>1, <1>2 DEF CmdRetAck, Cat

LEMMA ValueRound == \A c \in ValueCommands : Round(CmdRetValue(c))
<1> SUFFICES ASSUME NEW c \in ValueCommands PROVE Round(CmdRetValue(c))
  OBVIOUS
<1>1. PICK x : Read = <<x>> /\ Fits(x, Values)
  BY Accesses
<1>2. Round(Cat(Command(c), <<x>>))
  BY <1>1, ValueFirmware, OneAnswer
<1> QED BY <1>1, <1>2 DEF CmdRetValue, Cat

LEMMA PlainRounds ==
  \A c \in PlainCommands :
    Round(CmdWriteAck(c)) /\ Round(EventOrNot(c)) /\ Round(CmdRetValue(c) \o WriteAck(Param))
<1> SUFFICES ASSUME NEW c \in PlainCommands
             PROVE  /\ Round(CmdWriteAck(c)) /\ Round(EventOrNot(c))
                    /\ Round(CmdRetValue(c) \o WriteAck(Param))
  OBVIOUS
<1>1. ASSUME NEW x, NEW y, Fits(x, {1}), Fits(y, {1})
      PROVE  Round(Cat(Command(c), Cat(<<x>>, Cat(Write(Param), <<y>>))))
  BY <1>1, PlainFirmware, OneWord
<1>2. PICK e : Expect(1) = <<e>> /\ Fits(e, {1})
  BY Accesses
<1>3. PICK r : Read = <<r>> /\ Fits(r, {1})
  BY Accesses
<1>4. PICK k : SkipUnlessAck(2) = <<k>> /\ Fits(k, {1})
  BY Accesses
<1>5. Round(CmdWriteAck(c))
  <2>1. CmdWriteAck(c) = Cat(Cat(Command(c), Expect(1)), Cat(Write(Param), Expect(1)))
    BY DEF CmdWriteAck, CmdRetAck, WriteAck, Cat
  <2> QED BY <1>1, <1>2, <2>1, Regroup, Single
<1>6. Round(EventOrNot(c))
  <2>1. EventOrNot(c) = Cat(Cat(Cat(Command(c), SkipUnlessAck(2)), Write(Param)), Read)
    BY DEF EventOrNot, ReadOrNot, Cat
  <2> QED BY <1>1, <1>3, <1>4, <2>1, Regroup, Single
<1>7. Round(CmdRetValue(c) \o WriteAck(Param))
  <2>1. CmdRetValue(c) \o WriteAck(Param)
          = Cat(Cat(Command(c), Read), Cat(Write(Param), Expect(1)))
    BY DEF CmdRetValue, WriteAck, Cat
  <2> QED BY <1>1, <1>2, <1>3, <2>1, Regroup, Single
<1> QED BY <1>5, <1>6, <1>7

LEMMA ReadAtRounds ==
  \A c \in ReadAtCommands : Round(ReadAt(c)) /\ Round(ReadOrNot(c)) /\ Round(NotedRead(c))
<1> SUFFICES ASSUME NEW c \in ReadAtCommands
             PROVE  Round(ReadAt(c)) /\ Round(ReadOrNot(c)) /\ Round(NotedRead(c))
  OBVIOUS
<1>1. ASSUME NEW x, NEW y, Fits(x, {1}), Fits(y, Values)
      PROVE  Round(Cat(Command(c), Cat(<<x>>, Cat(Write(Param), <<y>>))))
  BY <1>1, ReadAtFirmware, OneWord
<1>2. PICK e : Expect(1) = <<e>> /\ Fits(e, {1})
  BY Accesses
<1>3. PICK r : Read = <<r>> /\ Fits(r, Values)
  BY Accesses
<1>4. PICK k : SkipUnlessAck(2) = <<k>> /\ Fits(k, {1})
  BY Accesses
<1>5. PICK n : NoteUnlessAck(2) = <<n>> /\ Fits(n, {1})
  BY Accesses
<1>6. Round(ReadAt(c))
  <2>1. ReadAt(c) = Cat(Cat(Cat(Command(c), Expect(1)), Write(Param)), Read)
    BY DEF ReadAt, CmdRetAck, Cat
  <2> QED BY <1>1, <1>2, <1>3, <2>1, Regroup, Single
<1>7. Round(ReadOrNot(c))
  <2>1. ReadOrNot(c) = Cat(Cat(Cat(Command(c), SkipUnlessAck(2)), Write(Param)), Read)
    BY DEF ReadOrNot, Cat
  <2> QED BY <1>1, <1>3, <1>4, <2>1, Regroup, Single
<1>8. Round(NotedRead(c))
  <2>1. NotedRead(c) = Cat(Cat(Cat(Command(c), NoteUnlessAck(2)), Write(Param)), Read)
    BY DEF NotedRead, Cat
  <2> QED BY <1>1, <1>3, <1>5, <2>1, Regroup, Single
<1> QED BY <1>6, <1>7, <1>8

LEMMA WriteTwoRounds ==
  \A c \in WriteTwoCommands : Round(WriteTwo(c)) /\ Round(WriteOrNot(c)) /\ Round(NotedWrite(c))
<1> SUFFICES ASSUME NEW c \in WriteTwoCommands
             PROVE  Round(WriteTwo(c)) /\ Round(WriteOrNot(c)) /\ Round(NotedWrite(c))
  OBVIOUS
<1>1. ASSUME NEW x, NEW y, Fits(x, {1}), Fits(y, {1})
      PROVE  Round(Cat(Command(c), Cat(<<x>>, Cat(Write(Param), Cat(Write(Param), <<y>>)))))
  BY <1>1, WriteTwoFirmware, TwoWords
<1>2. PICK e : Expect(1) = <<e>> /\ Fits(e, {1})
  BY Accesses
<1>3. PICK r : Read = <<r>> /\ Fits(r, {1})
  BY Accesses
<1>4. PICK k : SkipUnlessAck(3) = <<k>> /\ Fits(k, {1})
  BY Accesses
<1>5. PICK n : NoteUnlessAck(3) = <<n>> /\ Fits(n, {1})
  BY Accesses
<1>6. PICK m : NoteUnlessAck(0) = <<m>> /\ Fits(m, {1})
  BY Accesses
<1>7. Round(WriteTwo(c))
  <2>1. WriteTwo(c)
          = Cat(Cat(Cat(Command(c), Expect(1)), Write(Param)), Cat(Write(Param), Expect(1)))
    BY DEF WriteTwo, CmdRetAck, WriteAck, Cat
  <2> QED BY <1>1, <1>2, <2>1, RegroupFive, Single
<1>8. Round(WriteOrNot(c))
  <2>1. WriteOrNot(c)
          = Cat(Cat(Cat(Cat(Command(c), SkipUnlessAck(3)), Write(Param)), Write(Param)), Read)
    BY DEF WriteOrNot, Cat
  <2> QED BY <1>1, <1>3, <1>4, <2>1, RegroupFive, Single
<1>9. Round(NotedWrite(c))
  <2>1. NotedWrite(c)
          = Cat(Cat(Cat(Cat(Command(c), NoteUnlessAck(3)), Write(Param)), Write(Param)),
                NoteUnlessAck(0))
    BY DEF NotedWrite, Cat
  <2> QED BY <1>1, <1>5, <1>6, <2>1, RegroupFive, Single
<1> QED BY <1>7, <1>8, <1>9

LEMMA WriteThreeRound == \A c \in WriteThreeCommands : Round(WriteThree(c))
<1> SUFFICES ASSUME NEW c \in WriteThreeCommands PROVE Round(WriteThree(c))
  OBVIOUS
<1>1. PICK e : Expect(1) = <<e>> /\ Fits(e, {1})
  BY Accesses
<1>2. Round(Cat(Command(c),
            Cat(<<e>>, Cat(Write(Param), Cat(Write(Param), Cat(Write(Param), <<e>>))))))
  BY <1>1, WriteThreeFirmware, ThreeWords
<1>3. WriteThree(c)
        = Cat(Cat(Cat(Cat(Command(c), Expect(1)), Write(Param)), Write(Param)),
              Cat(Write(Param), Expect(1)))
  BY DEF WriteThree, CmdRetAck, WriteAck, Cat
<1> QED BY <1>1, <1>2, <1>3, RegroupSix, Single
-----------------------------------------------------------------------------
(* The commands with a case of their own.                                  *)

\* The rest of an exchange, up to the last answer.
InTurn(s, q) == IsSeq(s) /\ IsSeq(q) /\ Waits(s) /\ Ongoing(s) /\ Session(s, q)

LEMMA LastInTurn == InTurn(Expect(1), Ok)
<1>1. PICK x : Expect(1) = <<x>> /\ Fits(x, {1})
  BY Accesses
<1>2. Cat(<<x>>, <<>>) = <<x>>
  BY OneIsSeq, CatProperties
<1>3. /\ Session(Cat(<<x>>, <<>>), Reply({1})) /\ IsSeq(Cat(<<x>>, <<>>))
      /\ Waits(Cat(<<x>>, <<>>)) /\ Ongoing(Cat(<<x>>, <<>>))
  BY <1>1, LastAnswer, EmptyIsSeq, NothingAgrees
<1> QED BY <1>1, <1>2, <1>3, Single DEF InTurn, Ok

LEMMA ReadLast == \A W : InTurn(Read, Reply(W))
<1> SUFFICES ASSUME NEW W PROVE InTurn(Read, Reply(W))
  OBVIOUS
<1>1. PICK x : Read = <<x>> /\ Fits(x, W)
  BY Accesses
<1>2. Cat(<<x>>, <<>>) = <<x>>
  BY OneIsSeq, CatProperties
<1>3. /\ Session(Cat(<<x>>, <<>>), Reply(W)) /\ IsSeq(Cat(<<x>>, <<>>))
      /\ Waits(Cat(<<x>>, <<>>)) /\ Ongoing(Cat(<<x>>, <<>>))
  BY <1>1, LastAnswer, EmptyIsSeq, NothingAgrees
<1> QED BY <1>1, <1>2, <1>3, Single DEF InTurn

LEMMA ReadInTurn == \A s, q, W : InTurn(s, q) => InTurn(Cat(Read, s), Cat(Reply(W), q))
<1> SUFFICES ASSUME NEW s, NEW q, NEW W, InTurn(s, q)
             PROVE  InTurn(Cat(Read, s), Cat(Reply(W), q))
  OBVIOUS
<1>1. PICK x : Read = <<x>> /\ Fits(x, W)
  BY Accesses
<1>2. x.op \in Reading
  BY <1>1 DEF Fits, Reading
<1>3. Session(Cat(<<x>>, s), Cat(Reply(W), q))
  BY <1>1, ReadAgrees DEF InTurn, Cat
<1>4. Waits(Cat(<<x>>, s)) /\ Ongoing(Cat(<<x>>, s))
  BY <1>2, WaitsForWord DEF InTurn
<1> QED BY <1>1, <1>3, <1>4, Single, CatProperties DEF InTurn

LEMMA WriteInTurn ==
  \A s, q, w : InTurn(s, q) => InTurn(Cat(Write(w), s), Cat(Take("word"), q))
BY OneMoreWord DEF InTurn

\* Up to four reads and up to two words, and the acknowledgement.
LEMMA BlockInTurn ==
  /\ InTurn(Cat(Times(1, Read), Expect(1)), Cat(Times(1, Reply(Values)), Ok))
  /\ InTurn(Cat(Times(2, Read), Expect(1)), Cat(Times(2, Reply(Values)), Ok))
  /\ InTurn(Cat(Times(4, Read), Expect(1)), Cat(Times(4, Reply(Values)), Ok))
  /\ InTurn(Cat(Times(1, Write(Param)), Expect(1)), Cat(Times(1, Take("word")), Ok))
  /\ InTurn(Cat(Times(2, Write(Param)), Expect(1)), Cat(Times(2, Take("word")), Ok))
  /\ InTurn(Times(2, Read), Times(2, Reply(Values)))
<1> DEFINE R == Read
           V == Reply(Values)
           P == Write(Param)
           T == Take("word")
<1>1. /\ Times(1, R) = R /\ Times(2, R) = Cat(R, R)
      /\ Times(4, R) = Cat(R, Cat(R, Cat(R, R)))
  BY TwiceAndSo DEF Read, Cat
<1>2. /\ Times(1, V) = V /\ Times(2, V) = Cat(V, V)
      /\ Times(4, V) = Cat(V, Cat(V, Cat(V, V)))
  BY TwiceAndSo DEF Reply, Cat
<1>3. Times(1, P) = P /\ Times(2, P) = Cat(P, P)
  BY TwiceAndSo DEF Write, Cat
<1>4. Times(1, T) = T /\ Times(2, T) = Cat(T, T)
  BY TwiceAndSo DEF Take, Cat
<1>5. IsSeq(R) /\ IsSeq(V) /\ IsSeq(P) /\ IsSeq(T) /\ IsSeq(Expect(1)) /\ IsSeq(Ok)
  BY Single
<1>6. \A s, q : InTurn(s, q) => InTurn(Cat(R, s), Cat(V, q))
  BY ReadInTurn
<1>7. \A s, q : InTurn(s, q) => InTurn(Cat(P, s), Cat(T, q))
  BY WriteInTurn
<1>8. InTurn(R, V)
  BY ReadLast
<1> HIDE DEF R, V, P, T
<1> DEFINE E == Expect(1)
<1>9. InTurn(Cat(R, E), Cat(V, Ok)) /\ InTurn(Cat(P, E), Cat(T, Ok))
  BY <1>6, <1>7, LastInTurn
<1>10. InTurn(Cat(R, Cat(R, E)), Cat(V, Cat(V, Ok))) /\ InTurn(Cat(R, R), Cat(V, V))
  BY <1>6, <1>8, <1>9
<1>11. InTurn(Cat(R, Cat(R, Cat(R, Cat(R, E)))), Cat(V, Cat(V, Cat(V, Cat(V, Ok)))))
  BY <1>6, <1>10
<1>12. InTurn(Cat(P, Cat(P, E)), Cat(T, Cat(T, Ok)))
  BY <1>7, <1>9
<1>13. Cat(Cat(R, R), E) = Cat(R, Cat(R, E)) /\ Cat(Cat(V, V), Ok) = Cat(V, Cat(V, Ok))
  BY <1>5, CatProperties
<1>14. Cat(Cat(P, P), E) = Cat(P, Cat(P, E)) /\ Cat(Cat(T, T), Ok) = Cat(T, Cat(T, Ok))
  BY <1>5, CatProperties
<1>15. Cat(Cat(R, Cat(R, Cat(R, R))), E) = Cat(R, Cat(R, Cat(R, Cat(R, E))))
  BY <1>5, CatProperties
<1>16. Cat(Cat(V, Cat(V, Cat(V, V))), Ok) = Cat(V, Cat(V, Cat(V, Cat(V, Ok))))
  BY <1>5, CatProperties
<1>17. /\ InTurn(Cat(Times(1, R), E), Cat(Times(1, V), Ok))
       /\ InTurn(Cat(Times(2, R), E), Cat(Times(2, V), Ok))
       /\ InTurn(Times(2, R), Times(2, V))
  BY <1>1, <1>2, <1>9, <1>10, <1>13
<1>18. InTurn(Cat(Times(4, R), E), Cat(Times(4, V), Ok))
  BY <1>1, <1>2, <1>11, <1>15, <1>16
<1>19. /\ InTurn(Cat(Times(1, P), E), Cat(Times(1, T), Ok))
       /\ InTurn(Cat(Times(2, P), E), Cat(Times(2, T), Ok))
  BY <1>3, <1>4, <1>9, <1>12, <1>14
<1> QED BY <1>17, <1>18, <1>19 DEF R, V, P, T

\* A call that goes on as the count says.
LEMMA CountCall ==
  ASSUME NEW c, c \notin Special, NEW kind, NEW W, NEW q, IsSeq(q),
         Firmware(c) = Cat(Reply(W), q), \A w \in W : Session(After(kind, w), q)
  PROVE  LET s == Command(c) \o Count(kind) IN s # <<>> /\ Session(s, <<>>)
<1> DEFINE x == [op |-> "count", arg |-> kind]
<1>1. Session(Count(kind), Firmware(c))
  BY CountAgrees DEF Cat
<1>2. Count(kind) = Cat(<<x>>, <<>>)
  BY OneIsSeq, CatProperties DEF Count
<1>3. x.op \in Reading
  BY DEF Reading
<1>4. Waits(Count(kind))
  BY <1>2, <1>3, WaitsForWord, EmptyIsSeq
<1>5. Firmware(c) # <<>>
  BY FirstAndRest DEF Reply, Cat
<1>6. IsSeq(Count(kind))
  BY <1>4 DEF Waits
<1> QED BY <1>1, <1>4, <1>5, <1>6, CommandAgrees, CommandFirst DEF Cat

\* A call that starts with its words, or with reading.
LEMMA BareCall ==
  ASSUME NEW c, c \notin Special, NEW s, NEW q, InTurn(s, q), Firmware(c) = q, q # <<>>
  PROVE  LET r == Command(c) \o s IN r # <<>> /\ Session(r, <<>>)
BY CommandAgrees, CommandFirst DEF InTurn, Cat

\* A call that is acknowledged first.
LEMMA AckedCall ==
  ASSUME NEW c, c \notin Special, NEW s, NEW q, IsSeq(s), IsSeq(q), Session(s, q),
         Firmware(c) = Ok \o q
  PROVE  LET r == CmdRetAck(c) \o s IN r # <<>> /\ Session(r, <<>>)
<1>1. PICK x : Expect(1) = <<x>> /\ Fits(x, {1})
  BY Accesses
<1>2. Session(Cat(Command(c), Cat(<<x>>, s)), <<>>)
  BY <1>1, Acknowledged DEF Cat
<1>3. IsSeq(Cat(<<x>>, s))
  BY <1>1, Single, CatProperties
<1>4. Cat(Cat(Command(c), <<x>>), s) = Cat(Command(c), Cat(<<x>>, s))
  BY <1>1, Single, CatProperties
<1>5. CmdRetAck(c) \o s = Cat(Cat(Command(c), <<x>>), s)
  BY <1>1 DEF CmdRetAck, Cat
<1> QED BY <1>2, <1>3, <1>4, <1>5, CommandFirst

LEMMA OwnFirmware ==
  /\ Firmware("BRDSTATUS") = Reply({Block}) \o Times(Block, Reply(Values))
  /\ Firmware("BRDEPRMRD") = Reply({Block}) \o Times(Block, Reply(Values)) \o Ok
  /\ Firmware("BRDEPRMWR") = Reply({1, Block}) \o Take("counted") \o Ok
  /\ Firmware("AOPUTBLOCK") = Reply({0, 1, Block}) \o Take("counted") \o Ok
  /\ Firmware("AICHLIST") = Ok \o Take("list") \o Ok
  /\ Firmware("DIO256WR_ALL") = Times(Block, Take("word")) \o Ok
  /\ Firmware("DIO256RD_ALL") = Times(Block, Reply(Values)) \o Ok
  /\ Firmware("DINSETINTRMASK") = Reply({Block}) \o Times(Block, Take("word")) \o Ok
  /\ Firmware("DINGETINTRDATA") = Reply({Block}) \o Times(2 * Block, Reply(Values)) \o Ok
  /\ Firmware("AIGETSAMPLES") = Ok \o Take("samples")
<1> USE DEF Firmware, WriteTwoCommands, ReadAtCommands, ValueCommands, AckCommands
<1>1. Firmware("BRDSTATUS") = Reply({Block}) \o Times(Block, Reply(Values))
  OBVIOUS
<1>2. Firmware("BRDEPRMRD") = Reply({Block}) \o Times(Block, Reply(Values)) \o Ok
  OBVIOUS
<1>3. Firmware("BRDEPRMWR") = Reply({1, Block}) \o Take("counted") \o Ok
  OBVIOUS
<1>4. Firmware("AOPUTBLOCK") = Reply({0, 1, Block}) \o Take("counted") \o Ok
  OBVIOUS
<1>5. Firmware("AICHLIST") = Ok \o Take("list") \o Ok
  OBVIOUS
<1>6. Firmware("DIO256WR_ALL") = Times(Block, Take("word")) \o Ok
  OBVIOUS
<1>7. Firmware("DIO256RD_ALL") = Times(Block, Reply(Values)) \o Ok
  OBVIOUS
<1>8. Firmware("DINSETINTRMASK") = Reply({Block}) \o Times(Block, Take("word")) \o Ok
  OBVIOUS
<1>9. Firmware("DINGETINTRDATA") = Reply({Block}) \o Times(2 * Block, Reply(Values)) \o Ok
  OBVIOUS
<1>10. Firmware("AIGETSAMPLES") = Ok \o Take("samples")
  OBVIOUS
<1> QED BY <1>1, <1>2, <1>3, <1>4, <1>5, <1>6, <1>7, <1>8, <1>9, <1>10

LEMMA TwiceIsSeq ==
  /\ \A W : IsSeq(Times(2, Reply(W))) /\ IsSeq(Times(4, Reply(W)))
  /\ \A w : IsSeq(Times(2, Write(w)))
  /\ \A what : IsSeq(Times(2, Take(what)))
  /\ IsSeq(Times(2, Read)) /\ IsSeq(Times(4, Read))
<1>1. ASSUME NEW x PROVE IsSeq(Times(2, <<x>>)) /\ IsSeq(Times(4, <<x>>))
  <2> DEFINE a == <<x>>
  <2>1. IsSeq(a) /\ Times(2, a) = Cat(a, a) /\ Times(4, a) = Cat(a, Cat(a, Cat(a, a)))
    BY TwiceAndSo, OneIsSeq DEF Cat
  <2> HIDE DEF a
  <2>2. IsSeq(Times(2, a)) /\ IsSeq(Times(4, a))
    BY <2>1, CatProperties
  <2> QED BY <2>2 DEF a
<1> QED BY <1>1 DEF Reply, Write, Take, Read

\* The words of a block, of which the header says how many.
LEMMA WordsInTurn ==
  ASSUME NEW n \in 0 .. 2
  PROVE  InTurn(Cat(Times(n, Write(Param)), Expect(1)), Cat(Follow(n, "word"), Ok))
<1>1. CASE n = 0
  <2>1. Times(0, Write(Param)) = <<>>
    BY TwiceAndSo DEF Write
  <2>2. Follow(0, "word") = <<>>
    BY DEF Follow
  <2> QED BY <1>1, <2>1, <2>2, LastInTurn, Single, CatProperties
<1>2. CASE n # 0
  <2>1. Follow(n, "word") = Times(n, Take("word"))
    BY <1>2 DEF Follow
  <2>2. n = 1 \/ n = 2
    BY <1>2
  <2> QED BY <2>1, <2>2, BlockInTurn
<1> QED BY <1>1, <1>2

\* A word that says what follows it.
LEMMA HeaderAgrees ==
  ASSUME NEW w, NEW what \in Takeable, NEW s, NEW r, NEW q, IsSeq(q),
         Taken(what, w) = {r}, InTurn(s, Cat(r, q))
  PROVE  Session(Cat(Write(w), s), Cat(Take(what), q))
<1>1. \A r1 \in Taken(what, w) : Session(s, r1 \o q)
  BY DEF InTurn, Cat
<1> QED BY <1>1, WriteAgrees DEF InTurn, Cat

LEMMA WritesAgree ==
  ASSUME NEW n \in 0 .. 2 PROVE Session(Writes(n), Cat(Take("counted"), Ok))
<1> DEFINE T == Times(n, Write(Param))
<1>1. IsSeq(T)
  <2>1. Times(0, Write(Param)) = <<>> /\ Times(1, Write(Param)) = Write(Param)
    BY TwiceAndSo DEF Write
  <2>2. IsSeq(Times(0, Write(Param))) /\ IsSeq(Times(1, Write(Param)))
    BY <2>1, EmptyIsSeq, Single
  <2>3. n = 0 \/ n = 1 \/ n = 2
    OBVIOUS
  <2> QED BY <2>2, <2>3, TwiceIsSeq
<1>2. Taken("counted", n) = {Follow(n, "word")}
  BY DEF Taken
<1>3. Session(Cat(Write(n), Cat(T, Expect(1))), Cat(Take("counted"), Ok))
  BY <1>2, WordsInTurn, HeaderAgrees, Single DEF Takeable
<1>4. Writes(n) = Cat(Cat(Write(n), T), Expect(1))
  BY DEF Writes, Cat
<1> HIDE DEF T
<1>5. Writes(n) = Cat(Write(n), Cat(T, Expect(1)))
  BY <1>1, <1>4, Single, CatProperties
<1> QED BY <1>3, <1>5 DEF T

\* The calls that read or write as much as the board says.
LEMMA CountCalls ==
  \A s \in {pd_adapter_get_board_status, pd_adapter_eeprom_read, pd_adapter_eeprom_write,
            pd_aout_put_block, pd_dio256_setIntrMask, pd_dio256_getIntrData} :
    s # <<>> /\ Session(s, <<>>)
<1> DEFINE Done(s) == s # <<>> /\ Session(s, <<>>)
<1>1. Done(pd_adapter_get_board_status)
  <2> DEFINE q == Times(2, Reply(Values))
  <2>1. Firmware("BRDSTATUS") = Cat(Reply({2}), q)
    BY OwnFirmware DEF Block, Cat
  <2>2. \A w \in {2} : Session(After("status", w), q)
    <3>1. After("status", 2) = Times(2, Read)
      BY DEF After, Block
    <3> QED BY <3>1, BlockInTurn DEF InTurn
  <2>3. IsSeq(q)
    BY TwiceIsSeq
  <2> HIDE DEF q
  <2> QED BY <2>1, <2>2, <2>3, CountCall DEF pd_adapter_get_board_status, Special
<1>2. Done(pd_adapter_eeprom_read)
  <2> DEFINE q == Cat(Times(2, Reply(Values)), Ok)
  <2>1. Firmware("BRDEPRMRD") = Cat(Cat(Reply({2}), Times(2, Reply(Values))), Ok)
    BY OwnFirmware DEF Block, Cat
  <2>2. Firmware("BRDEPRMRD") = Cat(Reply({2}), q) /\ IsSeq(q)
    BY <2>1, CatProperties, Single, TwiceIsSeq
  <2>3. \A w \in {2} : Session(After("eeprom", w), q)
    <3>1. After("eeprom", 2) = Cat(Times(2, Read), Expect(1))
      BY DEF After, Block, Cat
    <3> QED BY <3>1, BlockInTurn DEF InTurn
  <2> HIDE DEF q
  <2> QED BY <2>2, <2>3, CountCall DEF pd_adapter_eeprom_read, Special
<1>3. Done(pd_adapter_eeprom_write)
  <2> DEFINE q == Cat(Take("counted"), Ok)
  <2>1. Firmware("BRDEPRMWR") = Cat(Cat(Reply({1, 2}), Take("counted")), Ok)
    BY OwnFirmware DEF Block, Cat
  <2>2. Firmware("BRDEPRMWR") = Cat(Reply({1, 2}), q) /\ IsSeq(q)
    BY <2>1, CatProperties, Single
  <2>3. \A w \in {1, 2} : Session(After("epromwrite", w), q)
    <3>1. After("epromwrite", 1) = Writes(1) /\ After("epromwrite", 2) = Writes(2)
      BY DEF After, Block
    <3> QED BY <3>1, WritesAgree
  <2> HIDE DEF q
  <2> QED BY <2>2, <2>3, CountCall DEF pd_adapter_eeprom_write, Special
<1>4. Done(pd_aout_put_block)
  <2> DEFINE q == Cat(Take("counted"), Ok)
  <2>1. Firmware("AOPUTBLOCK") = Cat(Cat(Reply({0, 1, 2}), Take("counted")), Ok)
    BY OwnFirmware DEF Block, Cat
  <2>2. Firmware("AOPUTBLOCK") = Cat(Reply({0, 1, 2}), q) /\ IsSeq(q)
    BY <2>1, CatProperties, Single
  <2>3. \A w \in {0, 1, 2} : Session(After("block", w), q)
    <3>1. /\ After("block", 0) = Writes(0) /\ After("block", 1) = Writes(1)
          /\ After("block", 2) = Writes(2)
      BY DEF After, Block
    <3> QED BY <3>1, WritesAgree
  <2> HIDE DEF q
  <2> QED BY <2>2, <2>3, CountCall DEF pd_aout_put_block, Special
<1>5. Done(pd_dio256_setIntrMask)
  <2> DEFINE q == Cat(Times(2, Take("word")), Ok)
  <2>1. Firmware("DINSETINTRMASK") = Cat(Cat(Reply({2}), Times(2, Take("word"))), Ok)
    BY OwnFirmware DEF Block, Cat
  <2>2. Firmware("DINSETINTRMASK") = Cat(Reply({2}), q) /\ IsSeq(q)
    BY <2>1, CatProperties, Single, TwiceIsSeq
  <2>3. \A w \in {2} : Session(After("mask", w), q)
    <3>1. After("mask", 2) = Cat(Times(2, Write(Param)), Expect(1))
      BY DEF After, Cat
    <3> QED BY <3>1, BlockInTurn DEF InTurn
  <2> HIDE DEF q
  <2> QED BY <2>2, <2>3, CountCall DEF pd_dio256_setIntrMask, Special
<1>6. Done(pd_dio256_getIntrData)
  <2> DEFINE q == Cat(Times(4, Reply(Values)), Ok)
  <2>1. Firmware("DINGETINTRDATA") = Cat(Cat(Reply({2}), Times(4, Reply(Values))), Ok)
    <3>1. Firmware("DINGETINTRDATA") = Reply({Block}) \o Times(2 * Block, Reply(Values)) \o Ok
      BY OwnFirmware
    <3>2. Block = 2 /\ 2 * Block = 4
      BY DEF Block
    <3> QED BY <3>1, <3>2 DEF Cat
  <2>2. Firmware("DINGETINTRDATA") = Cat(Reply({2}), q) /\ IsSeq(q)
    BY <2>1, CatProperties, Single, TwiceIsSeq
  <2>3. \A w \in {2} : Session(After("edges", w), q)
    <3>1. After("edges", 2) = Cat(Times(4, Read), Expect(1))
      BY DEF After, Cat
    <3> QED BY <3>1, BlockInTurn DEF InTurn
  <2> HIDE DEF q
  <2> QED BY <2>2, <2>3, CountCall DEF pd_dio256_getIntrData, Special
<1> HIDE DEF Done
<1>7. \A s \in {pd_adapter_get_board_status, pd_adapter_eeprom_read, pd_adapter_eeprom_write,
                pd_aout_put_block, pd_dio256_setIntrMask, pd_dio256_getIntrData} : Done(s)
  BY <1>1, <1>2, <1>3, <1>4, <1>5, <1>6
<1> QED BY <1>7 DEF Done

\* The three uses of the channel list.
LEMMA ListCall ==
  ASSUME NEW w, NEW r, IsSeq(r), Taken("list", w) = {r}, NEW s, InTurn(s, Cat(r, Ok))
  PROVE  LET a == Cat(CmdRetAck("AICHLIST"), Cat(Write(w), s))
         IN  a # <<>> /\ Session(a, <<>>)
<1> DEFINE v == Cat(Write(w), s)
           q == Cat(Take("list"), Ok)
<1>1. Session(v, q)
  BY HeaderAgrees, Single DEF Takeable
<1>2. IsSeq(v) /\ IsSeq(q)
  BY Single, CatProperties DEF InTurn
<1>3. Firmware("AICHLIST") = Cat(Cat(Ok, Take("list")), Ok)
  BY OwnFirmware DEF Cat
<1>4. Firmware("AICHLIST") = Cat(Ok, q)
  BY <1>3, Single, CatProperties
<1> HIDE DEF v, q
<1>5. Cat(CmdRetAck("AICHLIST"), v) # <<>> /\ Session(Cat(CmdRetAck("AICHLIST"), v), <<>>)
  BY <1>1, <1>2, <1>4, AckedCall DEF Special, Cat
<1> QED BY <1>5 DEF v

LEMMA ListCalls ==
  \A s \in {pd_ain_set_channel_list, pd_ain_set_BM_ctr, pd_ain_get_BM_ctr} :
    s # <<>> /\ Session(s, <<>>)
<1> DEFINE Done(s) == s # <<>> /\ Session(s, <<>>)
           A == CmdRetAck("AICHLIST")
           E == Expect(1)
<1>1. IsSeq(A) /\ IsSeq(E)
  BY Single, CatProperties DEF CmdRetAck, Cat
<1>2. ASSUME NEW w, Taken("list", w) = {Times(2, Take("word"))}
      PROVE  Done(A \o Write(w) \o Times(2, Write(Param)) \o E)
  <2> DEFINE s == Cat(Times(2, Write(Param)), E)
  <2>1. InTurn(s, Cat(Times(2, Take("word")), Ok))
    BY BlockInTurn
  <2>2. Done(Cat(A, Cat(Write(w), s)))
    BY <1>2, <2>1, ListCall, TwiceIsSeq
  <2>3. A \o Write(w) \o Times(2, Write(Param)) \o E
          = Cat(Cat(Cat(A, Write(w)), Times(2, Write(Param))), E)
    BY DEF Cat
  <2> HIDE DEF A, E
  <2>4. Cat(Cat(Cat(A, Write(w)), Times(2, Write(Param))), E) = Cat(A, Cat(Write(w), s))
    BY <1>1, Regroup, Single, TwiceIsSeq
  <2> QED BY <2>2, <2>3, <2>4
<1>3. Follow(2, "word") = Times(2, Take("word"))
  BY DEF Follow
<1>4. Taken("list", 2) = {Times(2, Take("word"))}
  BY <1>3 DEF Taken, AIBM_GET, AIBM_SET
<1>5. Taken("list", AIBM_SET) = {Times(2, Take("word"))}
  BY <1>3 DEF Taken, AIBM_GET, AIBM_SET, Block
<1>6. Taken("list", AIBM_GET) = {Times(2, Reply(Values))}
  BY DEF Taken, AIBM_GET, AIBM_SET
<1>7. Done(pd_ain_set_channel_list)
  <2> HIDE DEF Done
  <2> QED BY <1>2, <1>4 DEF pd_ain_set_channel_list, Block
<1>8. Done(pd_ain_set_BM_ctr)
  <2> HIDE DEF Done
  <2> QED BY <1>2, <1>5 DEF pd_ain_set_BM_ctr, Block
<1>9. Done(pd_ain_get_BM_ctr)
  <2> DEFINE s == Cat(Times(2, Read), E)
  <2>1. InTurn(s, Cat(Times(2, Reply(Values)), Ok))
    BY BlockInTurn
  <2>2. Done(Cat(A, Cat(Write(AIBM_GET), s)))
    BY <1>6, <2>1, ListCall, TwiceIsSeq
  <2>3. pd_ain_get_BM_ctr = Cat(Cat(Cat(Cat(A, Write(AIBM_GET)), Read), Read), E)
    BY DEF pd_ain_get_BM_ctr, Cat
  <2>4. Times(2, Read) = Cat(Read, Read)
    BY TwiceAndSo DEF Read, Cat
  <2> HIDE DEF A, E
  <2>5. Cat(Cat(Cat(Cat(A, Write(AIBM_GET)), Read), Read), E)
          = Cat(A, Cat(Write(AIBM_GET), Cat(Read, Cat(Read, E))))
    BY <1>1, RegroupFive, Single
  <2>6. s = Cat(Read, Cat(Read, E))
    BY <1>1, <2>4, CatProperties, Single
  <2> HIDE DEF s
  <2> QED BY <2>2, <2>3, <2>5, <2>6
<1> HIDE DEF Done
<1>10. \A s \in {pd_ain_set_channel_list, pd_ain_set_BM_ctr, pd_ain_get_BM_ctr} : Done(s)
  BY <1>7, <1>8, <1>9
<1> QED BY <1>10 DEF Done

\* The two calls on all ports.
LEMMA PortsCalls ==
  \A s \in {pd_dio256_write_all, pd_dio256_read_all} : s # <<>> /\ Session(s, <<>>)
<1> DEFINE Done(s) == s # <<>> /\ Session(s, <<>>)
<1>1. ASSUME NEW c, c \notin Special, NEW a, NEW b, IsSeq(a), IsSeq(b), b # <<>>,
             InTurn(Cat(a, Expect(1)), Cat(b, Ok)), Firmware(c) = b \o Ok
      PROVE  Done(Command(c) \o a \o Expect(1))
  <2>1. b \o Ok # <<>>
    <3>1. PICK S : b \in Seq(S) /\ Ok \in Seq(S)
      BY <1>1, Single, CommonSet
    <3>2. Len(b \o Ok) = Len(b) + Len(Ok) /\ Len(b) \in Nat \ {0} /\ Len(Ok) \in Nat
      BY <1>1, <3>1, ConcatProperties, LenProperties, EmptySeq
    <3> QED BY <3>2, EmptyIsSeq
  <2>2. Done(Cat(Command(c), Cat(a, Expect(1))))
    <3> DEFINE s == Cat(a, Expect(1))
               q == Cat(b, Ok)
    <3>1. InTurn(s, q) /\ Firmware(c) = q /\ q # <<>>
      BY <1>1, <2>1 DEF Cat
    <3> HIDE DEF s, q
    <3>2. Done(Cat(Command(c), s))
      BY <1>1, <3>1, BareCall DEF Cat
    <3> QED BY <3>2 DEF s
  <2>3. Command(c) \o a \o Expect(1) = Cat(Cat(Command(c), a), Expect(1))
    BY DEF Cat
  <2>4. Cat(Cat(Command(c), a), Expect(1)) = Cat(Command(c), Cat(a, Expect(1)))
    BY <1>1, CatProperties, Single
  <2> QED BY <2>2, <2>3, <2>4
<1>2. ASSUME NEW x PROVE Times(2, <<x>>) # <<>>
  <2> DEFINE a == <<x>>
  <2>1. IsSeq(a) /\ Times(2, a) = <<x>> \o a
    BY TwiceAndSo, OneIsSeq
  <2> HIDE DEF a
  <2>2. <<x>> \o a # <<>>
    BY <2>1, FirstAndRest
  <2> QED BY <2>1, <2>2 DEF a
<1>3. Done(pd_dio256_write_all)
  <2>1. Firmware("DIO256WR_ALL") = Times(2, Take("word")) \o Ok
    BY OwnFirmware DEF Block
  <2>2. Times(2, Take("word")) # <<>>
    BY <1>2 DEF Take
  <2>3. Done(Command("DIO256WR_ALL") \o Times(2, Write(Param)) \o Expect(1))
    <3> HIDE DEF Done
    <3> QED BY <1>1, <2>1, <2>2, TwiceIsSeq, BlockInTurn DEF Special
  <2> QED BY <2>3 DEF pd_dio256_write_all, Block
<1>4. Done(pd_dio256_read_all)
  <2>1. Firmware("DIO256RD_ALL") = Times(2, Reply(Values)) \o Ok
    BY OwnFirmware DEF Block
  <2>2. Times(2, Reply(Values)) # <<>>
    BY <1>2 DEF Reply
  <2>3. Done(Command("DIO256RD_ALL") \o Times(2, Read) \o Expect(1))
    <3> HIDE DEF Done
    <3> QED BY <1>1, <2>1, <2>2, TwiceIsSeq, BlockInTurn DEF Special
  <2> QED BY <2>3 DEF pd_dio256_read_all, Block
<1> HIDE DEF Done
<1>5. \A s \in {pd_dio256_write_all, pd_dio256_read_all} : Done(s)
  BY <1>3, <1>4
<1> QED BY <1>5 DEF Done

\* The samples, as many as there are, and ErrRet.
LEMMA SamplesCalls ==
  \A s \in {pd_ain_get_samples, pd_ain_get_samples_ulong} : s # <<>> /\ Session(s, <<>>)
<1> DEFINE V == Reply(Values)
           F == Reply({ErrRet})
<1>1. \A n \in {1, 2, 3} : Session(Drain(n), F)
  <2> SUFFICES ASSUME NEW n \in {1, 2, 3} PROVE Session(Drain(n), F)
    OBVIOUS
  <2>1. \A w \in {ErrRet} : Session(AfterSample(n, w), <<>>)
    BY NothingAgrees DEF AfterSample
  <2>2. Session(Drain(n), Cat(F, <<>>))
    BY <2>1, DrainAgrees, EmptyIsSeq DEF Cat
  <2> QED BY <2>2, CatProperties, Single
<1>2. \A n \in {2, 3} : \A q : IsSeq(q) /\ Session(Drain(n - 1), q) => Session(Drain(n), Cat(V, q))
  <2> SUFFICES ASSUME NEW n \in {2, 3}, NEW q, IsSeq(q), Session(Drain(n - 1), q)
               PROVE  Session(Drain(n), Cat(V, q))
    OBVIOUS
  <2>1. \A w \in Values : AfterSample(n, w) = Drain(n - 1)
    BY DEF AfterSample, Values, Param, ErrRet
  <2> QED BY <2>1, DrainAgrees DEF Cat
<1>3. IsSeq(V) /\ IsSeq(F)
  BY Single
<1>4. /\ Times(0, V) = <<>> /\ Times(1, V) = V /\ Times(2, V) = Cat(V, V)
  BY TwiceAndSo DEF Reply, Cat
<1> HIDE DEF V, F
<1>5. ASSUME NEW n \in 0 .. 2
      PROVE  Session(Drain(3), Cat(Times(n, V), F)) /\ IsSeq(Cat(Times(n, V), F))
  <2>1. CASE n = 0
    BY <1>1, <1>3, <1>4, <2>1, CatProperties
  <2>2. CASE n = 1
    <3>1. 2 = 3 - 1
      OBVIOUS
    <3> QED BY <1>1, <1>2, <1>3, <1>4, <2>2, <3>1, CatProperties
  <2>3. CASE n = 2
    <3>1. 2 = 3 - 1 /\ 1 = 2 - 1
      OBVIOUS
    <3>2. Session(Drain(2), Cat(V, F)) /\ IsSeq(Cat(V, F))
      BY <1>1, <1>2, <1>3, <3>1, CatProperties
    <3>3. Session(Drain(3), Cat(V, Cat(V, F)))
      BY <1>2, <3>1, <3>2
    <3>4. Cat(Times(n, V), F) = Cat(V, Cat(V, F))
      BY <1>3, <1>4, <2>3, CatProperties
    <3> QED BY <1>3, <3>2, <3>3, <3>4, CatProperties
  <2> QED BY <2>1, <2>2, <2>3
<1>6. \A r \in Taken("samples", 2) : Session(Drain(3), Cat(r, <<>>))
  <2>1. Taken("samples", 2) = {Cat(Times(n, V), F) : n \in 0 .. 2}
    BY DEF Taken, V, F, Cat, Block
  <2> SUFFICES ASSUME NEW n \in 0 .. 2
               PROVE  Session(Drain(3), Cat(Cat(Times(n, V), F), <<>>))
    BY <2>1
  <2> QED BY <1>5, CatProperties
<1>7. IsSeq(Drain(3)) /\ Ongoing(Drain(3))
  <2> DEFINE x == [op |-> "drain", arg |-> 3]
  <2>1. Drain(3) = Cat(<<x>>, <<>>)
    BY OneIsSeq, CatProperties DEF Drain
  <2>2. x.op \in Reading
    BY DEF Reading
  <2> HIDE DEF x
  <2> QED BY <2>1, <2>2, WaitsForWord, EmptyIsSeq, OneIsSeq, CatProperties
<1> DEFINE v == Cat(Write(2), Drain(3))
           q == Cat(Take("samples"), <<>>)
<1>8. Session(v, q)
  BY <1>6, <1>7, WriteAgrees, EmptyIsSeq DEF Takeable, Cat
<1>9. IsSeq(v) /\ IsSeq(q) /\ q = Take("samples")
  BY <1>7, Single, CatProperties, EmptyIsSeq
<1> HIDE DEF v, q
<1>10. Firmware("AIGETSAMPLES") = Ok \o q
  BY <1>9, OwnFirmware
<1>11. CmdRetAck("AIGETSAMPLES") \o v # <<>> /\ Session(CmdRetAck("AIGETSAMPLES") \o v, <<>>)
  BY <1>8, <1>9, <1>10, AckedCall DEF Special
<1>12. IsSeq(CmdRetAck("AIGETSAMPLES"))
  BY Single, CatProperties DEF CmdRetAck, Cat
<1>13. Cat(Cat(CmdRetAck("AIGETSAMPLES"), Write(2)), Drain(3)) = CmdRetAck("AIGETSAMPLES") \o v
  <2>1. Cat(Cat(CmdRetAck("AIGETSAMPLES"), Write(2)), Drain(3)) = Cat(CmdRetAck("AIGETSAMPLES"), v)
    BY <1>7, <1>12, Single, CatProperties DEF v
  <2> QED BY <2>1 DEF Cat
<1>14. /\ pd_ain_get_samples = Cat(Cat(CmdRetAck("AIGETSAMPLES"), Write(2)), Drain(3))
       /\ pd_ain_get_samples_ulong = Cat(Cat(CmdRetAck("AIGETSAMPLES"), Write(2)), Drain(3))
  BY DEF pd_ain_get_samples, pd_ain_get_samples_ulong, Block, Cat
<1> QED BY <1>11, <1>13, <1>14
-----------------------------------------------------------------------------
(* All the calls.                                                          *)

Callable(s) == s # <<>> /\ Session(s, <<>>)

AllCallable(a) == IsSeq(a) /\ \A n \in 1 .. Len(a) : Callable(a[n])

LEMMA AllOfBoth ==
  ASSUME NEW a, NEW b, AllCallable(a), AllCallable(b) PROVE AllCallable(a \o b)
<1>1. PICK S : a \in Seq(S) /\ b \in Seq(S)
  BY CommonSet DEF AllCallable
<1>2. /\ IsSeq(a \o b) /\ Len(a \o b) = Len(a) + Len(b) /\ Len(a) \in Nat /\ Len(b) \in Nat
      /\ \A i \in 1 .. Len(a) + Len(b) :
           (a \o b)[i] = IF i <= Len(a) THEN a[i] ELSE b[i - Len(a)]
  BY <1>1, ConcatProperties, LenProperties DEF IsSeq
<1>3. ASSUME NEW n \in 1 .. Len(a) + Len(b) PROVE Callable((a \o b)[n])
  <2>1. CASE n <= Len(a)
    BY <1>2, <2>1 DEF AllCallable
  <2>2. CASE ~(n <= Len(a))
    <3>1. n - Len(a) \in 1 .. Len(b)
      BY <1>2, <2>2
    <3> QED BY <1>2, <2>2, <3>1 DEF AllCallable
  <2> QED BY <2>1, <2>2
<1> QED BY <1>2, <1>3 DEF AllCallable

LEMMA OrdinaryCalls ==
  /\ \A c \in AckCommands : Callable(CmdRetAck(c))
  /\ \A c \in ValueCommands : Callable(CmdRetValue(c))
  /\ \A c \in PlainCommands : Callable(CmdWriteAck(c)) /\ Callable(CmdRetValue(c) \o WriteAck(Param))
  /\ \A c \in ReadAtCommands : Callable(ReadAt(c))
  /\ \A c \in WriteTwoCommands : Callable(WriteTwo(c))
  /\ \A c \in WriteThreeCommands : Callable(WriteThree(c))
BY RoundAlone, AckRound, ValueRound, PlainRounds, ReadAtRounds, WriteTwoRounds, WriteThreeRound
   DEF Callable

LEMMA OwnCalls ==
  \A s \in {pd_adapter_get_board_status, pd_adapter_eeprom_read, pd_adapter_eeprom_write,
            pd_aout_put_block, pd_dio256_setIntrMask, pd_dio256_getIntrData,
            pd_ain_set_channel_list, pd_ain_set_BM_ctr, pd_ain_get_BM_ctr,
            pd_dio256_write_all, pd_dio256_read_all,
            pd_ain_get_samples, pd_ain_get_samples_ulong} : Callable(s)
BY CountCalls, ListCalls, PortsCalls, SamplesCalls DEF Callable

LEMMA OneOfThem ==
  ASSUME NEW a, a \in Seq({a[n] : n \in 1 .. Len(a)}), \A n \in 1 .. Len(a) : Callable(a[n])
  PROVE  AllCallable(a)
BY DEF AllCallable, IsSeq

LEMMA BoardCallable == AllCallable(BoardCalls)
<1>1. /\ Callable(pd_adapter_enable_interrupt) /\ Callable(pd_adapter_set_board_event1)
      /\ Callable(pd_adapter_set_board_event2) /\ Callable(pd_cal_dac_write)
  BY OrdinaryCalls DEF PlainCommands, pd_adapter_enable_interrupt,
       pd_adapter_set_board_event1, pd_adapter_set_board_event2, pd_cal_dac_write
<1>2. /\ Callable(pd_adapter_get_board_status) /\ Callable(pd_adapter_eeprom_read)
      /\ Callable(pd_adapter_eeprom_write)
  BY OwnCalls
<1>3. BoardCalls \in Seq({BoardCalls[n] : n \in 1 .. Len(BoardCalls)})
  BY DEF BoardCalls
<1>4. \A n \in 1 .. Len(BoardCalls) : Callable(BoardCalls[n])
  BY <1>1, <1>2 DEF BoardCalls
<1> QED BY <1>3, <1>4, OneOfThem

LEMMA DigitalCallable == AllCallable(DigitalCalls)
<1>1. /\ Callable(pd_din_set_config) /\ Callable(pd_din_set_event)
      /\ Callable(pd_din_clear_events) /\ Callable(pd_dout_write_outputs)
      /\ Callable(pd_dio256_intrEnable)
  BY OrdinaryCalls DEF PlainCommands, pd_din_set_config, pd_din_set_event,
       pd_din_clear_events, pd_dout_write_outputs, pd_dio256_intrEnable
<1>2. Callable(pd_din_read_inputs) /\ Callable(pd_din_status)
  BY OrdinaryCalls DEF ValueCommands, pd_din_read_inputs, pd_din_status
<1>3. Callable(pd_din_clear_data) /\ Callable(pd_din_reset)
  BY OrdinaryCalls DEF AckCommands, pd_din_clear_data, pd_din_reset
<1>4. Callable(pd_dio256_write_output) /\ Callable(pd_dsp_reg_write)
  BY OrdinaryCalls DEF WriteTwoCommands, pd_dio256_write_output, pd_dsp_reg_write
<1>5. Callable(pd_dio256_read_input) /\ Callable(pd_dsp_reg_read)
  BY OrdinaryCalls DEF ReadAtCommands, pd_dio256_read_input, pd_dsp_reg_read
<1>6. Callable(pd_dio_dmaSet)
  BY OrdinaryCalls DEF WriteThreeCommands, pd_dio_dmaSet
<1>7. /\ Callable(pd_dio256_write_all) /\ Callable(pd_dio256_read_all)
      /\ Callable(pd_dio256_setIntrMask) /\ Callable(pd_dio256_getIntrData)
  BY OwnCalls
<1>8. DigitalCalls \in Seq({DigitalCalls[n] : n \in 1 .. Len(DigitalCalls)})
  BY DEF DigitalCalls
<1>9. \A n \in 1 .. Len(DigitalCalls) : Callable(DigitalCalls[n])
  BY <1>1, <1>2, <1>3, <1>4, <1>5, <1>6, <1>7 DEF DigitalCalls
<1> QED BY <1>8, <1>9, OneOfThem

LEMMA PortCallable == AllCallable(PortCalls)
<1>1. /\ Callable(pd_ao96_writex) /\ Callable(pd_ao96_write)
      /\ Callable(pd_ao96_write_hold) /\ Callable(pd_ao96_set_update_channel)
      /\ Callable(pd_ao32_write) /\ Callable(pd_ao32_write_hold)
      /\ Callable(pd_dio_write) /\ Callable(pd_dio_latch_enable)
  BY OrdinaryCalls DEF WriteTwoCommands, pd_dio256_write_output, pd_ao96_writex,
       pd_ao96_write, pd_ao96_write_hold, pd_ao96_set_update_channel, pd_ao32_write,
       pd_ao32_write_hold, pd_dio_write, pd_dio_latch_enable
<1>2. /\ Callable(pd_ao96_update) /\ Callable(pd_ao32_update)
      /\ Callable(pd_ao32_set_update_channel) /\ Callable(pd_dio_latch_all)
      /\ Callable(pd_dio_simple_read) /\ Callable(pd_dio_read)
  BY OrdinaryCalls DEF ReadAtCommands, pd_dio256_read_input, pd_ao96_update,
       pd_ao32_update, pd_ao32_set_update_channel, pd_dio_latch_all,
       pd_dio_simple_read, pd_dio_read
<1>3. /\ Callable(pd_dio_reset) /\ Callable(pd_dio_enable_output)
      /\ Callable(pd_dio_prop_enable)
  <2>1. Round(NotedWrite("DIO256WR"))
    BY WriteTwoRounds DEF WriteTwoCommands
  <2>2. Round(Cat(NotedWrite("DIO256WR"), NotedWrite("DIO256WR")))
    BY <2>1, RoundAfterRound
  <2> QED BY <2>2, RoundAlone
          DEF Callable, Cat, pd_dio_reset, pd_dio_enable_output, pd_dio_prop_enable
<1>4. Callable(pd_ao96_reset) /\ Callable(pd_ao32_reset)
  <2>1. Round(NotedRead("DIO256RD")) /\ Round(NotedWrite("DIO256WR"))
    BY ReadAtRounds, WriteTwoRounds DEF ReadAtCommands, WriteTwoCommands
  <2>2. Round(Cat(Cat(NotedRead("DIO256RD"), NotedWrite("DIO256WR")), NotedWrite("DIO256WR")))
    BY <2>1, RoundAfterRound
  <2> QED BY <2>2, RoundAlone DEF Callable, Cat, pd_ao96_reset, pd_ao32_reset
<1>5. Callable(pd_ao32_writex)
  <2>1. Round(WriteOrNot("DIO256WR")) /\ Round(pd_dio256_read_input)
    BY ReadAtRounds, WriteTwoRounds
       DEF ReadAtCommands, WriteTwoCommands, pd_dio256_read_input
  <2>2. Round(Cat(WriteOrNot("DIO256WR"), pd_dio256_read_input))
    BY <2>1, RoundAfterRound
  <2> QED BY <2>2, RoundAlone DEF Callable, Cat, pd_ao32_writex
<1>6. PortCalls \in Seq({PortCalls[n] : n \in 1 .. Len(PortCalls)})
  BY DEF PortCalls
<1>7. \A n \in 1 .. Len(PortCalls) : Callable(PortCalls[n])
  BY <1>1, <1>2, <1>3, <1>4, <1>5 DEF PortCalls
<1> QED BY <1>6, <1>7, OneOfThem

LEMMA CounterCallable == AllCallable(CounterCalls)
<1>1. /\ Callable(pd_uct_set_config) /\ Callable(pd_uct_set_event)
      /\ Callable(pd_uct_clear_event) /\ Callable(pd_uct_write)
      /\ Callable(pd_uct_set_sw_gate)
  BY OrdinaryCalls DEF PlainCommands, pd_uct_set_config, pd_uct_set_event,
       pd_uct_clear_event, pd_uct_write, pd_uct_set_sw_gate
<1>2. Callable(pd_uct_get_status)
  BY OrdinaryCalls DEF ValueCommands, pd_uct_get_status
<1>3. Callable(pd_uct_read)
  BY OrdinaryCalls DEF ReadAtCommands, pd_uct_read
<1>4. Callable(pd_uct_sw_strobe) /\ Callable(pd_uct_reset)
  BY OrdinaryCalls DEF AckCommands, pd_uct_sw_strobe, pd_uct_reset
<1>5. CounterCalls \in Seq({CounterCalls[n] : n \in 1 .. Len(CounterCalls)})
  BY DEF CounterCalls
<1>6. \A n \in 1 .. Len(CounterCalls) : Callable(CounterCalls[n])
  BY <1>1, <1>2, <1>3, <1>4 DEF CounterCalls
<1> QED BY <1>5, <1>6, OneOfThem

LEMMA DspCounterCallable == AllCallable(DspCounterCalls)
<1>1. /\ Callable(pd_dspct_load) /\ Callable(pd_dspct_enable_counter)
      /\ Callable(pd_dspct_enable_interrupts)
  <2>1. /\ Round(ReadOrNot("BRDREGRD")) /\ Round(WriteOrNot("BRDREGWR"))
        /\ Round(pd_dsp_reg_write)
    BY ReadAtRounds, WriteTwoRounds DEF ReadAtCommands, WriteTwoCommands, pd_dsp_reg_write
  <2>2. Round(Cat(Cat(Cat(ReadOrNot("BRDREGRD"), WriteOrNot("BRDREGWR")),
                      WriteOrNot("BRDREGWR")), pd_dsp_reg_write))
    BY <2>1, RoundAfterRound
  <2>3. Round(Cat(ReadOrNot("BRDREGRD"), pd_dsp_reg_write))
    BY <2>1, RoundAfterRound
  <2> QED BY <2>2, <2>3, RoundAlone
          DEF Callable, Cat, pd_dspct_load, pd_dspct_enable_counter, pd_dspct_enable_interrupts
<1>2. /\ Callable(pd_dspct_get_count) /\ Callable(pd_dspct_get_compare)
      /\ Callable(pd_dspct_get_status) /\ Callable(pd_dsp_PS_get_count)
  BY OrdinaryCalls DEF ReadAtCommands, pd_dsp_reg_read, pd_dspct_get_count,
       pd_dspct_get_compare, pd_dspct_get_status, pd_dsp_PS_get_count
<1>3. /\ Callable(pd_dspct_set_compare) /\ Callable(pd_dspct_set_load)
      /\ Callable(pd_dspct_set_status) /\ Callable(pd_dsp_PS_load)
  BY OrdinaryCalls DEF WriteTwoCommands, pd_dsp_reg_write, pd_dspct_set_compare,
       pd_dspct_set_load, pd_dspct_set_status, pd_dsp_PS_load
<1>4. DspCounterCalls \in Seq({DspCounterCalls[n] : n \in 1 .. Len(DspCounterCalls)})
  BY DEF DspCounterCalls
<1>5. \A n \in 1 .. Len(DspCounterCalls) : Callable(DspCounterCalls[n])
  BY <1>1, <1>2, <1>3 DEF DspCounterCalls
<1> QED BY <1>4, <1>5, OneOfThem

LEMMA AInCallable == AllCallable(AInCalls)
<1>1. /\ Callable(pd_ain_set_cv_clock) /\ Callable(pd_ain_set_cl_clock)
      /\ Callable(pd_ain_set_events) /\ Callable(pd_ain_set_enable_conversion)
      /\ Callable(pd_ain_set_ssh_gain) /\ Callable(pd_ain_set_xfer_size)
  BY OrdinaryCalls DEF PlainCommands, pd_ain_set_cv_clock, pd_ain_set_cl_clock,
       pd_ain_set_events, pd_ain_set_enable_conversion, pd_ain_set_ssh_gain,
       pd_ain_set_xfer_size
<1>2. Callable(pd_ain_get_status) /\ Callable(pd_ain_get_value)
  BY OrdinaryCalls DEF ValueCommands, pd_ain_get_status, pd_ain_get_value
<1>3. /\ Callable(pd_ain_sw_start_trigger) /\ Callable(pd_ain_sw_stop_trigger)
      /\ Callable(pd_ain_reset) /\ Callable(pd_ain_sw_cl_start)
      /\ Callable(pd_ain_sw_cv_start) /\ Callable(pd_ain_reset_cl)
      /\ Callable(pd_ain_clear_data)
  BY OrdinaryCalls DEF AckCommands, pd_ain_sw_start_trigger, pd_ain_sw_stop_trigger,
       pd_ain_reset, pd_ain_sw_cl_start, pd_ain_sw_cv_start, pd_ain_reset_cl,
       pd_ain_clear_data
<1>4. Callable(pd_ain_set_config)
  BY OrdinaryCalls DEF WriteThreeCommands, pd_ain_set_config
<1>5. /\ Callable(pd_ain_set_channel_list) /\ Callable(pd_ain_set_BM_ctr)
      /\ Callable(pd_ain_get_BM_ctr) /\ Callable(pd_ain_get_samples)
      /\ Callable(pd_ain_get_samples_ulong)
  BY OwnCalls
<1>6. AInCalls \in Seq({AInCalls[n] : n \in 1 .. Len(AInCalls)})
  BY DEF AInCalls
<1>7. \A n \in 1 .. Len(AInCalls) : Callable(AInCalls[n])
  BY <1>1, <1>2, <1>3, <1>4, <1>5 DEF AInCalls
<1> QED BY <1>6, <1>7, OneOfThem

LEMMA AOutCallable == AllCallable(AOutCalls)
<1>1. Callable(pd_aout_set_config)
  BY OrdinaryCalls DEF WriteTwoCommands, pd_aout_set_config
<1>2. /\ Callable(pd_aout_set_cv_clk) /\ Callable(pd_aout_set_events)
      /\ Callable(pd_aout_set_enable_conversion) /\ Callable(pd_aout_put_value)
  BY OrdinaryCalls DEF PlainCommands, pd_aout_set_cv_clk, pd_aout_set_events,
       pd_aout_set_enable_conversion, pd_aout_put_value
<1>3. Callable(pd_aout_get_status)
  BY OrdinaryCalls DEF ValueCommands, pd_aout_get_status
<1>4. /\ Callable(pd_aout_sw_start_trigger) /\ Callable(pd_aout_sw_stop_trigger)
      /\ Callable(pd_aout_sw_cv_start) /\ Callable(pd_aout_clear_data)
      /\ Callable(pd_aout_reset)
  BY OrdinaryCalls DEF AckCommands, pd_aout_sw_start_trigger, pd_aout_sw_stop_trigger,
       pd_aout_sw_cv_start, pd_aout_clear_data, pd_aout_reset
<1>5. Callable(pd_aout_dmaSet)
  BY OrdinaryCalls DEF WriteThreeCommands, pd_aout_dmaSet
<1>6. Callable(pd_aout_put_block)
  BY OwnCalls
<1>7. AOutCalls \in Seq({AOutCalls[n] : n \in 1 .. Len(AOutCalls)})
  BY DEF AOutCalls
<1>8. \A n \in 1 .. Len(AOutCalls) : Callable(AOutCalls[n])
  BY <1>1, <1>2, <1>3, <1>4, <1>5, <1>6 DEF AOutCalls
<1> QED BY <1>7, <1>8, OneOfThem

LEMMA EventCallable == AllCallable(EventCalls)
<1>1. Callable(pd_enable_events) /\ Callable(pd_disable_events)
  <2>1. /\ Round(EventOrNot("BRDSETEVNTS1")) /\ Round(EventOrNot("BRDSETEVNTS2"))
        /\ Round(EventOrNot("AISETEVNT")) /\ Round(pd_aout_set_events)
    BY PlainRounds DEF PlainCommands, pd_aout_set_events
  <2>2. Round(Cat(Cat(Cat(EventOrNot("BRDSETEVNTS1"), EventOrNot("BRDSETEVNTS2")),
                      EventOrNot("AISETEVNT")), pd_aout_set_events))
    BY <2>1, RoundAfterRound
  <2> QED BY <2>2, RoundAlone
          DEF Callable, Cat, pd_enable_events, pd_disable_events, EventRegisters
<1>2. Callable(pd_init_calibration)
  <2>1. Round(EventOrNot("CALDACWRITE"))
    BY PlainRounds DEF PlainCommands
  <2>2. Round(Cat(EventOrNot("CALDACWRITE"), EventOrNot("CALDACWRITE")))
    BY <2>1, RoundAfterRound
  <2> QED BY <2>2, RoundAlone DEF Callable, Cat, pd_init_calibration
<1>3. EventCalls \in Seq({EventCalls[n] : n \in 1 .. Len(EventCalls)})
  BY DEF EventCalls
<1>4. \A n \in 1 .. Len(EventCalls) : Callable(EventCalls[n])
  BY <1>1, <1>2 DEF EventCalls
<1> QED BY <1>3, <1>4, OneOfThem

\* Whatever the firmware is: every call of the driver agrees with the DSP.
LEMMA EveryCallAgrees ==
  \A n \in DOMAIN AllCalls : AllCalls[n] # <<>> /\ Session(AllCalls[n], <<>>)
<1>1. AllCallable(AllCalls)
  BY BoardCallable, DigitalCallable, PortCallable, CounterCallable, DspCounterCallable,
     AInCallable, AOutCallable, EventCallable, AllOfBoth DEF AllCalls
<1>2. DOMAIN AllCalls = 1 .. Len(AllCalls)
  BY <1>1 DEF AllCallable, IsSeq
<1> QED BY <1>1, <1>2 DEF AllCallable, Callable
-----------------------------------------------------------------------------
(* The theorems.                                                           *)

\* An accepted start leaves nothing under way.  That is the part of InStep about
\* the start, which hangs on the words of the firmware; TLC checks it.
StartsInStep == [][Accepted => Quiet']_vars

LEMMA InStepInit == Init => InStepIInv
<1> SUFFICES ASSUME Init PROVE InStepIInv
  OBVIOUS
<1>1. IsSeq(down) /\ IsSeq(up)
  BY EmptyIsSeq DEF Init
<1>2. task = "absent" /\ script = <<>>
  BY DEF Init
<1> QED BY <1>1, <1>2 DEF InStepIInv, Init, NoCommand, NoWork

LEMMA InStepInvariant == Spec /\ StartsInStep => []InStepIInv
<1>1. InStepIInv /\ [Next]_vars /\ [Accepted => Quiet']_vars => InStepIInv'
  <2> SUFFICES ASSUME InStepIInv, [Next]_vars, [Accepted => Quiet']_vars PROVE InStepIInv'
    OBVIOUS
  <2>1. Accepted => Quiet'
    BY DEF Accepted, vars, host
  <2> QED BY <2>1, InStepStep, EveryCallAgrees
<1> QED BY <1>1, InStepInit, PTL DEF Spec, StartsInStep

\* When every accepted start leaves the driver and the DSP in step, they are in
\* step between any two calls until a wait times out, whichever functions of the
\* firmware interface are called (pdl_brd.c, pdl_dio.c, pdl_dao.c, pdl_uct.c,
\* pdl_dspuct.c, pdl_ain.c, pdl_ao.c, pdl_event.c); and the other way round.
THEOREM InStepCorrect == Spec => (StartsInStep <=> []InStep)
<1>1. InStepIInv => InStep
  BY DEF InStepIInv, InStep
<1>2. InStep' /\ [Next]_vars => [Accepted => Quiet']_vars
  <2> SUFFICES ASSUME InStep', [Next]_vars, Accepted PROVE Quiet'
    OBVIOUS
  <2>1. Return
    BY TaskChanges DEF Accepted, Start, Unload, Call, Begin
  <2>2. late' = FALSE
    BY <2>1 DEF Return, Accepted
  <2> QED BY <2>2 DEF InStep, Accepted
<1>3. Spec /\ StartsInStep => []InStep
  BY <1>1, InStepInvariant, PTL
<1>4. Spec /\ []InStep => StartsInStep
  BY <1>2, PTL DEF Spec, StartsInStep
<1> QED BY <1>3, <1>4

\* Until a wait times out, no word that one call sent or asked for is taken for
\* another call's (pd_dsp_read and pd_dsp_write tell no words apart).
THEOREM NoMixingCorrect == Spec /\ StartsInStep => []NoMixing
<1>1. InStepIInv => NoMixing
  BY DEF InStepIInv, Conversing, NoMixing
<1> QED BY <1>1, InStepInvariant, PTL

\* A call whose result is FALSE had a wait that timed out: no comparison of an
\* acknowledgement, a count or an echo fails otherwise.
THEOREM FailsOnlyLateCorrect == Spec /\ StartsInStep => FailsOnlyLate
<1>1. InStepIInv => (task = "calling" /\ task' = "attached" /\ ~late => result)
  BY DEF InStepIInv, Conversing
<1>2. InStepIInv => [task = "calling" /\ task' = "attached" /\ ~late => result]_vars
  BY <1>1
<1> QED BY <1>2, InStepInvariant, PTL DEF FailsOnlyLate
=============================================================================
