---- MODULE ClaudeCliRunner_proofs ----
(***************************************************************************)
(* What holds of a call of the claude runner for every set of tool calls,  *)
(* every limit of failures and all bounds, whether the child obeys or not. *)
(***************************************************************************)
EXTENDS ClaudeCliRunner, DataFacts, SequenceTheorems, TLAPS

(* The call is under way from the spawn to its outcome, and whatever may   *)
(* still act on it (the child, an unread line, the timeout) belongs to a   *)
(* call under way.                                                         *)
Life ==
    /\ running <=> proc # "none" /\ outcome = "none"
    /\ proc \in {"failing", "alive"} => running
    /\ proc = "failing" => pipe = <<>>
    /\ proc = "closed" => ~running
    /\ pipe # <<>> => running
    /\ timer => running

(* An error the agent has reported is the last line of the pipe until it   *)
(* is read, and remembered from then on.                                   *)
ErrorResult == [type |-> "result", ok |-> FALSE]
ErrorUnread == pipe # <<>> /\ pipe[Len(pipe)] = ErrorResult

Results ==
    /\ code = "zero" => cli.result # "none" /\ proc \in {"exited", "closed"}
    /\ cli.result = "error" => failure \/ ErrorUnread

IInv ==
    /\ TypeOK
    /\ Life
    /\ Results
    /\ OutcomeTruthful

-----------------------------------------------------------------------------
(* Facts about texts and lines.                                            *)

LEMMA BlockType ==
  ASSUME NEW b \in 1 .. MaxBlocks, NEW from \in Nat, NEW to \in 0 .. MaxText,
         from <= to
  PROVE  Block(b, from, to) \in Seq(Piece)
<1>1. to - from \in Nat
  BY RunnerAssumption
<1>2. \A i \in 1 .. to - from : <<b, from + i>> \in Piece
  BY RunnerAssumption DEF Piece
<1> QED BY <1>1, <1>2 DEF Block

(* What is appended to a sequence leaves it as a prefix.                   *)
LEMMA Grows ==
  ASSUME NEW S, NEW s \in Seq(S), NEW t \in Seq(S)
  PROVE  s \o t = s \/ IsStrictPrefix(s, s \o t)
<1>1. CASE t = <<>>
  BY <1>1, ConcatEmptySeq
<1>2. CASE t # <<>>
  <2> DEFINE u == s \o t
  <2>1. /\ u \in Seq(S) /\ Len(u) = Len(s) + Len(t)
        /\ \A i \in 1 .. Len(s) : u[i] = s[i]
        /\ Len(s) \in Nat /\ Len(t) \in Nat \ {0}
    BY <1>2, ConcatProperties, LenProperties, EmptySeq
  <2>2. \A i \in 1 .. Len(s) : s[i] \in S /\ u[i] \in S
    BY <2>1, ElementOfSeq
  <2> HIDE DEF u
  <2>3. /\ SubSeq(u, 1, Len(s)) \in Seq(S) /\ Len(SubSeq(u, 1, Len(s))) = Len(s)
        /\ \A i \in 1 .. Len(s) : SubSeq(u, 1, Len(s))[i] = u[i]
    BY <2>1, <2>2, SubSeqProperties
  <2>4. SubSeq(s, 1, Len(s)) = s
    BY SubSeqFull
  <2>5. SubSeq(u, 1, Len(s)) = s
    BY <2>1, <2>3, SeqEqual
  <2>6. IsPrefix(s, u)
    <3>1. Len(s) <= Len(u)
      BY <2>1
    <3> QED BY <3>1, <2>4, <2>5 DEF IsPrefix
  <2>7. s # u
    BY <2>1
  <2>8. IsStrictPrefix(s, u)
    BY <2>6, <2>7 DEF IsStrictPrefix
  <2> QED BY <2>8 DEF u
<1> QED BY <1>1, <1>2

(* A decoded text has the pieces of the text that was printed, each as it  *)
(* was or garbled.                                                         *)
LEMMA DecodedShape ==
  ASSUME NEW pieces \in Seq(Piece), NEW said \in Decodings(pieces)
  PROVE  /\ said \in Seq(Piece) /\ Len(said) = Len(pieces)
         /\ \A i \in 1 .. Len(pieces) : Meant(said[i]) = Meant(pieces[i])
<1>1. PICK torn : said = [i \in DOMAIN pieces |->
                            IF i \in torn THEN <<pieces[i][1], -pieces[i][2]>> ELSE pieces[i]]
  BY DEF Decodings
<1>2. Len(pieces) \in Nat /\ DOMAIN pieces = 1 .. Len(pieces)
  BY LenProperties
<1>3. ASSUME NEW i \in 1 .. Len(pieces)
      PROVE  said[i] \in Piece /\ Meant(said[i]) = Meant(pieces[i])
  <2>1. PICK b \in 1 .. MaxBlocks, k \in (-MaxText .. MaxText) \ {0} : pieces[i] = <<b, k>>
    BY ElementOfSeq DEF Piece
  <2>2. said[i] = <<b, k>> \/ said[i] = <<b, -k>>
    BY <1>1, <1>2, <2>1
  <2>3. k \in Int /\ -k \in (-MaxText .. MaxText) \ {0} /\ -(-k) = k
    BY <2>1, RunnerAssumption
  <2>4. Meant(<<b, -k>>) = Meant(<<b, k>>)
    <3>1. CASE k < 0
      <4>1. ~(-k < 0)
        BY <2>3, <3>1
      <4> QED BY <3>1, <4>1 DEF Meant, Garbled
    <3>2. CASE ~(k < 0)
      <4>1. -k < 0
        BY <2>1, <2>3, <3>2
      <4> QED BY <2>3, <3>2, <4>1 DEF Meant, Garbled
    <3> QED BY <3>1, <3>2
  <2>5. <<b, k>> \in Piece /\ <<b, -k>> \in Piece
    BY <2>3 DEF Piece
  <2> QED BY <2>1, <2>2, <2>4, <2>5
<1>4. said \in [1 .. Len(pieces) -> Piece]
  <2>1. DOMAIN said = 1 .. Len(pieces) /\ said = [i \in 1 .. Len(pieces) |-> said[i]]
    BY <1>1, <1>2
  <2> QED BY <1>3, <2>1
<1>5. said \in Seq(Piece) /\ Len(said) = Len(pieces)
  BY <1>2, <1>4
<1> QED BY <1>3, <1>5

(* A stretch of a text, from one place to another.                         *)
LEMMA Stretch ==
  ASSUME NEW S, NEW whole \in Seq(S), NEW from \in Nat, NEW to \in Nat,
         from <= to, to <= Len(whole)
  PROVE  /\ SubSeq(whole, from + 1, to) \in Seq(S)
         /\ Len(SubSeq(whole, from + 1, to)) = to - from
         /\ \A i \in 1 .. to - from : SubSeq(whole, from + 1, to)[i] = whole[from + i]
<1>1. Len(whole) \in Nat /\ \A i \in from + 1 .. to : whole[i] \in S
  BY LenProperties, ElementOfSeq
<1>2. to = from \/ from + 1 <= to
  OBVIOUS
<1> QED BY <1>1, <1>2

(* What is emitted of a text part, and of an event, is text.               *)
LEMMA UnstreamedType ==
  ASSUME streamed \in Seq(Piece), NEW part \in Seq(Piece)
  PROVE  Unstreamed(part) \in Seq(Piece)
<1>1. Len(streamed) \in Nat /\ Len(part) \in Nat
  BY LenProperties
<1>2. \A i \in Len(streamed) + 1 .. Len(part) : part[i] \in Piece
  BY <1>1, ElementOfSeq
<1>3. SubSeq(part, Len(streamed) + 1, Len(part)) \in Seq(Piece)
  BY <1>1, <1>2, SubSeqProperties
<1>4. <<>> \in Seq(Piece)
  BY EmptySeq
<1> QED BY <1>3, <1>4 DEF Unstreamed

Emitted(said, cut) ==
    Unstreamed(SubSeq(said, 1, cut)) \o Unstreamed(SubSeq(said, cut + 1, Len(said)))

LEMMA EmittedType ==
  ASSUME streamed \in Seq(Piece), NEW said \in Seq(Piece), NEW cut \in Nat,
         cut <= Len(said)
  PROVE  Emitted(said, cut) \in Seq(Piece)
<1> DEFINE first == SubSeq(said, 1, cut)
           rest == SubSeq(said, cut + 1, Len(said))
<1>1. 0 \in Nat /\ 0 <= cut /\ 0 + 1 = 1 /\ Len(said) \in Nat
  BY LenProperties
<1>2. first \in Seq(Piece)
  BY <1>1, Stretch
<1>3. rest \in Seq(Piece)
  BY <1>1, Stretch
<1> HIDE DEF first, rest
<1>4. Unstreamed(first) \in Seq(Piece) /\ Unstreamed(rest) \in Seq(Piece)
  BY <1>2, <1>3, UnstreamedType
<1>5. Unstreamed(first) \o Unstreamed(rest) \in Seq(Piece)
  BY <1>4, ConcatProperties
<1> QED BY <1>5 DEF Emitted, first, rest

(* The first line of the pipe, and the rest.                               *)
LEMMA LineTyped ==
  ASSUME pipe \in Seq(Event), pipe # <<>>
  PROVE  /\ Line \in Event
         /\ Tail(pipe) \in Seq(Event)
         /\ ErrorUnread => Line = ErrorResult \/ (Tail(pipe) # <<>> /\
                              Tail(pipe)[Len(Tail(pipe))] = ErrorResult)
<1>1. /\ Line \in Event /\ Tail(pipe) \in Seq(Event)
      /\ Len(Tail(pipe)) = Len(pipe) - 1
      /\ \A i \in 1 .. Len(Tail(pipe)) : Tail(pipe)[i] = pipe[i + 1]
  BY HeadTailProperties DEF Line
<1>2. Len(pipe) \in Nat \ {0} /\ Head(pipe) = pipe[1]
  BY EmptySeq
<1>3. CASE Len(pipe) = 1
  BY <1>1, <1>2, <1>3 DEF ErrorUnread, Line
<1>4. CASE Len(pipe) # 1
  <2>1. Len(Tail(pipe)) \in Nat \ {0}
    BY <1>1, <1>2, <1>4
  <2>2. Tail(pipe)[Len(Tail(pipe))] = pipe[Len(pipe)]
    BY <1>1, <1>2, <2>1
  <2>3. Tail(pipe) # <<>>
    BY <1>1, <2>1
  <2> QED BY <1>1, <2>2, <2>3 DEF ErrorUnread
<1> QED BY <1>1, <1>3, <1>4

-----------------------------------------------------------------------------
(* What the output says: the text of its beginnings, one piece after the   *)
(* other.                                                                  *)

Shown == Piece \cup {Noise}

Told(g, pieces) ==
    /\ g \in [0 .. Len(pieces) -> Seq(Piece)]
    /\ g[0] = <<>>
    /\ \A i \in 1 .. Len(pieces) :
           g[i] = IF pieces[i] = Noise THEN g[i - 1] ELSE Append(g[i - 1], pieces[i])

LEMMA SpokenTold ==
  ASSUME NEW pieces \in Seq(Shown)
  PROVE  \E g : Told(g, pieces) /\ Spoken(pieces) = g[Len(pieces)]
<1> DEFINE n == Len(pieces)
           S == 1 .. n
           V == Seq(Piece)
           Adds(i, v) == IF pieces[i] = Noise THEN v ELSE Append(v, pieces[i])
           step == [q \in S \X V |-> Adds(q[1], q[2])]
           Solves(g) == g = [s \in SUBSET S |->
                               IF s = {} THEN <<>> ELSE Adds(Max(s), g[s \ {Max(s)}])]
           iter == CHOOSE g : Solves(g)
<1>1. n \in Nat /\ DOMAIN pieces = S /\ \A i \in S : pieces[i] \in Shown
  BY LenProperties, ElementOfSeq
<1>2. Spoken(pieces) = iter[S]
  BY <1>1 DEF Spoken, FoldLeft, MapThenFoldSet
<1>3. ASSUME NEW i \in S, NEW v \in V
      PROVE  step[<<i, v>>] = Adds(i, v) /\ Adds(i, v) \in V
  <2>1. pieces[i] \in Shown
    BY <1>1
  <2>2. Adds(i, v) \in V
    <3>1. pieces[i] # Noise => Append(v, pieces[i]) \in V
      BY <2>1, AppendProperties DEF Shown
    <3> QED BY <3>1
  <2> HIDE DEF S, V, Adds
  <2>3. <<i, v>> \in S \X V /\ <<i, v>>[1] = i /\ <<i, v>>[2] = v
    OBVIOUS
  <2> QED BY <2>2, <2>3
<1>0. <<>> \in V
  BY EmptySeq
<1> HIDE DEF Adds, step, V
<1>4. PICK g \in [SUBSET S -> V] : Along(g, n, <<>>, step)
  <2>1. \A i \in S, v \in V : step[<<i, v>>] \in V
    BY <1>3
  <2> HIDE DEF n
  <2> QED BY <1>1, <1>0, <2>1, FoldSolved
<1>5. ASSUME NEW s \in SUBSET S, s # {}
      PROVE  /\ Max(s) \in S /\ g[s \ {Max(s)}] \in V
             /\ g[s] = Adds(Max(s), g[s \ {Max(s)}])
  <2>1. Max(s) \in s
    BY <1>1, <1>5, TopmostChooses DEF Topmost, Chooses
  <2>2. Max(s) \in S /\ g[s \ {Max(s)}] \in V
    <3> HIDE DEF S
    <3> QED BY <2>1
  <2>3. g[s] = step[<<Max(s), g[s \ {Max(s)}]>>]
    BY <1>4, <1>5 DEF Along, S
  <2> QED BY <1>3, <2>2, <2>3
<1> HIDE DEF S
<1>6. Solves(g)
  <2> DEFINE b == [s \in SUBSET S |->
                     IF s = {} THEN <<>> ELSE Adds(Max(s), g[s \ {Max(s)}])]
  <2>1. \A s \in SUBSET S : b[s] = g[s]
    BY <1>4, <1>5 DEF Along
  <2>2. b = [s \in SUBSET S |-> b[s]] /\ g = [s \in SUBSET S |-> g[s]]
    OBVIOUS
  <2> HIDE DEF b
  <2>3. g = b
    BY <2>1, <2>2
  <2> QED BY <2>3 DEF b
<1>7. Solves(iter)
  <2> HIDE DEF Solves
  <2> QED BY <1>6
<1>8. \A s \in SUBSET S : iter[s] = IF s = {} THEN <<>> ELSE Adds(Max(s), iter[s \ {Max(s)}])
  <2> HIDE DEF iter
  <2> QED BY <1>7
<1> HIDE DEF iter, Solves
<1>9. Spoken(pieces) = g[S] /\ g[S] \in V /\ S \in SUBSET S
  <2>1. S \in SUBSET S /\ {} \in SUBSET S
    OBVIOUS
  <2>2. iter[{}] = g[{}]
    BY <1>4, <1>8, <2>1 DEF Along
  <2>3. \A s \in SUBSET S :
            s # {} /\ iter[s \ {Max(s)}] = g[s \ {Max(s)}] => iter[s] = g[s]
    BY <1>5, <1>8
  <2>4. \A s \in SUBSET S : iter[s] = g[s]
    <3>1. Alike(iter, g, n)
      BY <2>2, <2>3 DEF Alike, S
    <3>2. n \in Nat
      BY <1>1
    <3> HIDE DEF n
    <3>3. \A s \in SUBSET (1 .. n) : iter[s] = g[s]
      BY <3>1, <3>2, FoldSame
    <3> QED BY <3>3 DEF S
  <2> QED BY <1>2, <2>1, <2>4
<1> DEFINE h == [i \in 0 .. n |-> g[1 .. i]]
<1>10. Told(h, pieces)
  <2>1. \A i \in 0 .. n : 1 .. i \in SUBSET S /\ h[i] = g[1 .. i]
    BY <1>1 DEF S
  <2>2. h \in [0 .. n -> Seq(Piece)]
    BY <2>1 DEF V
  <2>3. h[0] = <<>>
    <3>1. 1 .. 0 = {} /\ 0 \in 0 .. n
      BY <1>1
    <3> QED BY <1>4, <2>1, <3>1 DEF Along
  <2>4. ASSUME NEW i \in 1 .. n
        PROVE  h[i] = Adds(i, h[i - 1])
    <3>1. i \in 0 .. n /\ i - 1 \in 0 .. n /\ i \in S
      BY <1>1 DEF S
    <3>2. g[1 .. i] = step[<<i, g[1 .. i - 1]>>]
      BY <1>4 DEF Along
    <3>3. g[1 .. i - 1] \in V
      BY <2>1, <3>1
    <3> HIDE DEF h, n
    <3> QED BY <1>3, <2>1, <3>1, <3>2, <3>3
  <2> HIDE DEF h
  <2> QED BY <2>2, <2>3, <2>4 DEF Told, Adds
<1>11. Spoken(pieces) = h[n]
  <2>1. h[n] = g[1 .. n]
    BY <1>1
  <2> HIDE DEF h
  <2> QED BY <1>9, <2>1 DEF S
<1> QED
  <2> HIDE DEF h
  <2> QED BY <1>10, <1>11

(* Two outputs that begin alike begin with the same text.                  *)
LEMMA ToldAlike ==
  ASSUME NEW p \in Seq(Shown), NEW q \in Seq(Shown), Len(p) <= Len(q),
         \A i \in 1 .. Len(p) : p[i] = q[i],
         NEW g, Told(g, p), NEW h, Told(h, q)
  PROVE  g[Len(p)] = h[Len(p)]
<1> DEFINE n == Len(p)
           G == {i \in 0 .. n : g[i] = h[i]}
<1>1. n \in Nat /\ Len(q) \in Nat
  BY LenProperties
<1>2. 0 \in G
  BY <1>1 DEF Told
<1>3. ASSUME NEW i \in 0 .. n - 1, i \in G
      PROVE  i + 1 \in G
  <2>1. i + 1 \in 1 .. n /\ i + 1 \in 1 .. Len(q) /\ (i + 1) - 1 = i
    BY <1>1
  <2>2. /\ g[i + 1] = IF p[i + 1] = Noise THEN g[i] ELSE Append(g[i], p[i + 1])
        /\ h[i + 1] = IF q[i + 1] = Noise THEN h[i] ELSE Append(h[i], q[i + 1])
    BY <2>1 DEF Told
  <2>3. p[i + 1] = q[i + 1] /\ g[i] = h[i] /\ i + 1 \in 0 .. n
    BY <1>1, <1>3, <2>1
  <2> QED BY <2>2, <2>3
<1>4. n \in G
  <2>1. \A i \in 0 .. n : i \in G
    <3> HIDE DEF G, n
    <3> QED BY <1>1, <1>2, <1>3, IntervalInduction
  <2> QED BY <1>1, <2>1
<1> QED BY <1>4

(* What is no text says nothing.                                           *)
LEMMA SpokenNoise ==
  ASSUME NEW said \in Seq(Shown)
  PROVE  Spoken(said) \in Seq(Piece) /\ Spoken(said \o <<Noise>>) = Spoken(said)
<1> DEFINE u == said \o <<Noise>>
           n == Len(said)
<1>1. /\ u \in Seq(Shown) /\ n \in Nat /\ Len(u) = n + 1
      /\ \A i \in 1 .. n : u[i] = said[i]
      /\ u[n + 1] = Noise
  <2>1. <<Noise>> \in Seq(Shown) /\ Len(<<Noise>>) = 1 /\ <<Noise>>[1] = Noise
    BY DEF Shown
  <2> QED BY <2>1, ConcatProperties, LenProperties
<1> HIDE DEF u
<1>2. PICK g : Told(g, said) /\ Spoken(said) = g[n]
  BY SpokenTold
<1>3. PICK h : Told(h, u) /\ Spoken(u) = h[n + 1]
  BY <1>1, SpokenTold
<1>4. g[n] = h[n]
  BY <1>1, <1>2, <1>3, ToldAlike
<1>5. n + 1 \in 1 .. Len(u) /\ (n + 1) - 1 = n
  BY <1>1
<1>6. h[n + 1] = h[n]
  BY <1>1, <1>3, <1>5 DEF Told
<1>7. g[n] \in Seq(Piece)
  BY <1>1, <1>2 DEF Told
<1> QED BY <1>2, <1>3, <1>4, <1>6, <1>7 DEF u

(* Text adds itself to what was said before.                               *)
LEMMA SpokenText ==
  ASSUME NEW said \in Seq(Shown), NEW p \in Seq(Piece)
  PROVE  Spoken(said \o p) = Spoken(said) \o p
<1> DEFINE u == said \o p
           n == Len(said)
           m == Len(p)
<1>1. /\ u \in Seq(Shown) /\ n \in Nat /\ m \in Nat /\ Len(u) = n + m
      /\ \A i \in 1 .. n : u[i] = said[i]
      /\ \A j \in 1 .. m : u[n + j] = p[j]
      /\ \A j \in 1 .. m : p[j] \in Piece
  <2>1. p \in Seq(Shown)
    BY SeqMonotonic DEF Shown
  <2>2. \A j \in 1 .. m : (n + j) - n = j /\ n + j \in n + 1 .. n + m
    BY LenProperties
  <2> QED BY <2>1, <2>2, ConcatProperties, LenProperties, ElementOfSeq
<1>2. \A piece \in Piece : piece # Noise
  BY RunnerAssumption DEF Piece, Noise
<1> HIDE DEF u
<1>3. PICK g : Told(g, said) /\ Spoken(said) = g[n]
  BY SpokenTold
<1>4. PICK h : Told(h, u) /\ Spoken(u) = h[n + m]
  BY <1>1, SpokenTold
<1>5. g[n] = h[n] /\ g[n] \in Seq(Piece)
  <2>1. n <= Len(u)
    BY <1>1
  <2>2. g[n] = h[n]
    BY <1>1, <2>1, <1>3, <1>4, ToldAlike
  <2> QED BY <1>1, <1>3, <2>2 DEF Told
<1> DEFINE G == {j \in 0 .. m : h[n + j] = g[n] \o SubSeq(p, 1, j)}
<1>6. 0 \in G
  <2>1. SubSeq(p, 1, 0) = <<>>
    BY SubSeqEmpty
  <2>2. g[n] \o <<>> = g[n]
    BY <1>5, ConcatEmptySeq
  <2>3. 0 \in 0 .. m /\ n + 0 = n
    BY <1>1
  <2> QED BY <1>5, <2>1, <2>2, <2>3
<1>7. ASSUME NEW j \in 0 .. m - 1, j \in G
      PROVE  j + 1 \in G
  <2>1. /\ j + 1 \in 1 .. m /\ n + (j + 1) \in 1 .. Len(u)
        /\ (n + (j + 1)) - 1 = n + j
    BY <1>1
  <2>2. u[n + (j + 1)] = p[j + 1] /\ p[j + 1] \in Piece /\ p[j + 1] # Noise
    BY <1>1, <1>2, <2>1
  <2>3. h[n + (j + 1)] = Append(h[n + j], p[j + 1])
    BY <1>4, <2>1, <2>2 DEF Told
  <2>4. h[n + j] = g[n] \o SubSeq(p, 1, j)
    BY <1>7
  <2>5. SubSeq(p, 1, j + 1) = Append(SubSeq(p, 1, j), p[j + 1])
    <3>1. j + 1 \in 1 .. m + 1 /\ j \in Nat
      BY <1>1
    <3> QED BY <1>1, <2>1, <3>1
  <2>6. SubSeq(p, 1, j) \in Seq(Piece)
    BY <1>1
  <2>7. g[n] \o Append(SubSeq(p, 1, j), p[j + 1])
            = Append(g[n] \o SubSeq(p, 1, j), p[j + 1])
    <3> DEFINE a == g[n]
               b == SubSeq(p, 1, j)
               x == p[j + 1]
    <3>1. a \in Seq(Piece) /\ b \in Seq(Piece) /\ x \in Piece
      BY <1>5, <2>2, <2>6
    <3>2. <<x>> \in Seq(Piece)
      BY <3>1
    <3> HIDE DEF a, b, x
    <3>3. Append(b, x) = b \o <<x>> /\ a \o b \in Seq(Piece)
      BY <3>1, AppendIsConcat, ConcatProperties
    <3>4. Append(a \o b, x) = (a \o b) \o <<x>>
      BY <3>1, <3>3, AppendIsConcat
    <3>5. a \o (b \o <<x>>) = (a \o b) \o <<x>>
      BY <3>1, <3>2, ConcatAssociative
    <3>6. a \o Append(b, x) = Append(a \o b, x)
      BY <3>3, <3>4, <3>5
    <3> QED BY <3>6 DEF a, b, x
  <2>8. h[n + (j + 1)] = g[n] \o SubSeq(p, 1, j + 1)
    <3> HIDE DEF G, n
    <3> QED BY <2>3, <2>4, <2>5, <2>7
  <2>9. j + 1 \in 0 .. m
    BY <1>1, <2>1
  <2> QED BY <2>8, <2>9
<1>8. m \in G
  <2>1. \A j \in 0 .. m : j \in G
    <3> HIDE DEF G, m
    <3> QED BY <1>1, <1>6, <1>7, IntervalInduction
  <2>2. m \in 0 .. m
    BY <1>1
  <2> HIDE DEF G
  <2> QED BY <2>1, <2>2
<1>9. SubSeq(p, 1, m) = p
  BY SubSeqFull
<1> QED BY <1>3, <1>4, <1>8, <1>9 DEF u

-----------------------------------------------------------------------------
(* The pipe lies between the text the agent has told and the text the      *)
(* output says: a mark is a place in the answer, and every unread line     *)
(* leads from one mark to the next.                                        *)

Mark == [block : Nat \ {0}, sent : Nat, len : Nat]

Tells(all, len, pieces) ==
    /\ len + Len(pieces) <= Len(all)
    /\ \A j \in 1 .. Len(pieces) : all[len + j] = pieces[j]

(* A delta tells one more piece of the block, an assistant event what the  *)
(* deltas have left of it, perhaps in two parts.                           *)
Passes(all, parted, from, line, to) ==
    \/ /\ line.type = "delta"
       /\ line.text = Block(from.block, from.sent, from.sent + 1)
       /\ Tells(all, from.len, Block(from.block, from.sent, from.sent + 1))
       /\ to = [block |-> from.block, sent |-> from.sent + 1, len |-> from.len + 1]
    \/ /\ line.type = "assistant"
       /\ line.cut = 0 \/ from.block \in parted
       /\ \E n \in Nat :
             /\ from.sent <= n /\ (line.cut = 0 \/ line.cut < n)
             /\ line.text = Block(from.block, 0, n)
             /\ Tells(all, from.len, Block(from.block, from.sent, n))
             /\ to = [block |-> from.block + 1, sent |-> 0,
                      len |-> from.len + (n - from.sent)]
    \/ /\ line.type \notin {"delta", "assistant"}
       /\ to = from

(* A piece is followed by the one that was told after it.                  *)
Follows(all, said, i) ==
    \E j \in 1 .. Len(all) - 1 : Meant(said[i]) = all[j] /\ Meant(said[i + 1]) = all[j + 1]

(* A block that was printed in two parts, or of which something is garbled.*)
Excused(parted, said, b) ==
    \/ b \in parted
    \/ \E j \in DOMAIN said : said[j][1] = b /\ Garbled(said[j])

(* What was said so far ends at a mark: only blocks that are over have     *)
(* begun again, each of them once and with an excuse.                      *)
Heard(all, parted, said, m) ==
    /\ \A i \in 1 .. Len(said) :
          said[i][1] <= m.block /\ (m.sent = 0 => said[i][1] < m.block)
    /\ said = <<>> <=> m.len = 0
    /\ said # <<>> => Meant(said[1]) = all[1] /\ Meant(said[Len(said)]) = all[m.len]
    /\ \A i \in 1 .. Len(said) - 1 :
          \/ Follows(all, said, i)
          \/ Restarts(said, i) /\ Excused(parted, said, said[i][1])
    /\ \A i \in 1 .. Len(said) - 1 : Restarts(said, i) => said[i][1] < m.block
    /\ \A i, j \in 1 .. Len(said) - 1 :
          Restarts(said, i) /\ Restarts(said, j) /\ said[i][1] = said[j][1] => i = j

(* What was streamed of the block at a mark.                               *)
Streams(run, all, said, m) ==
    /\ Len(run) = m.sent
    /\ \A j \in 1 .. m.sent :
          /\ Meant(run[j]) = <<m.block, j>>
          /\ Garbled(run[j]) => \E i \in DOMAIN said : said[i][1] = m.block /\ Garbled(said[i])
    /\ m.sent <= m.len /\ m.len <= Len(all)
    /\ \A j \in 1 .. m.sent : all[(m.len - m.sent) + j] = <<m.block, j>>

Marks(at) ==
    /\ at \in Seq(Mark) /\ Len(at) = Len(pipe) + 1
    /\ \A i \in 1 .. Len(pipe) : Passes(told, cli.parted, at[i], pipe[i], at[i + 1])
    /\ at[Len(pipe) + 1] = [block |-> cli.block, sent |-> cli.sent, len |-> Len(told)]
    /\ Heard(told, cli.parted, Text, at[1])
    /\ Streams(streamed, told, Text, at[1])

Underway == \E at : Marks(at)

(* Two sequences in one.                                                   *)
LEMMA Joined ==
  ASSUME NEW S, NEW s \in Seq(S), NEW t \in Seq(S)
  PROVE  /\ s \o t \in Seq(S) /\ Len(s \o t) = Len(s) + Len(t)
         /\ \A i \in 1 .. Len(s) : (s \o t)[i] = s[i]
         /\ \A j \in 1 .. Len(t) : (s \o t)[Len(s) + j] = t[j]
         /\ \A i \in DOMAIN s : i \in DOMAIN (s \o t) /\ (s \o t)[i] = s[i]
         /\ \A j \in 1 .. Len(t) : \E i \in DOMAIN (s \o t) : (s \o t)[i] = t[j]
<1> DEFINE u == s \o t
<1>1. Len(s) \in Nat /\ Len(t) \in Nat
  BY LenProperties
<1>2. /\ u \in Seq(S) /\ Len(u) = Len(s) + Len(t)
      /\ \A i \in 1 .. Len(s) + Len(t) : u[i] = IF i <= Len(s) THEN s[i] ELSE t[i - Len(s)]
  BY ConcatProperties
<1> HIDE DEF u
<1>3. DOMAIN u = 1 .. Len(s) + Len(t) /\ DOMAIN s = 1 .. Len(s)
  BY <1>2, LenProperties
<1>4. \A i \in 1 .. Len(s) : i \in 1 .. Len(s) + Len(t) /\ u[i] = s[i]
  BY <1>1, <1>2
<1>5. ASSUME NEW j \in 1 .. Len(t)
      PROVE  Len(s) + j \in 1 .. Len(s) + Len(t) /\ u[Len(s) + j] = t[j]
  <2>1. /\ Len(s) + j \in 1 .. Len(s) + Len(t) /\ ~(Len(s) + j <= Len(s))
        /\ (Len(s) + j) - Len(s) = j
    BY <1>1
  <2> QED BY <1>2, <2>1
<1> QED BY <1>2, <1>3, <1>4, <1>5 DEF u

LEMMA BlockShape ==
  ASSUME NEW b \in Nat, NEW from \in Nat, NEW to \in Nat, from <= to
  PROVE  /\ Block(b, from, to) \in Seq(Nat \X Nat)
         /\ Len(Block(b, from, to)) = to - from
         /\ \A i \in 1 .. to - from : Block(b, from, to)[i] = <<b, from + i>>
<1>1. to - from \in Nat /\ \A i \in 1 .. to - from : <<b, from + i>> \in Nat \X Nat
  OBVIOUS
<1> QED BY <1>1 DEF Block

LEMMA BlockWhole ==
  ASSUME NEW b \in Nat, NEW to \in Nat
  PROVE  /\ Block(b, 0, to) \in Seq(Nat \X Nat)
         /\ Len(Block(b, 0, to)) = to
         /\ \A i \in 1 .. to : Block(b, 0, to)[i] = <<b, i>>
<1>1. 0 \in Nat /\ 0 <= to /\ to - 0 = to /\ \A i \in 1 .. to : 0 + i = i
  OBVIOUS
<1>2. /\ Block(b, 0, to) \in Seq(Nat \X Nat)
      /\ Len(Block(b, 0, to)) = to - 0
      /\ \A i \in 1 .. to - 0 : Block(b, 0, to)[i] = <<b, 0 + i>>
  BY <1>1, BlockShape
<1> QED BY <1>1, <1>2

(* What a piece means is a block and a place.                              *)
LEMMA MeantShape ==
  ASSUME NEW p \in Piece
  PROVE  /\ p[1] \in Nat \ {0} /\ Meant(p)[1] = p[1] /\ Meant(p)[2] \in Nat \ {0}
         /\ Meant(p) = <<Meant(p)[1], Meant(p)[2]>>
<1>1. PICK b \in 1 .. MaxBlocks, k \in (-MaxText .. MaxText) \ {0} : p = <<b, k>>
  BY DEF Piece
<1>2. b \in Nat \ {0} /\ k \in Int /\ k # 0
  BY <1>1, RunnerAssumption
<1> QED BY <1>1, <1>2 DEF Meant, Garbled

(* Two pieces that mean the same and differ: one of them is garbled.       *)
LEMMA MeantOnce ==
  ASSUME NEW p \in Piece, NEW q \in Piece, Meant(p) = Meant(q), p # q
  PROVE  Garbled(p) \/ Garbled(q)
BY DEF Meant

(* Of an assistant event the runner emits what the deltas have left, or,   *)
(* when it is in parts or garbled, all of it.                              *)
LEMMA EmittedRest ==
  ASSUME streamed \in Seq(Piece), NEW said \in Seq(Piece), Len(streamed) <= Len(said),
         \A i \in 1 .. Len(streamed) : Meant(streamed[i]) = Meant(said[i]),
         \A i, j \in 1 .. Len(said) : Meant(said[i]) = Meant(said[j]) => i = j,
         NEW cut \in Nat, cut = 0 \/ cut < Len(said)
  PROVE  \/ Emitted(said, cut) = SubSeq(said, Len(streamed) + 1, Len(said))
         \/ /\ Emitted(said, cut) = said /\ Len(streamed) > 0
            /\ cut # 0 \/ \E i \in 1 .. Len(streamed) : streamed[i] # said[i]
<1>0. PICK n \in Nat, k \in Nat :
          /\ n = Len(said) /\ k = Len(streamed) /\ k <= n /\ (cut = 0 \/ cut < n)
          /\ \A i \in 1 .. k : Meant(streamed[i]) = Meant(said[i])
          /\ \A i, j \in 1 .. n : Meant(said[i]) = Meant(said[j]) => i = j
  BY LenProperties
<1> DEFINE first == SubSeq(said, 1, cut)
           rest == SubSeq(said, cut + 1, n)
           left == SubSeq(said, k + 1, n)
<1>1. /\ first \in Seq(Piece) /\ Len(first) = cut
      /\ \A i \in 1 .. cut : first[i] = said[i]
  <2>1. 0 \in Nat /\ 0 <= cut /\ cut <= Len(said) /\ 0 + 1 = 1 /\ cut - 0 = cut
        /\ \A i \in 1 .. cut : 0 + i = i
    BY <1>0
  <2>2. /\ SubSeq(said, 0 + 1, cut) \in Seq(Piece)
        /\ Len(SubSeq(said, 0 + 1, cut)) = cut - 0
        /\ \A i \in 1 .. cut - 0 : SubSeq(said, 0 + 1, cut)[i] = said[0 + i]
    BY <1>0, <2>1, Stretch
  <2> QED BY <1>0, <2>1, <2>2
<1>2. /\ rest \in Seq(Piece) /\ Len(rest) = n - cut
      /\ \A i \in 1 .. n - cut : rest[i] = said[cut + i]
  BY <1>0, Stretch
<1>3. /\ left \in Seq(Piece) /\ Len(left) = n - k
      /\ \A i \in 1 .. n - k : left[i] = said[k + i]
  BY <1>0, Stretch
<1>4. SubSeq(said, 1, n) = said
  BY <1>0, SubSeqFull
<1>5. Emitted(said, cut) = Unstreamed(first) \o Unstreamed(rest)
  BY <1>0 DEF Emitted
<1> HIDE DEF first, rest, left
<1>6. first \o rest = said
  <2>1. /\ first \o rest \in Seq(Piece) /\ Len(first \o rest) = cut + (n - cut)
        /\ \A i \in 1 .. cut + (n - cut) : (first \o rest)[i] =
              IF i <= cut THEN first[i] ELSE rest[i - cut]
    BY <1>0, <1>1, <1>2, ConcatProperties
  <2>2. ASSUME NEW i \in 1 .. n PROVE (first \o rest)[i] = said[i]
    <3>1. i <= cut => i \in 1 .. cut
      BY <1>0
    <3>2. ~(i <= cut) => i - cut \in 1 .. n - cut /\ cut + (i - cut) = i
      BY <1>0
    <3>3. cut + (n - cut) = n
      BY <1>0
    <3> QED BY <1>0, <1>1, <1>2, <2>1, <3>1, <3>2, <3>3
  <2>3. cut + (n - cut) = n
    BY <1>0
  <2> QED BY <1>0, <2>1, <2>2, <2>3, SeqEqual, ZenonT(30)
<1>7. CASE k = 0
  <2>1. streamed = <<>>
    BY <1>0, <1>7, EmptySeq
  <2>2. Unstreamed(first) = first /\ Unstreamed(rest) = rest
    BY <1>0, <2>1 DEF Unstreamed
  <2>3. left = said
    BY <1>0, <1>4, <1>7 DEF left
  <2> QED BY <1>0, <1>5, <1>6, <2>2, <2>3 DEF left
<1>8. CASE k > 0 /\ cut = 0
  <2>1. first = <<>> /\ rest = said
    BY <1>0, <1>1, <1>4, <1>8, EmptySeq DEF rest
  <2>2. streamed # <<>> /\ ~IsPrefix(streamed, <<>>)
    <3>1. Len(<<>>) = 0
      BY <1>0, EmptySeq
    <3> QED BY <1>0, <1>8, <3>1 DEF IsPrefix
  <2>3. Unstreamed(first) = <<>>
    BY <1>0, <2>1, <2>2 DEF Unstreamed
  <2>4. /\ Unstreamed(rest) \in Seq(Piece)
        /\ Emitted(said, cut) = Unstreamed(said)
    <3>1. Unstreamed(rest) \in Seq(Piece)
      BY <1>0, <1>2, UnstreamedType
    <3> QED BY <1>0, <1>5, <2>1, <2>3, <3>1, ConcatEmptySeq
  <2>5. CASE \E i \in 1 .. k : streamed[i] # said[i]
    <3>1. said # streamed
      BY <1>0, <2>5
    <3>2. ~IsPrefix(streamed, said)
      <4>1. ASSUME IsPrefix(streamed, said) PROVE FALSE
        <5>1. SubSeq(streamed, 1, k) = SubSeq(said, 1, k)
          BY <1>0, <4>1 DEF IsPrefix
        <5>2. \A i \in 1 .. k : SubSeq(streamed, 1, k)[i] = streamed[i]
          BY <1>0, SubSeqFull
        <5>3. \A i \in 1 .. k : SubSeq(said, 1, k)[i] = said[i]
          <6>1. 0 \in Nat /\ 0 <= k /\ 0 + 1 = 1 /\ k - 0 = k /\ \A i \in 1 .. k : 0 + i = i
            BY <1>0
          <6>2. \A i \in 1 .. k - 0 : SubSeq(said, 0 + 1, k)[i] = said[0 + i]
            BY <1>0, <6>1, Stretch
          <6> QED BY <1>0, <6>1, <6>2
        <5> QED BY <1>0, <2>5, <5>1, <5>2, <5>3
      <4> QED BY <1>0, <4>1
    <3>3. Unstreamed(said) = said
      BY <1>0, <3>1, <3>2 DEF Unstreamed
    <3> QED BY <1>0, <1>8, <2>4, <2>5, <3>3
  <2>6. CASE \A i \in 1 .. k : streamed[i] = said[i]
    <3>1. CASE k = n
      <4>1. said = streamed
        BY <1>0, <2>6, <3>1, SeqEqual
      <4>2. left = <<>>
        BY <1>0, <1>3, <3>1, EmptySeq
      <4> QED BY <1>0, <2>4, <4>1, <4>2 DEF Unstreamed, left
    <3>2. CASE k # n
      <4>1. IsPrefix(streamed, said)
        <5> DEFINE c == SubSeq(said, 1, k)
        <5>1. c \in Seq(Piece) /\ Len(c) = k /\ \A i \in 1 .. k : c[i] = said[i]
          <6>1. 0 \in Nat /\ 0 <= k /\ 0 + 1 = 1 /\ k - 0 = k /\ \A i \in 1 .. k : 0 + i = i
            BY <1>0
          <6>2. /\ SubSeq(said, 0 + 1, k) \in Seq(Piece)
                /\ Len(SubSeq(said, 0 + 1, k)) = k - 0
                /\ \A i \in 1 .. k - 0 : SubSeq(said, 0 + 1, k)[i] = said[0 + i]
            BY <1>0, <6>1, Stretch
          <6> QED BY <1>0, <6>1, <6>2
        <5> HIDE DEF c
        <5>2. c = streamed
          BY <1>0, <2>6, <5>1, SeqEqual
        <5>3. SubSeq(streamed, 1, k) = streamed
          BY <1>0, SubSeqFull
        <5> QED BY <1>0, <5>2, <5>3 DEF IsPrefix, c
      <4>2. said # streamed
        BY <1>0, <3>2
      <4>3. Unstreamed(said) = left
        BY <1>0, <2>2, <4>1, <4>2 DEF Unstreamed, left
      <4> QED BY <1>0, <2>4, <4>3 DEF left
    <3> QED BY <1>0, <3>1, <3>2
  <2> QED BY <1>0, <2>5, <2>6
<1>9. CASE k > 0 /\ cut # 0
  <2>1. 1 \in 1 .. k /\ 1 \in 1 .. n - cut /\ cut + 1 \in 1 .. n /\ cut + 1 # 1
    BY <1>0, <1>9
  <2>2. rest[1] # streamed[1]
    <3>1. rest[1] = said[cut + 1] /\ 1 \in 1 .. n
      BY <1>0, <1>2, <2>1
    <3>2. Meant(said[cut + 1]) # Meant(said[1]) /\ Meant(streamed[1]) = Meant(said[1])
      BY <1>0, <2>1, <3>1
    <3> QED BY <3>1, <3>2
  <2>3. rest # streamed
    BY <1>0, <2>2
  <2>4. ~IsPrefix(streamed, rest)
    <3>1. ASSUME IsPrefix(streamed, rest) PROVE FALSE
      <4>1. k <= Len(rest) /\ SubSeq(streamed, 1, k) = SubSeq(rest, 1, k)
        BY <1>0, <3>1 DEF IsPrefix
      <4>2. SubSeq(streamed, 1, k) = streamed
        BY <1>0, SubSeqFull
      <4>3. SubSeq(rest, 1, k)[1] = rest[1]
        <5>1. 0 \in Nat /\ 0 <= k /\ 0 + 1 = 1 /\ k - 0 = k
          BY <1>0
        <5>2. \A i \in 1 .. k - 0 : SubSeq(rest, 0 + 1, k)[i] = rest[0 + i]
          BY <1>0, <1>2, <4>1, <5>1, Stretch
        <5> QED BY <1>0, <2>1, <5>1, <5>2
      <4> QED BY <1>0, <2>2, <4>1, <4>2, <4>3
    <3> QED BY <1>0, <3>1
  <2>5. Unstreamed(rest) = rest
    BY <1>0, <2>3, <2>4 DEF Unstreamed
  <2>6. \/ Unstreamed(first) = first
        \/ /\ k <= cut /\ \A i \in 1 .. k : streamed[i] = first[i]
           /\ Unstreamed(first) = SubSeq(first, k + 1, cut)
    <3>1. CASE first = streamed
      <4>1. k = cut /\ SubSeq(first, k + 1, cut) = <<>> /\ Unstreamed(first) = <<>>
        <5>1. k = cut /\ Unstreamed(first) = <<>>
          BY <1>0, <1>1, <3>1 DEF Unstreamed
        <5>2. Len(SubSeq(first, k + 1, cut)) = 0 /\ SubSeq(first, k + 1, cut) \in Seq(Piece)
          BY <1>0, <1>1, <5>1, Stretch
        <5> QED BY <1>0, <5>1, <5>2, EmptySeq
      <4> QED BY <1>0, <3>1, <4>1
    <3>2. CASE first # streamed /\ IsPrefix(streamed, first)
      <4>1. k <= cut /\ SubSeq(streamed, 1, k) = SubSeq(first, 1, k)
        BY <1>0, <1>1, <3>2 DEF IsPrefix
      <4>2. SubSeq(streamed, 1, k) = streamed
        BY <1>0, SubSeqFull
      <4>3. \A i \in 1 .. k : SubSeq(first, 1, k)[i] = first[i]
        <5>1. 0 \in Nat /\ 0 <= k /\ 0 + 1 = 1 /\ k - 0 = k /\ \A i \in 1 .. k : 0 + i = i
          BY <1>0
        <5>2. \A i \in 1 .. k - 0 : SubSeq(first, 0 + 1, k)[i] = first[0 + i]
          BY <1>0, <1>1, <4>1, <5>1, Stretch
        <5> QED BY <1>0, <5>1, <5>2
      <4>4. streamed # <<>>
        BY <1>0, <1>9, EmptySeq
      <4> QED BY <1>0, <1>1, <3>2, <4>1, <4>2, <4>3, <4>4 DEF Unstreamed
    <3>3. CASE first # streamed /\ ~IsPrefix(streamed, first)
      BY <1>0, <3>3 DEF Unstreamed
    <3> QED BY <1>0, <3>1, <3>2, <3>3
  <2>7. CASE Unstreamed(first) = first
    BY <1>0, <1>5, <1>6, <1>9, <2>5, <2>7
  <2>8. CASE k <= cut /\ Unstreamed(first) = SubSeq(first, k + 1, cut)
    <3> DEFINE f == SubSeq(first, k + 1, cut)
               u == f \o rest
    <3>1. /\ f \in Seq(Piece) /\ Len(f) = cut - k
          /\ \A i \in 1 .. cut - k : f[i] = first[k + i]
      BY <1>0, <1>1, <2>8, Stretch
    <3> HIDE DEF f
    <3>2. /\ u \in Seq(Piece) /\ Len(u) = (cut - k) + (n - cut)
          /\ \A i \in 1 .. (cut - k) + (n - cut) :
                u[i] = IF i <= cut - k THEN f[i] ELSE rest[i - (cut - k)]
      <4>1. f \in Seq(Piece) /\ rest \in Seq(Piece)
        BY <1>0, <1>2, <3>1
      <4>2. /\ u \in Seq(Piece) /\ Len(u) = Len(f) + Len(rest)
            /\ \A i \in 1 .. Len(f) + Len(rest) :
                  u[i] = IF i <= Len(f) THEN f[i] ELSE rest[i - Len(f)]
        BY <1>0, <4>1, ConcatProperties
      <4> HIDE DEF u
      <4>3. Len(f) = cut - k /\ Len(rest) = n - cut
        BY <1>0, <1>2, <3>1
      <4> QED BY <1>0, <4>2, <4>3
    <3> HIDE DEF u
    <3>3. (cut - k) + (n - cut) = n - k
      BY <1>0
    <3>4. ASSUME NEW i \in 1 .. n - k PROVE u[i] = left[i]
      <4>1. CASE i <= cut - k
        <5>1. i \in 1 .. cut - k /\ k + i \in 1 .. cut
          BY <1>0, <2>8, <4>1
        <5>2. u[i] = f[i] /\ f[i] = first[k + i]
          BY <3>1, <3>2, <3>3, <4>1, <5>1
        <5>3. first[k + i] = said[k + i] /\ left[i] = said[k + i]
          BY <1>1, <1>3, <5>1
        <5> QED BY <5>2, <5>3
      <4>2. CASE ~(i <= cut - k)
        <5>1. i - (cut - k) \in 1 .. n - cut /\ cut + (i - (cut - k)) = k + i
          BY <1>0, <2>8, <4>2
        <5> QED BY <1>0, <1>2, <1>3, <3>2, <3>3, <4>2, <5>1
      <4> QED BY <1>0, <4>1, <4>2
    <3>5. u = left
      BY <1>0, <1>3, <3>2, <3>3, <3>4, SeqEqual
    <3> QED BY <1>0, <1>5, <2>5, <2>8, <3>5 DEF f, u, left
  <2> QED BY <1>0, <2>6, <2>7, <2>8
<1> QED BY <1>0, <1>7, <1>8, <1>9

(* What follows what was said: the next pieces told, or the whole block    *)
(* once more.                                                              *)
LEMMA HeardMore ==
  ASSUME NEW all \in Seq(Piece), NEW parted, NEW said \in Seq(Piece),
         NEW p \in Seq(Piece), Len(p) # 0, NEW m \in Mark, NEW to \in Mark,
         Heard(all, parted, said, m),
         m.block <= to.block, to.sent = 0 => m.block < to.block,
         NEW from \in Nat, NEW base \in Nat, base + Len(p) = to.len, to.len <= Len(all),
         \A j \in 1 .. Len(p) : /\ Meant(p[j]) = <<m.block, from + j>>
                                /\ all[base + j] = <<m.block, from + j>>,
         \/ from = m.sent /\ base = m.len
         \/ /\ from = 0 /\ m.len # 0 /\ m.block < to.block
            /\ all[m.len] = <<m.block, m.sent>>
            /\ Excused(parted, said \o p, m.block)
  PROVE  Heard(all, parted, said \o p, to)
<1> DEFINE u == said \o p
           a == Len(said)
           c == Len(p)
           b == m.block
<1>1. /\ a \in Nat /\ c \in Nat \ {0} /\ u \in Seq(Piece) /\ Len(u) = a + c
      /\ \A i \in 1 .. a : u[i] = said[i] /\ said[i] \in Piece
      /\ \A j \in 1 .. c : u[a + j] = p[j] /\ p[j] \in Piece
  <2>1. a \in Nat /\ c \in Nat \ {0}
    BY LenProperties, EmptySeq
  <2>2. /\ u \in Seq(Piece) /\ Len(u) = a + c
        /\ \A i \in 1 .. a + c : u[i] = IF i <= a THEN said[i] ELSE p[i - a]
    BY ConcatProperties
  <2>3. \A j \in 1 .. c : a + j \in 1 .. a + c /\ ~(a + j <= a) /\ (a + j) - a = j
    BY <2>1
  <2>4. \A i \in 1 .. a : i \in 1 .. a + c /\ i <= a
    BY <2>1
  <2> HIDE DEF u
  <2> QED BY <2>1, <2>2, <2>3, <2>4, ElementOfSeq
<1>2. /\ b \in Nat /\ to.block \in Nat /\ m.sent \in Nat /\ m.len \in Nat /\ to.len \in Nat
      /\ Len(all) \in Nat
  BY LenProperties DEF Mark
<1> HIDE DEF u
<1>3. \A j \in 1 .. c : p[j][1] = b
  <2>1. ASSUME NEW j \in 1 .. c PROVE p[j][1] = b
    <3>1. Meant(p[j])[1] = p[j][1]
      BY <1>1, MeantShape
    <3>2. Meant(p[j]) = <<b, from + j>>
      OBVIOUS
    <3> QED BY <3>1, <3>2
  <2> QED BY <2>1
<1>4. a = 0 <=> m.len = 0
  <2>1. said = <<>> <=> a = 0
    BY EmptySeq
  <2> QED BY <2>1 DEF Heard
<1>5. \A i \in 1 .. a + c : i \in 1 .. a \/ \E j \in 1 .. c : i = a + j
  <2>1. ASSUME NEW i \in 1 .. a + c, i \notin 1 .. a
        PROVE  \E j \in 1 .. c : i = a + j
    <3>1. i - a \in 1 .. c /\ i = a + (i - a)
      BY <1>1, <2>1
    <3> QED BY <3>1
  <2> QED BY <2>1
(* Where one piece follows another.                                        *)
<1>6. ASSUME NEW i \in 1 .. (a + c) - 1
      PROVE  \/ i \in 1 .. a - 1 /\ i \in 1 .. a /\ i + 1 \in 1 .. a
             \/ i = a /\ a \in 1 .. a /\ 1 \in 1 .. c /\ m.len # 0
             \/ \E j \in 1 .. c - 1 : i = a + j /\ j \in 1 .. c /\ j + 1 \in 1 .. c
                                      /\ i + 1 = a + (j + 1)
  <2>1. CASE i < a
    BY <1>1, <2>1
  <2>2. CASE i = a
    BY <1>1, <1>4, <2>2
  <2>3. CASE i > a
    <3>1. PICK j \in Int : i = a + j
      <4>1. i - a \in Int /\ i = a + (i - a)
        BY <1>1
      <4> QED BY <4>1
    <3>2. j \in 1 .. c - 1
      BY <1>1, <2>3, <3>1
    <3>3. j \in 1 .. c /\ j + 1 \in 1 .. c /\ i + 1 = a + (j + 1)
      BY <1>1, <3>1, <3>2
    <3> QED BY <3>1, <3>2, <3>3
  <2> QED BY <1>1, <2>1, <2>2, <2>3
(* No block begins again but at the seam.                                  *)
<1>7. ASSUME NEW i \in 1 .. (a + c) - 1, Restarts(u, i)
      PROVE  \/ i \in 1 .. a - 1 /\ Restarts(said, i) /\ u[i] = said[i]
             \/ /\ i = a /\ b < to.block /\ u[i][1] = b
  <2>1. CASE i \in 1 .. a - 1
    <3>1. u[i] = said[i] /\ u[i + 1] = said[i + 1]
      BY <1>1, <2>1
    <3> QED BY <1>7, <2>1, <3>1 DEF Restarts
  <2>2. CASE i = a /\ a \in 1 .. a
    <3>1. u[i] = said[a] /\ u[i + 1] = p[1] /\ 1 \in 1 .. c
      BY <1>1, <2>2
    <3>2. Meant(p[1]) = <<b, from + 1>> /\ Meant(p[1]) = <<said[a][1], 1>>
      BY <1>7, <3>1 DEF Restarts
    <3>3. said[a][1] = b /\ from = 0
      BY <3>2
    <3>4. ~(m.sent = 0)
      BY <1>2, <2>2, <3>3 DEF Heard
    <3> QED BY <2>2, <3>1, <3>3, <3>4
  <2>3. CASE \E j \in 1 .. c - 1 : i = a + j /\ j \in 1 .. c /\ j + 1 \in 1 .. c
                                   /\ i + 1 = a + (j + 1)
    <3>1. PICK j \in 1 .. c - 1 : i = a + j /\ j \in 1 .. c /\ j + 1 \in 1 .. c
                                  /\ i + 1 = a + (j + 1)
      BY <2>3
    <3>2. u[i + 1] = p[j + 1] /\ Meant(p[j + 1]) = <<b, from + (j + 1)>>
      BY <1>1, <3>1
    <3>3. from + (j + 1) = 1
      BY <1>7, <3>2 DEF Restarts
    <3> QED BY <3>1, <3>3, SMTT(20)
  <2> QED BY <1>6, <2>1, <2>2, <2>3
<1>8. \A i \in 1 .. Len(u) : u[i][1] <= to.block /\ (to.sent = 0 => u[i][1] < to.block)
  <2>1. ASSUME NEW i \in 1 .. a
        PROVE  u[i][1] <= to.block /\ (to.sent = 0 => u[i][1] < to.block)
    <3>1. u[i] = said[i] /\ said[i][1] \in Nat
      BY <1>1, MeantShape
    <3>2. said[i][1] <= b
      BY DEF Heard
    <3> QED BY <1>2, <3>1, <3>2
  <2>2. ASSUME NEW j \in 1 .. c
        PROVE  u[a + j][1] <= to.block /\ (to.sent = 0 => u[a + j][1] < to.block)
    BY <1>1, <1>2, <1>3
  <2> QED BY <1>1, <1>5, <2>1, <2>2
<1>9. u # <<>> /\ to.len # 0
  <2>1. Len(u) # 0 /\ to.len # 0
    BY <1>1
  <2> QED BY <2>1, EmptySeq
<1>10. Meant(u[1]) = all[1] /\ Meant(u[Len(u)]) = all[to.len]
  <2>1. Meant(u[Len(u)]) = all[to.len]
    <3>1. c \in 1 .. c
      BY <1>1
    <3>2. Meant(p[c]) = all[base + c]
      BY <3>1
    <3> QED BY <1>1, <3>1, <3>2
  <2>2. CASE a = 0
    <3>1. m.len = 0 /\ base = 0 /\ 1 \in 1 .. c /\ a + 1 = 1 /\ base + 1 = 1
      BY <1>1, <1>4, <2>2
    <3> QED BY <1>1, <2>1, <3>1, ZenonT(30)
  <2>3. CASE a # 0
    <3>1. 1 \in 1 .. a /\ said # <<>>
      BY <1>1, <2>3, EmptySeq
    <3>2. Meant(said[1]) = all[1]
      BY <3>1 DEF Heard
    <3> QED BY <1>1, <2>1, <3>1, <3>2
  <2> QED BY <2>2, <2>3
<1>11. ASSUME NEW i \in 1 .. Len(u) - 1
       PROVE  Follows(all, u, i) \/ (Restarts(u, i) /\ Excused(parted, u, u[i][1]))
  <2>0. i \in 1 .. (a + c) - 1
    BY <1>1
  <2>1. CASE i \in 1 .. a - 1 /\ i \in 1 .. a /\ i + 1 \in 1 .. a
    <3>1. u[i] = said[i] /\ u[i + 1] = said[i + 1]
      BY <1>1, <2>1
    <3>2. CASE Follows(all, said, i)
      BY <3>1, <3>2 DEF Follows
    <3>3. CASE Restarts(said, i) /\ Excused(parted, said, said[i][1])
      <4>1. Restarts(u, i)
        BY <3>1, <3>3 DEF Restarts
      <4>2. \A j \in DOMAIN said : j \in DOMAIN u /\ u[j] = said[j]
        <5>1. DOMAIN said = 1 .. a /\ DOMAIN u = 1 .. a + c
          BY <1>1, LenProperties
        <5>2. \A j \in 1 .. a : j \in 1 .. a + c
          BY <1>1
        <5> QED BY <1>1, <5>1, <5>2
      <4>3. Excused(parted, u, u[i][1])
        BY <3>1, <3>3, <4>2 DEF Excused
      <4> QED BY <4>1, <4>3
    <3> QED BY <2>1, <3>2, <3>3 DEF Heard
  <2>2. CASE i = a /\ a \in 1 .. a /\ 1 \in 1 .. c /\ m.len # 0
    <3>1. /\ u[i] = said[a] /\ u[i + 1] = p[1] /\ Meant(p[1]) = <<b, from + 1>>
          /\ all[base + 1] = <<b, from + 1>> /\ base + 1 <= Len(all)
      <4>1. u[a] = said[a] /\ u[a + 1] = p[1]
        BY <1>1, <2>2
      <4>2. Meant(p[1]) = <<b, from + 1>> /\ all[base + 1] = <<b, from + 1>>
        BY <2>2
      <4>3. base + 1 <= Len(all)
        BY <1>1, <1>2
      <4> QED BY <2>2, <4>1, <4>2, <4>3
    <3>2. Meant(said[a]) = all[m.len]
      <4>1. said # <<>>
        BY <1>4, <2>2, EmptySeq
      <4> QED BY <4>1 DEF Heard
    <3>3. CASE from = m.sent /\ base = m.len
      <4>1. base \in 1 .. Len(all) - 1
        BY <1>2, <2>2, <3>1, <3>3
      <4> QED BY <3>1, <3>2, <3>3, <4>1 DEF Follows
    <3>4. CASE from = 0 /\ all[m.len] = <<b, m.sent>> /\ Excused(parted, u, b)
      <4>1. said[a][1] = b
        <5>1. Meant(said[a])[1] = said[a][1]
          BY <1>1, <2>2, MeantShape
        <5> QED BY <3>2, <3>4, <5>1
      <4>2. Restarts(u, i)
        BY <3>1, <3>4, <4>1 DEF Restarts
      <4> QED BY <3>1, <3>4, <4>1, <4>2
    <3> QED BY <3>3, <3>4 DEF u
  <2>3. CASE \E j \in 1 .. c - 1 : i = a + j /\ j \in 1 .. c /\ j + 1 \in 1 .. c
                                   /\ i + 1 = a + (j + 1)
    <3>1. PICK j \in 1 .. c - 1 : i = a + j /\ j \in 1 .. c /\ j + 1 \in 1 .. c
                                  /\ i + 1 = a + (j + 1)
      BY <2>3
    <3>2. u[i] = p[j] /\ u[i + 1] = p[j + 1]
      BY <1>1, <3>1
    <3>3. Meant(p[j]) = all[base + j] /\ Meant(p[j + 1]) = all[base + (j + 1)]
      BY <3>1
    <3>4. base + (j + 1) = (base + j) + 1 /\ base + j \in 1 .. Len(all) - 1
      BY <1>1, <1>2, <3>1
    <3> QED BY <3>2, <3>3, <3>4 DEF Follows
  <2> QED BY <1>6, <2>0, <2>1, <2>2, <2>3
<1>12. ASSUME NEW i \in 1 .. Len(u) - 1, Restarts(u, i)
       PROVE  u[i][1] < to.block
  <2>1. i \in 1 .. (a + c) - 1
    BY <1>1
  <2>2. CASE i \in 1 .. a - 1 /\ Restarts(said, i) /\ u[i] = said[i]
    <3>1. said[i][1] < b /\ said[i][1] \in Nat
      <4>1. i \in 1 .. a
        BY <1>1, <2>2
      <4> QED BY <1>1, <2>2, <4>1, MeantShape DEF Heard
    <3> QED BY <1>2, <2>2, <3>1
  <2> QED BY <1>7, <1>12, <2>1, <2>2
<1>13. ASSUME NEW i \in 1 .. Len(u) - 1, NEW j \in 1 .. Len(u) - 1,
              Restarts(u, i), Restarts(u, j), u[i][1] = u[j][1]
       PROVE  i = j
  <2>1. i \in 1 .. (a + c) - 1 /\ j \in 1 .. (a + c) - 1
    BY <1>1
  <2>2. \A k \in 1 .. a - 1 : Restarts(said, k) => said[k][1] # b
    <3>1. ASSUME NEW k \in 1 .. a - 1, Restarts(said, k) PROVE said[k][1] # b
      <4>1. said[k][1] < b /\ said[k][1] \in Nat
        <5>1. k \in 1 .. a
          BY <1>1
        <5> QED BY <1>1, <3>1, <5>1, MeantShape DEF Heard
      <4> QED BY <1>2, <4>1
    <3> QED BY <3>1
  <2>3. i = a \/ (i \in 1 .. a - 1 /\ Restarts(said, i) /\ u[i] = said[i])
    BY <1>7, <1>13, <2>1
  <2>4. j = a \/ (j \in 1 .. a - 1 /\ Restarts(said, j) /\ u[j] = said[j])
    BY <1>7, <1>13, <2>1
  <2>5. (i = a => i \notin 1 .. a - 1) /\ (j = a => j \notin 1 .. a - 1)
    BY <1>1
  <2>6. (i = a => u[i][1] = b) /\ (j = a => u[j][1] = b)
    BY <1>7, <1>13, <2>1, <2>5
  <2>7. CASE i \in 1 .. a - 1 /\ j \in 1 .. a - 1
    BY <1>13, <2>3, <2>4, <2>5, <2>7 DEF Heard
  <2> QED BY <1>13, <2>2, <2>3, <2>4, <2>6, <2>7
<1>14. Heard(all, parted, u, to)
  BY <1>8, <1>9, <1>10, <1>11, <1>12, <1>13 DEF Heard
<1> QED BY <1>14 DEF u

(* Nothing is said, and the block is over.                                 *)
LEMMA HeardOn ==
  ASSUME NEW all, NEW parted, NEW said \in Seq(Piece), NEW m \in Mark, NEW to \in Mark,
         Heard(all, parted, said, m), m.block < to.block, to.len = m.len
  PROVE  Heard(all, parted, said, to)
<1>1. m.block \in Nat /\ to.block \in Nat
  BY DEF Mark
<1>2. \A i \in 1 .. Len(said) : said[i][1] \in Nat
  BY ElementOfSeq, MeantShape
<1>3. \A i \in 1 .. Len(said) : said[i][1] <= m.block
  BY DEF Heard
<1>4. \A i \in 1 .. Len(said) : said[i][1] < to.block /\ said[i][1] <= to.block
  BY <1>1, <1>2, <1>3
<1>5. \A i \in 1 .. Len(said) - 1 : i \in 1 .. Len(said)
  BY LenProperties
<1> QED BY <1>4, <1>5 DEF Heard

(* What was heard and streamed stays so when more is told.                 *)
LEMMA HeardStays ==
  ASSUME NEW all \in Seq(Piece), NEW more \in Seq(Piece), NEW parted, NEW parts,
         parted \subseteq parts, NEW said \in Seq(Piece), NEW run, NEW m \in Mark,
         Heard(all, parted, said, m), Streams(run, all, said, m)
  PROVE  Heard(all \o more, parts, said, m) /\ Streams(run, all \o more, said, m)
<1> DEFINE u == all \o more
<1>1. /\ Len(u) = Len(all) + Len(more) /\ Len(all) \in Nat /\ Len(more) \in Nat
      /\ \A i \in 1 .. Len(all) : u[i] = all[i]
  BY ConcatProperties, LenProperties
<1> HIDE DEF u
<1>2. m.len \in Nat /\ m.sent \in Nat /\ m.sent <= m.len /\ m.len <= Len(all)
  BY DEF Mark, Streams
<1>3. said # <<>> => 1 \in 1 .. Len(all) /\ m.len \in 1 .. Len(all)
  BY <1>1, <1>2 DEF Heard
<1>4. \A j \in 1 .. m.sent : (m.len - m.sent) + j \in 1 .. Len(all)
  BY <1>1, <1>2
<1>5. ASSUME NEW i, Follows(all, said, i)
      PROVE  Follows(u, said, i)
  <2>1. PICK j \in 1 .. Len(all) - 1 :
            Meant(said[i]) = all[j] /\ Meant(said[i + 1]) = all[j + 1]
    BY <1>5 DEF Follows
  <2>2. j \in 1 .. Len(all) /\ j + 1 \in 1 .. Len(all) /\ j \in 1 .. Len(u) - 1
    BY <1>1
  <2> QED BY <1>1, <2>1, <2>2 DEF Follows
<1>6. \A b : Excused(parted, said, b) => Excused(parts, said, b)
  BY DEF Excused
<1>7. Heard(u, parts, said, m)
  BY <1>1, <1>3, <1>5, <1>6 DEF Heard
<1>8. Streams(run, u, said, m)
  <2>1. m.len <= Len(u)
    BY <1>1, <1>2
  <2> QED BY <1>1, <1>4, <2>1 DEF Streams
<1> QED BY <1>7, <1>8 DEF u

(* What a line tells stays told.                                           *)
LEMMA PassesStays ==
  ASSUME NEW all \in Seq(Piece), NEW more \in Seq(Piece), NEW parted, NEW parts,
         parted \subseteq parts, NEW from \in Mark, NEW line,
         NEW to, Passes(all, parted, from, line, to)
  PROVE  Passes(all \o more, parts, from, line, to)
<1> DEFINE u == all \o more
<1>1. /\ Len(u) = Len(all) + Len(more) /\ Len(all) \in Nat /\ Len(more) \in Nat
      /\ \A i \in 1 .. Len(all) : u[i] = all[i]
  BY ConcatProperties, LenProperties
<1> HIDE DEF u
<1>2. ASSUME NEW pieces, Len(pieces) \in Nat, Tells(all, from.len, pieces)
      PROVE  Tells(u, from.len, pieces)
  <2>1. from.len \in Nat
    BY DEF Mark
  <2>2. \A j \in 1 .. Len(pieces) : from.len + j \in 1 .. Len(all)
    BY <1>1, <1>2, <2>1 DEF Tells
  <2>3. from.len + Len(pieces) <= Len(all) /\ \A j \in 1 .. Len(pieces) : all[from.len + j] = pieces[j]
    BY <1>2 DEF Tells
  <2>4. from.len + Len(pieces) <= Len(u)
    BY <1>1, <1>2, <2>1, <2>3
  <2>5. ASSUME NEW j \in 1 .. Len(pieces) PROVE u[from.len + j] = pieces[j]
    <3>1. u[from.len + j] = all[from.len + j]
      BY <1>1, <2>2
    <3> QED BY <2>3, <3>1
  <2> QED BY <2>4, <2>5 DEF Tells
<1>3. from.block \in Nat /\ from.sent \in Nat
  BY DEF Mark
<1>4. CASE line.type = "delta"
  <2>1. Len(Block(from.block, from.sent, from.sent + 1)) \in Nat
    <3>1. from.sent + 1 \in Nat /\ from.sent <= from.sent + 1
          /\ (from.sent + 1) - from.sent = 1
      BY <1>3
    <3> QED BY <1>3, <3>1, BlockShape
  <2> QED BY <1>2, <1>4, <2>1 DEF Passes, u
<1>5. CASE line.type = "assistant"
  <2>1. PICK n \in Nat :
             /\ from.sent <= n /\ (line.cut = 0 \/ line.cut < n)
             /\ line.text = Block(from.block, 0, n)
             /\ Tells(all, from.len, Block(from.block, from.sent, n))
             /\ to = [block |-> from.block + 1, sent |-> 0,
                      len |-> from.len + (n - from.sent)]
    BY <1>5 DEF Passes
  <2>2. Len(Block(from.block, from.sent, n)) \in Nat
    BY <1>3, <2>1, BlockShape
  <2>3. Tells(u, from.len, Block(from.block, from.sent, n))
    BY <1>2, <2>1, <2>2
  <2>4. line.cut = 0 \/ from.block \in parts
    BY <1>5 DEF Passes
  <2> QED BY <1>5, <2>1, <2>3, <2>4 DEF Passes, u
<1>6. CASE line.type \notin {"delta", "assistant"}
  BY <1>6 DEF Passes
<1> QED BY <1>4, <1>5, <1>6

(* What is appended is told.                                               *)
LEMMA TellsNew ==
  ASSUME NEW all \in Seq(Piece), NEW more \in Seq(Piece)
  PROVE  /\ Len(all \o more) = Len(all) + Len(more)
         /\ Tells(all \o more, Len(all), more)
<1> DEFINE u == all \o more
<1>1. /\ Len(u) = Len(all) + Len(more) /\ Len(all) \in Nat /\ Len(more) \in Nat
      /\ \A j \in 1 .. Len(all) + Len(more) :
             u[j] = IF j <= Len(all) THEN all[j] ELSE more[j - Len(all)]
  BY ConcatProperties, LenProperties
<1> HIDE DEF u
<1>2. ASSUME NEW j \in 1 .. Len(more)
      PROVE  u[Len(all) + j] = more[j]
  <2>1. /\ Len(all) + j \in 1 .. Len(all) + Len(more) /\ ~(Len(all) + j <= Len(all))
        /\ (Len(all) + j) - Len(all) = j
    BY <1>1
  <2> QED BY <1>1, <2>1
<1>3. Tells(u, Len(all), more)
  BY <1>1, <1>2 DEF Tells
<1> QED BY <1>1, <1>3 DEF u

LEMMA UnderwayInit == Init => Underway
<1> SUFFICES ASSUME Init PROVE Underway
  OBVIOUS
<1> DEFINE m == [block |-> 1, sent |-> 0, len |-> 0]
           at == <<m>>
<1>1. /\ at \in Seq(Mark) /\ Len(at) = 1 /\ at[1] = m
  BY DEF Mark
<1>2. Text = <<>> /\ Len(<<>>) = 0
  <2>1. output = <<>> /\ output \in Seq(Shown) /\ Len(output) = 0
    BY EmptySeq DEF Init
  <2>2. PICK g : Told(g, output) /\ Spoken(output) = g[Len(output)]
    BY <2>1, SpokenTold
  <2> QED BY <2>1, <2>2 DEF Told, Text
<1>3. Heard(told, cli.parted, Text, m) /\ Streams(streamed, told, Text, m)
  BY <1>2 DEF Heard, Streams, Init
<1>4. Marks(at)
  BY <1>1, <1>2, <1>3 DEF Marks, Init
<1> QED BY <1>4 DEF Underway

(* The agent prints a line and tells its text.                             *)
LEMMA SaysMarks ==
  ASSUME TypeOK, Underway, NEW event \in Event, NEW more \in Seq(Piece),
         pipe' = Append(pipe, event), told' = told \o more,
         UNCHANGED <<output, streamed>>,
         cli'.block \in Nat \ {0}, cli'.sent \in Nat, cli.parted \subseteq cli'.parted,
         Passes(told', cli'.parted,
                [block |-> cli.block, sent |-> cli.sent, len |-> Len(told)], event,
                [block |-> cli'.block, sent |-> cli'.sent, len |-> Len(told')])
  PROVE  Underway'
<1>1. PICK at : Marks(at)
  BY DEF Underway
<1>0. PICK new : new = [block |-> cli'.block, sent |-> cli'.sent, len |-> Len(told')]
  OBVIOUS
<1> DEFINE on == Append(at, new)
           n == Len(pipe)
<1>2. /\ told \in Seq(Piece) /\ pipe \in Seq(Event) /\ n \in Nat /\ Len(told) \in Nat
      /\ at \in Seq(Mark) /\ Len(at) = n + 1
  BY <1>1, LenProperties DEF TypeOK, Marks
<1>3. /\ told' \in Seq(Piece) /\ Len(told') \in Nat /\ Len(told) <= Len(told')
      /\ \A j \in 1 .. Len(told) : told'[j] = told[j]
  BY <1>2, ConcatProperties, LenProperties
<1>4. new \in Mark
  BY <1>0, <1>3 DEF Mark
<1>5. /\ on \in Seq(Mark) /\ Len(on) = n + 2 /\ on[n + 2] = new
      /\ \A i \in 1 .. n + 1 : on[i] = at[i]
  BY <1>2, <1>4, AppendProperties
<1>6. /\ Len(pipe') = n + 1 /\ pipe'[n + 1] = event
      /\ \A i \in 1 .. n : pipe'[i] = pipe[i]
  BY <1>2, AppendProperties
<1> HIDE DEF on
<1>7. ASSUME NEW i \in 1 .. n + 1
      PROVE  Passes(told', cli'.parted, on[i], pipe'[i], on[i + 1])
  <2>1. CASE i = n + 1
    <3>0. i + 1 = n + 2
      BY <1>2, <2>1
    <3>1. on[i] = at[n + 1] /\ on[i + 1] = new /\ pipe'[i] = event
      BY <1>5, <1>6, <2>1, <3>0
    <3>2. at[n + 1] = [block |-> cli.block, sent |-> cli.sent, len |-> Len(told)]
      BY <1>1 DEF Marks
    <3> QED BY <1>0, <3>1, <3>2
  <2>2. CASE i # n + 1
    <3>1. i \in 1 .. n /\ i \in 1 .. n + 1 /\ i + 1 \in 1 .. n + 1
      BY <1>2, <2>2
    <3>2. on[i] = at[i] /\ on[i + 1] = at[i + 1] /\ pipe'[i] = pipe[i]
      BY <1>5, <1>6, <3>1
    <3>3. at[i] \in Mark
      BY <1>2, <3>1, ElementOfSeq
    <3>4. Passes(told, cli.parted, at[i], pipe[i], at[i + 1])
      BY <1>1, <3>1 DEF Marks
    <3>5. Passes(told \o more, cli'.parted, at[i], pipe[i], at[i + 1])
      BY <1>2, <3>3, <3>4, PassesStays
    <3> QED BY <3>2, <3>5
  <2> QED BY <2>1, <2>2
<1>8. Text' = Text /\ streamed' = streamed /\ Text \in Seq(Piece)
  BY SpokenNoise DEF Text, Shown, TypeOK
<1>9. on[1] = at[1] /\ at[1] \in Mark
  BY <1>2, <1>5, ElementOfSeq
<1>10. Heard(told', cli'.parted, Text', on[1]) /\ Streams(streamed', told', Text', on[1])
  <2>1. Heard(told, cli.parted, Text, at[1]) /\ Streams(streamed, told, Text, at[1])
    BY <1>1 DEF Marks
  <2>2. /\ Heard(told \o more, cli'.parted, Text, at[1])
        /\ Streams(streamed, told \o more, Text, at[1])
    BY <1>2, <1>8, <1>9, <2>1, HeardStays
  <2> QED BY <1>8, <1>9, <2>2
<1>11. on[Len(pipe') + 1] = new
  <2>1. (n + 1) + 1 = n + 2
    BY <1>2
  <2> QED BY <1>5, <1>6, <2>1
<1>12. Marks(on)'
  <2>1. Len(on) = Len(pipe') + 1
    BY <1>2, <1>5, <1>6
  <2>2. \A i \in 1 .. Len(pipe') : Passes(told', cli'.parted, on[i], pipe'[i], on[i + 1])
    BY <1>6, <1>7
  <2> QED BY <1>0, <1>5, <1>10, <1>11, <2>1, <2>2 DEF Marks
<1> QED BY <1>12 DEF Underway

(* The runner reads the first line, and what it says ends at the next mark.*)
LEMMA ReadMarks ==
  ASSUME TypeOK, NEW at, Marks(at), pipe # <<>>, pipe' = Tail(pipe),
         UNCHANGED <<cli, told>>,
         Heard(told, cli.parted, Text', at[2]), Streams(streamed', told, Text', at[2])
  PROVE  Underway'
<1> DEFINE n == Len(pipe)
           on == Tail(at)
<1>1. /\ pipe \in Seq(Event) /\ n \in Nat \ {0} /\ at \in Seq(Mark) /\ Len(at) = n + 1
      /\ at # <<>>
  BY EmptySeq, LenProperties DEF TypeOK, Marks
<1>2. /\ on \in Seq(Mark) /\ Len(on) = n /\ \A i \in 1 .. n : on[i] = at[i + 1]
  BY <1>1, HeadTailProperties
<1>3. /\ Len(pipe') = n - 1 /\ \A i \in 1 .. n - 1 : pipe'[i] = pipe[i + 1]
  BY <1>1, HeadTailProperties
<1> HIDE DEF on
<1>4. ASSUME NEW i \in 1 .. n - 1
      PROVE  Passes(told, cli.parted, on[i], pipe'[i], on[i + 1])
  <2>1. i \in 1 .. n /\ i + 1 \in 1 .. n
    BY <1>1
  <2>2. on[i] = at[i + 1] /\ on[i + 1] = at[(i + 1) + 1] /\ pipe'[i] = pipe[i + 1]
    BY <1>2, <1>3, <2>1
  <2> QED BY <2>1, <2>2 DEF Marks
<1>5. on[1] = at[2] /\ on[n] = at[n + 1]
  <2>1. 1 \in 1 .. n /\ n \in 1 .. n /\ 1 + 1 = 2
    BY <1>1
  <2> QED BY <1>2, <2>1
<1>6. on[Len(pipe') + 1] = [block |-> cli'.block, sent |-> cli'.sent, len |-> Len(told')]
  <2>1. (n - 1) + 1 = n
    BY <1>1
  <2> QED BY <1>3, <1>5, <2>1 DEF Marks
<1>7. Len(on) = Len(pipe') + 1
  BY <1>1, <1>2, <1>3
<1>8. Marks(on)'
  BY <1>2, <1>3, <1>4, <1>5, <1>6, <1>7 DEF Marks
<1> QED BY <1>8 DEF Underway

-----------------------------------------------------------------------------
(* Every action keeps the invariant.                                       *)

LEMMA InitHolds == Init => IInv
<1> SUFFICES ASSUME Init PROVE IInv
  OBVIOUS
<1>1. TypeOK
  <2>1. <<>> \in Seq(Event) /\ <<>> \in Seq(Piece) /\ <<>> \in Seq(Piece \cup {Noise})
    BY EmptySeq
  <2>2. cli \in Progress
    BY DEF Init, Progress
  <2> QED BY <2>1, <2>2 DEF Init, TypeOK
<1> QED BY <1>1 DEF Init, IInv, Life, Results, OutcomeTruthful

(* Starting and settling.                                                  *)
LEMMA StartStep ==
  ASSUME IInv, StartThrows \/ Spawn
  PROVE  IInv'
<1> USE DEF child, agent, watch, text
<1>1. TypeOK'
  BY DEF IInv, TypeOK, StartThrows, Spawn
<1>2. Life' /\ OutcomeTruthful'
  BY DEF IInv, Life, OutcomeTruthful, Results, TypeOK, StartThrows, Spawn
<1>3. Results'
  BY DEF IInv, Life, Results, ErrorUnread, TypeOK, StartThrows, Spawn
<1> QED BY <1>1, <1>2, <1>3 DEF IInv

LEMMA SettleStep ==
  ASSUME IInv, SpawnError \/ Close
  PROVE  IInv'
<1> USE DEF child, agent, watch, text
<1>1. TypeOK'
  BY DEF IInv, TypeOK, SpawnError, Close, Resolve
<1>2. Life'
  BY DEF IInv, Life, TypeOK, SpawnError, Close, Resolve
<1>3. Results'
  BY DEF IInv, Life, Results, ErrorUnread, TypeOK, SpawnError, Close
<1>4. OutcomeTruthful'
  <2>1. CASE SpawnError
    BY <2>1 DEF IInv, Life, OutcomeTruthful, SpawnError, Resolve
  <2>2. CASE Close
    <3>1. /\ pipe' = <<>> /\ timer' = FALSE /\ running' = FALSE
          /\ UNCHANGED <<code, cli, cancelled, failure>>
      BY <2>2 DEF IInv, Life, Close
    <3>2. CASE outcome # "none"
      BY <2>2, <3>1, <3>2 DEF IInv, OutcomeTruthful, Close, Resolve
    <3>3. CASE outcome = "none"
      <4>1. outcome' = IF cancelled THEN "cancelled"
                       ELSE IF code = "zero" /\ ~failure THEN "succeeded" ELSE "failed"
        BY <2>2, <3>3 DEF Close, Resolve
      <4>2. code = "zero" /\ ~failure => cli.result = "ok"
        BY <2>2 DEF IInv, TypeOK, Progress, Results, ErrorUnread, Close
      <4> QED BY <3>1, <4>1, <4>2 DEF OutcomeTruthful
    <3> QED BY <3>2, <3>3
  <2> QED BY <2>1, <2>2
<1> QED BY <1>1, <1>2, <1>3, <1>4 DEF IInv

(* Signals and timers act on a call under way, or on nothing.              *)
LEMMA SignalStep ==
  ASSUME IInv, Timeout \/ Age \/ StallWatch \/ Cancel \/ Escalate
  PROVE  IInv'
<1> USE DEF child, agent, watch, text
<1>1. TypeOK'
  <2>1. Kill => killed' \in BOOLEAN
    BY DEF Kill
  <2>2. CASE Timeout
    BY <2>1, <2>2 DEF IInv, TypeOK, Timeout
  <2>3. CASE Age
    BY <2>3 DEF IInv, TypeOK, Age
  <2>4. CASE StallWatch
    BY <2>1, <2>4 DEF IInv, TypeOK, StallWatch
  <2>5. CASE Cancel
    BY <2>1, <2>5 DEF IInv, TypeOK, Cancel
  <2>6. CASE Escalate
    BY <2>6 DEF IInv, TypeOK, Escalate
  <2> QED BY <2>2, <2>3, <2>4, <2>5, <2>6
<1>2. Life'
  BY DEF IInv, Life, TypeOK, Timeout, Age, StallWatch, Cancel, Escalate
<1>3. Results'
  BY DEF IInv, Life, Results, ErrorUnread, TypeOK, Timeout, Age, StallWatch, Cancel,
         Escalate
<1>4. OutcomeTruthful'
  BY DEF IInv, Life, OutcomeTruthful, TypeOK, Timeout, Age, StallWatch, Cancel, Escalate
<1> QED BY <1>1, <1>2, <1>3, <1>4 DEF IInv

(* The child prints a line.                                                *)
LEMMA SaysKeeps ==
  ASSUME IInv, NEW event \in Event, Says(event),
         cli' \in Progress, told' \in Seq(Piece),
         cli'.result = "error" => event = ErrorResult
  PROVE  IInv'
<1> USE DEF child, watch, text
<1>1. TypeOK'
  BY DEF IInv, TypeOK, Says
<1>2. Life' /\ OutcomeTruthful'
  BY DEF IInv, Life, OutcomeTruthful, TypeOK, Says
<1>3. Results'
  <2>1. pipe' # <<>> /\ pipe'[Len(pipe')] = event
    BY AppendProperties, LenProperties DEF IInv, TypeOK, Says
  <2>2. code # "zero"
    BY DEF IInv, Results, Says
  <2> QED BY <2>1, <2>2 DEF Results, ErrorUnread, Says
<1> QED BY <1>1, <1>2, <1>3 DEF IInv

LEMMA TalkStep ==
  ASSUME IInv,
         \/ CliDelta \/ CliNoise
         \/ \E n, cut \in 0 .. MaxText, calls \in SUBSET Calls : CliAssistant(n, cut, calls)
         \/ \E id \in Calls, ok \in BOOLEAN : CliToolResult(id, ok)
         \/ \E ok \in BOOLEAN : CliResult(ok)
  PROVE  IInv'
<1>0. cli \in Progress /\ told \in Seq(Piece)
  BY DEF IInv, TypeOK
<1>1. CASE CliDelta
  <2> DEFINE piece == Block(cli.block, cli.sent, cli.sent + 1)
             event == [type |-> "delta", text |-> piece]
  <2>1. piece \in Seq(Piece)
    <3>1. /\ cli.block \in 1 .. MaxBlocks /\ cli.sent \in Nat
          /\ cli.sent + 1 \in 0 .. MaxText /\ cli.sent <= cli.sent + 1
      BY <1>1, <1>0, RunnerAssumption DEF CliDelta, Progress
    <3> QED BY <3>1, BlockType
  <2>2. event \in Event
    BY <2>1 DEF Event
  <2>3. told \o piece \in Seq(Piece)
    BY <1>0, <2>1, ConcatProperties
  <2>4. Says(event) /\ told' = told \o piece
    BY <1>1 DEF CliDelta
  <2>5. cli' = [cli EXCEPT !.sent = @ + 1] /\ cli.result = "none"
    BY <1>1 DEF CliDelta, Says
  <2>6. cli' \in Progress /\ cli'.result = "none"
    BY <1>0, <2>5 DEF Progress
  <2> HIDE DEF piece, event
  <2> QED BY <2>2, <2>3, <2>4, <2>6, SaysKeeps
<1>2. CASE CliNoise
  <2>1. [type |-> "noise"] \in Event
    BY DEF Event
  <2>2. /\ Says([type |-> "noise"]) /\ told' = told
        /\ cli' = [cli EXCEPT !.noise = @ + 1] /\ cli.result = "none"
    BY <1>2 DEF CliNoise, Says
  <2>3. cli' \in Progress /\ cli'.result = "none"
    BY <1>0, <2>2 DEF Progress
  <2> QED BY <1>0, <2>1, <2>2, <2>3, SaysKeeps
<1>3. ASSUME NEW n \in 0 .. MaxText, NEW cut \in 0 .. MaxText,
             NEW calls \in SUBSET Calls, CliAssistant(n, cut, calls)
      PROVE  IInv'
  <2> DEFINE whole == Block(cli.block, 0, n)
             rest == Block(cli.block, cli.sent, n)
             event == [type |-> "assistant", text |-> whole, cut |-> cut, calls |-> calls]
  <2>1. whole \in Seq(Piece) /\ rest \in Seq(Piece) /\ Len(whole) = n
    <3>1. cli.block <= MaxBlocks /\ cli.sent <= n
      BY <1>3 DEF CliAssistant
    <3>2. cli.block \in 1 .. MaxBlocks /\ cli.sent \in Nat /\ n \in Nat /\ 0 <= n
      BY <1>0, <3>1, RunnerAssumption DEF Progress
    <3>3. whole \in Seq(Piece) /\ rest \in Seq(Piece)
      BY <3>1, <3>2, BlockType
    <3>4. Len(whole) = n
      BY <3>2 DEF Block
    <3> QED BY <3>3, <3>4
  <2>2. event \in Event
    <3>1. cut = 0 \/ cut < n
      BY <1>3 DEF CliAssistant
    <3>2. n \in Nat /\ cut \in Nat
      BY RunnerAssumption
    <3> HIDE DEF whole
    <3>3. cut \in Nat /\ cut <= Len(whole)
      BY <2>1, <3>1, <3>2
    <3> QED BY <2>1, <3>3 DEF Event
  <2>3. told \o rest \in Seq(Piece)
    BY <1>0, <2>1, ConcatProperties
  <2>4. Says(event) /\ told' = told \o rest
    BY <1>3 DEF CliAssistant
  <2>5. /\ cli' = [cli EXCEPT !.block = @ + 1, !.sent = 0,
                              !.parted = IF cut = 0 THEN @ ELSE @ \cup {cli.block},
                              !.open = @ \cup calls, !.used = @ \cup calls]
        /\ cli.result = "none"
    BY <1>3 DEF CliAssistant, Says
  <2>6. cli' \in Progress /\ cli'.result = "none"
    <3> DEFINE parted == IF cut = 0 THEN cli.parted ELSE cli.parted \cup {cli.block}
    <3>1. cli' = [block |-> cli.block + 1, sent |-> 0, parted |-> parted, noise |-> cli.noise,
                  open |-> cli.open \cup calls, used |-> cli.used \cup calls,
                  result |-> "none"]
      BY <1>0, <2>5 DEF Progress
    <3>2. /\ cli.block + 1 \in Nat \ {0} /\ cli.noise \in Nat /\ parted \in SUBSET Nat
          /\ cli.open \cup calls \in SUBSET Calls /\ cli.used \cup calls \in SUBSET Calls
      BY <1>0 DEF Progress
    <3> QED BY <3>1, <3>2 DEF Progress
  <2> HIDE DEF whole, rest, event
  <2> QED BY <2>2, <2>3, <2>4, <2>6, SaysKeeps
<1>4. ASSUME NEW id \in Calls, NEW ok \in BOOLEAN, CliToolResult(id, ok)
      PROVE  IInv'
  <2>1. [type |-> "tool", id |-> id, ok |-> ok] \in Event
    BY DEF Event
  <2>2. /\ Says([type |-> "tool", id |-> id, ok |-> ok]) /\ told' = told
        /\ cli' = [cli EXCEPT !.open = @ \ {id}] /\ cli.result = "none"
    BY <1>4 DEF CliToolResult, Says
  <2>3. cli' \in Progress /\ cli'.result = "none"
    BY <1>0, <2>2 DEF Progress
  <2> QED BY <1>0, <2>1, <2>2, <2>3, SaysKeeps
<1>5. ASSUME NEW ok \in BOOLEAN, CliResult(ok)
      PROVE  IInv'
  <2>1. [type |-> "result", ok |-> ok] \in Event
    BY DEF Event
  <2>2. /\ Says([type |-> "result", ok |-> ok]) /\ told' = told
        /\ cli' = [cli EXCEPT !.result = IF ok THEN "ok" ELSE "error"]
    BY <1>5 DEF CliResult
  <2>3. cli' \in Progress /\ (cli'.result = "error" => ok = FALSE)
    BY <1>0, <2>2 DEF Progress
  <2>4. cli'.result = "error" => [type |-> "result", ok |-> ok] = ErrorResult
    BY <2>3 DEF ErrorResult
  <2> QED BY <1>0, <2>1, <2>2, <2>3, <2>4, SaysKeeps
<1> QED BY <1>1, <1>2, <1>3, <1>4, <1>5

LEMMA ExitStep ==
  ASSUME IInv, NEW c \in {"zero", "other"}, ChildExits(c)
  PROVE  IInv'
<1> USE DEF child, agent, watch, text
<1>1. TypeOK'
  BY DEF IInv, TypeOK, ChildExits
<1>2. Life' /\ OutcomeTruthful'
  BY DEF IInv, Life, OutcomeTruthful, TypeOK, ChildExits
<1>3. Results'
  BY DEF IInv, Results, ErrorUnread, ChildExits
<1> QED BY <1>1, <1>2, <1>3 DEF IInv

(* The runner reads a line, and remembers the error if there is one.       *)
LEMMA ReadKeeps ==
  ASSUME IInv, pipe # <<>>, pipe' = Tail(pipe),
         UNCHANGED <<proc, code, cli, running, timer, outcome>>,
         failure \/ Line = ErrorResult => failure'
  PROVE  Life' /\ Results' /\ OutcomeTruthful'
<1>1. running /\ outcome = "none"
  BY DEF IInv, Life
<1>2. Life' /\ OutcomeTruthful'
  BY <1>1 DEF IInv, Life, OutcomeTruthful
<1>3. ErrorUnread => Line = ErrorResult \/ ErrorUnread'
  BY LineTyped DEF IInv, TypeOK, ErrorUnread
<1>4. Results'
  BY <1>3 DEF IInv, Results
<1> QED BY <1>2, <1>4

LEMMA ReadStep ==
  ASSUME IInv, ReadLine
  PROVE  IInv'
<1> USE DEF child, agent, watch, text
<1>1. Line \in Event /\ Tail(pipe) \in Seq(Event) /\ pipe # <<>> /\ pipe' = Tail(pipe)
  <2>1. pipe # <<>> /\ pipe' = Tail(pipe)
    BY DEF ReadLine, ReadDelta, ReadAssistant, ReadToolOk, ReadToolFailed, ReadResult,
           ReadNoise, Read
  <2> QED BY <2>1, LineTyped DEF IInv, TypeOK
<1>2. \A pieces \in Seq(Piece) : output \o pieces \in Seq(Piece \cup {Noise})
  <2>1. ASSUME NEW pieces \in Seq(Piece)
        PROVE  output \o pieces \in Seq(Piece \cup {Noise})
    <3>1. pieces \in Seq(Piece \cup {Noise}) /\ output \in Seq(Piece \cup {Noise})
      BY SeqMonotonic DEF IInv, TypeOK
    <3> QED BY <3>1, ConcatProperties
  <2> QED BY <2>1
<1>3. output \o <<Noise>> \in Seq(Piece \cup {Noise})
  <2>1. <<Noise>> \in Seq(Piece \cup {Noise}) /\ output \in Seq(Piece \cup {Noise})
    BY DEF IInv, TypeOK
  <2> QED BY <2>1, ConcatProperties
<1>4. TypeOK'
  <2> USE DEF IInv, TypeOK
  <2>1. CASE ReadDelta
    <3>1. Line.text \in Seq(Piece)
      BY <1>1, <2>1 DEF Event, ReadDelta, Read
    <3>2. PICK said \in Decodings(Line.text) :
              output' = output \o said /\ streamed' = streamed \o said
      BY <2>1 DEF ReadDelta, Emit
    <3>3. said \in Seq(Piece)
      BY <3>1, DecodedShape
    <3>4. streamed \o said \in Seq(Piece)
      BY <3>3, ConcatProperties
    <3> QED BY <1>1, <1>2, <2>1, <3>2, <3>3, <3>4 DEF ReadDelta, Read, Alive
  <2>2. CASE ReadAssistant
    <3>1. /\ Line.text \in Seq(Piece) /\ Line.calls \in SUBSET Calls
          /\ Line.cut \in Nat /\ Line.cut <= Len(Line.text)
      BY <1>1, <2>2 DEF Event, ReadAssistant, Read
    <3>2. output' \in Seq(Piece \cup {Noise})
      <4>1. PICK said \in Decodings(Line.text) : output' = output \o Emitted(said, Line.cut)
        BY <2>2 DEF ReadAssistant, EmitParts, Emit, Emitted
      <4>2. said \in Seq(Piece) /\ Len(said) = Len(Line.text)
        BY <3>1, DecodedShape
      <4>3. Emitted(said, Line.cut) \in Seq(Piece)
        BY <3>1, <4>2, EmittedType
      <4> QED BY <1>2, <4>1, <4>3
    <3>3. streamed' \in Seq(Piece)
      BY <2>2, EmptySeq DEF ReadAssistant
    <3>4. fresh' \in BOOLEAN /\ failures' \in Nat
      <4>1. CASE Line.text = <<>>
        BY <2>2, <4>1 DEF ReadAssistant
      <4>2. CASE Line.text # <<>>
        BY <2>2, <4>2 DEF ReadAssistant, Alive
      <4> QED BY <4>1, <4>2
    <3> QED BY <1>1, <2>2, <3>1, <3>2, <3>3, <3>4 DEF ReadAssistant, Read
  <2>3. CASE ReadToolOk
    BY <1>1, <1>3, <2>3 DEF ReadToolOk, Read, Emit, Alive
  <2>4. CASE ReadToolFailed
    <3>1. Kill => killed' \in BOOLEAN
      BY DEF Kill
    <3>2. /\ killed' \in BOOLEAN /\ cancelled' \in BOOLEAN /\ failure' \in BOOLEAN
          /\ failures' \in Nat
      <4>1. failures' = failures + 1
        BY <2>4 DEF ReadToolFailed
      <4>2. CASE failures + 1 >= MaxFailed /\ ~cancelled
        BY <2>4, <3>1, <4>1, <4>2 DEF ReadToolFailed
      <4>3. CASE ~(failures + 1 >= MaxFailed /\ ~cancelled)
        BY <2>4, <4>1, <4>3 DEF ReadToolFailed
      <4> QED BY <4>2, <4>3
    <3> QED BY <1>1, <1>3, <2>4, <3>2 DEF ReadToolFailed, Emit
  <2>5. CASE ReadResult
    BY <1>1, <2>5 DEF ReadResult, Read
  <2>6. CASE ReadNoise
    BY <1>1, <1>3, <2>6 DEF ReadNoise, Read, Emit
  <2> QED BY <2>1, <2>2, <2>3, <2>4, <2>5, <2>6 DEF ReadLine
<1>5. UNCHANGED <<proc, code, cli, running, timer, outcome>>
  BY DEF ReadLine, ReadDelta, ReadAssistant, ReadToolOk, ReadToolFailed, ReadResult,
         ReadNoise, Read
<1>6. failure \/ Line = ErrorResult => failure'
  <2>1. CASE ReadDelta \/ ReadAssistant \/ ReadToolOk \/ ReadNoise
    BY <2>1 DEF ReadDelta, ReadAssistant, ReadToolOk, ReadNoise, Read, ErrorResult
  <2>2. CASE ReadToolFailed
    BY <2>2 DEF ReadToolFailed, ErrorResult
  <2>3. CASE ReadResult
    <3>1. Line = ErrorResult => ~Line.ok
      BY DEF ErrorResult
    <3> QED BY <2>3, <3>1 DEF ReadResult
  <2> QED BY <2>1, <2>2, <2>3 DEF ReadLine
<1>7. Life' /\ Results' /\ OutcomeTruthful'
  BY <1>1, <1>5, <1>6, ReadKeeps
<1> QED BY <1>4, <1>7 DEF IInv

LEMMA StepHolds == IInv /\ [Next]_vars => IInv'
<1> SUFFICES ASSUME IInv, [Next]_vars PROVE IInv'
  OBVIOUS
<1>1. CASE StartThrows \/ Spawn
  BY <1>1, StartStep
<1>2. CASE SpawnError \/ Close
  BY <1>2, SettleStep
<1>3. CASE Timeout \/ Age \/ StallWatch \/ Cancel \/ Escalate
  BY <1>3, SignalStep
<1>4. CASE Claude
  BY <1>4, TalkStep, ExitStep DEF Claude
<1>5. CASE ReadLine
  BY <1>5, ReadStep
<1>6. CASE UNCHANGED vars
  BY <1>6 DEF vars, child, agent, watch, text, IInv, TypeOK, Life, Results, ErrorUnread,
              OutcomeTruthful
<1> QED BY <1>1, <1>2, <1>3, <1>4, <1>5, <1>6 DEF Next

LEMMA Invariance == Spec => []IInv
BY InitHolds, StepHolds, PTL DEF Spec

(* The variables of the runner keep their types.                           *)
THEOREM TypeCorrect == Spec => []TypeOK
<1>1. IInv => TypeOK
  BY DEF IInv
<1> QED BY <1>1, Invariance, PTL

(* A call succeeds only if its child reported success and exited with it,  *)
(* and it is settled with nothing left to read and no timer armed,         *)
(* whichever of timeout, stall, cancellation and exit came first.          *)
THEOREM OutcomeTruthfulHolds == Spec => []OutcomeTruthful
<1>1. IInv => OutcomeTruthful
  BY DEF IInv
<1> QED BY <1>1, Invariance, PTL

-----------------------------------------------------------------------------
(* Every action keeps the marks.                                           *)

LEMMA TalkMarks ==
  ASSUME IInv, Underway,
         \/ CliDelta \/ CliNoise
         \/ \E n, cut \in 0 .. MaxText, calls \in SUBSET Calls : CliAssistant(n, cut, calls)
         \/ \E id \in Calls, ok \in BOOLEAN : CliToolResult(id, ok)
         \/ \E ok \in BOOLEAN : CliResult(ok)
  PROVE  Underway'
<1> USE DEF text
<1>0. TypeOK /\ cli \in Progress /\ told \in Seq(Piece) /\ Len(told) \in Nat
  BY LenProperties DEF IInv, TypeOK
<1>1. CASE CliDelta
  <2> DEFINE piece == Block(cli.block, cli.sent, cli.sent + 1)
             event == [type |-> "delta", text |-> piece]
  <2>1. /\ cli.block \in 1 .. MaxBlocks /\ cli.sent \in Nat /\ cli.block \in Nat
        /\ cli.sent + 1 \in 0 .. MaxText /\ cli.sent <= cli.sent + 1
        /\ cli.sent + 1 \in Nat /\ (cli.sent + 1) - cli.sent = 1
    BY <1>1, <1>0, RunnerAssumption DEF CliDelta, Progress
  <2>2. piece \in Seq(Piece) /\ Len(piece) = 1
    <3>1. piece \in Seq(Piece)
      BY <2>1, BlockType
    <3>2. Len(piece) = (cli.sent + 1) - cli.sent
      BY <2>1, BlockShape
    <3> QED BY <2>1, <3>1, <3>2
  <2>3. event \in Event
    BY <2>2 DEF Event
  <2>4. /\ pipe' = Append(pipe, event) /\ told' = told \o piece
        /\ UNCHANGED <<output, streamed>>
    BY <1>1 DEF CliDelta, Says
  <2>5. cli'.block = cli.block /\ cli'.sent = cli.sent + 1 /\ cli'.parted = cli.parted
    BY <1>1, <1>0 DEF CliDelta, Progress
  <2>6. Len(told') = Len(told) + 1 /\ Tells(told', Len(told), piece)
    BY <1>0, <2>2, <2>4, TellsNew
  <2>7. Passes(told', cli'.parted,
               [block |-> cli.block, sent |-> cli.sent, len |-> Len(told)], event,
               [block |-> cli'.block, sent |-> cli'.sent, len |-> Len(told')])
    BY <2>5, <2>6 DEF Passes
  <2>8. cli'.block \in Nat \ {0} /\ cli'.sent \in Nat /\ cli.parted \subseteq cli'.parted
    BY <2>1, <2>5
  <2> HIDE DEF piece, event
  <2> QED BY <1>0, <2>2, <2>3, <2>4, <2>7, <2>8, SaysMarks
<1>2. ASSUME NEW n \in 0 .. MaxText, NEW cut \in 0 .. MaxText,
             NEW calls \in SUBSET Calls, CliAssistant(n, cut, calls)
      PROVE  Underway'
  <2> DEFINE whole == Block(cli.block, 0, n)
             rest == Block(cli.block, cli.sent, n)
             event == [type |-> "assistant", text |-> whole, cut |-> cut, calls |-> calls]
  <2>1. /\ cli.block \in 1 .. MaxBlocks /\ cli.sent \in Nat /\ cli.block \in Nat
        /\ n \in Nat /\ cli.sent <= n /\ 0 <= n /\ n - cli.sent \in Nat
    <3>1. cli.block <= MaxBlocks /\ cli.sent <= n
      BY <1>2 DEF CliAssistant
    <3>2. cli.block \in Nat \ {0} /\ cli.sent \in Nat
      BY <1>0 DEF Progress
    <3> QED BY <3>1, <3>2, RunnerAssumption
  <2>2. /\ whole \in Seq(Piece) /\ rest \in Seq(Piece)
        /\ Len(rest) = n - cli.sent /\ Len(whole) = n
    BY <2>1, BlockType, BlockShape, BlockWhole
  <2>3. cut \in Nat /\ (cut = 0 \/ cut < n)
    <3>1. cut = 0 \/ cut < n
      BY <1>2 DEF CliAssistant
    <3>2. cut \in Nat
      BY RunnerAssumption
    <3> QED BY <3>1, <3>2
  <2>4. event \in Event
    <3> HIDE DEF whole
    <3>1. cut <= Len(whole)
      BY <2>1, <2>2, <2>3
    <3> QED BY <2>2, <2>3, <3>1 DEF Event
  <2>5. /\ pipe' = Append(pipe, event) /\ told' = told \o rest
        /\ UNCHANGED <<output, streamed>>
    BY <1>2 DEF CliAssistant, Says
  <2>6. /\ cli'.block = cli.block + 1 /\ cli'.sent = 0
        /\ cli.parted \subseteq cli'.parted /\ (cut = 0 \/ cli.block \in cli'.parted)
    BY <1>2, <1>0 DEF CliAssistant, Progress
  <2>7. Len(told') = Len(told) + (n - cli.sent) /\ Tells(told', Len(told), rest)
    BY <1>0, <2>2, <2>5, TellsNew
  <2>8. Passes(told', cli'.parted,
               [block |-> cli.block, sent |-> cli.sent, len |-> Len(told)], event,
               [block |-> cli'.block, sent |-> cli'.sent, len |-> Len(told')])
    BY <2>1, <2>6, <2>7, <2>3 DEF Passes
  <2>9. cli'.block \in Nat \ {0} /\ cli'.sent \in Nat /\ cli.parted \subseteq cli'.parted
    BY <2>1, <2>6
  <2> HIDE DEF whole, rest, event
  <2> QED BY <1>0, <2>2, <2>4, <2>5, <2>8, <2>9, SaysMarks
<1>3. ASSUME NEW event \in Event, event.type \notin {"delta", "assistant"},
             pipe' = Append(pipe, event), UNCHANGED <<told, output, streamed>>,
             cli'.block = cli.block, cli'.sent = cli.sent, cli'.parted = cli.parted
      PROVE  Underway'
  <2>1. told' = told \o <<>> /\ <<>> \in Seq(Piece)
    BY <1>0, <1>3, ConcatEmptySeq, EmptySeq
  <2>2. cli'.block \in Nat \ {0} /\ cli'.sent \in Nat /\ cli.parted \subseteq cli'.parted
    BY <1>0, <1>3 DEF Progress
  <2>3. Passes(told', cli'.parted,
               [block |-> cli.block, sent |-> cli.sent, len |-> Len(told)], event,
               [block |-> cli'.block, sent |-> cli'.sent, len |-> Len(told')])
    BY <1>3 DEF Passes
  <2> QED BY <1>0, <1>3, <2>1, <2>2, <2>3, SaysMarks
<1>4. CASE CliNoise
  <2>1. [type |-> "noise"] \in Event
    BY DEF Event
  <2>2. cli'.block = cli.block /\ cli'.sent = cli.sent /\ cli'.parted = cli.parted
    BY <1>0, <1>4 DEF CliNoise, Progress
  <2> QED BY <1>3, <1>4, <2>1, <2>2 DEF CliNoise, Says
<1>5. ASSUME NEW id \in Calls, NEW ok \in BOOLEAN, CliToolResult(id, ok)
      PROVE  Underway'
  <2>1. [type |-> "tool", id |-> id, ok |-> ok] \in Event
    BY DEF Event
  <2>2. cli'.block = cli.block /\ cli'.sent = cli.sent /\ cli'.parted = cli.parted
    BY <1>0, <1>5 DEF CliToolResult, Progress
  <2> QED BY <1>3, <1>5, <2>1, <2>2 DEF CliToolResult, Says
<1>6. ASSUME NEW ok \in BOOLEAN, CliResult(ok)
      PROVE  Underway'
  <2>1. [type |-> "result", ok |-> ok] \in Event
    BY DEF Event
  <2>2. cli'.block = cli.block /\ cli'.sent = cli.sent /\ cli'.parted = cli.parted
    BY <1>0, <1>6 DEF CliResult, Progress
  <2> QED BY <1>3, <1>6, <2>1, <2>2 DEF CliResult, Says
<1> QED BY <1>1, <1>2, <1>4, <1>5, <1>6

(* A delta is heard as it was decoded.                                     *)
LEMMA DeltaMarks ==
  ASSUME TypeOK, Text \in Seq(Piece), NEW m \in Mark, NEW to,
         Heard(told, cli.parted, Text, m), Streams(streamed, told, Text, m),
         Line.type = "delta", Passes(told, cli.parted, m, Line, to),
         Line.text \in Seq(Piece), NEW said \in Decodings(Line.text)
  PROVE  /\ Heard(told, cli.parted, Text \o said, to)
         /\ Streams(streamed \o said, told, Text \o said, to)
<1>0. PICK b, k : b = m.block /\ k = m.sent
  OBVIOUS
<1> DEFINE piece == Block(b, k, k + 1)
           u == Text \o said
<1>1. b \in Nat \ {0} /\ k \in Nat /\ m.len \in Nat
  BY <1>0 DEF Mark
<1>2. /\ Line.text = piece /\ Tells(told, m.len, piece)
      /\ to = [block |-> b, sent |-> k + 1, len |-> m.len + 1]
  BY <1>0 DEF Passes
<1>3. Len(piece) = 1 /\ piece[1] = <<b, k + 1>>
  <2>1. k + 1 \in Nat /\ k <= k + 1 /\ (k + 1) - k = 1 /\ 1 \in 1 .. 1
    BY <1>1
  <2>2. /\ Len(piece) = (k + 1) - k
        /\ \A i \in 1 .. (k + 1) - k : piece[i] = <<b, k + i>>
    BY <1>1, <2>1, BlockShape, ZenonT(30)
  <2> HIDE DEF piece
  <2> QED BY <2>1, <2>2
<1> HIDE DEF piece
<1>4. said \in Seq(Piece) /\ Len(said) = 1 /\ Meant(said[1]) = <<b, k + 1>>
  <2>1. said \in Seq(Piece) /\ Len(said) = 1 /\ Meant(said[1]) = Meant(<<b, k + 1>>)
    BY <1>2, <1>3, DecodedShape, SMTT(20)
  <2>2. Meant(<<b, k + 1>>) = <<b, k + 1>>
    BY <1>1 DEF Meant, Garbled
  <2> QED BY <2>1, <2>2
<1>5. m.len + 1 <= Len(told) /\ told[m.len + 1] = <<b, k + 1>>
  BY <1>2, <1>3 DEF Tells
<1>6. to \in Mark /\ to.block = b /\ to.sent = k + 1 /\ to.len = m.len + 1
  BY <1>1, <1>2 DEF Mark
<1>7. Heard(told, cli.parted, u, to)
  <2>1. Len(said) # 0 /\ told \in Seq(Piece)
    BY <1>4 DEF TypeOK
  <2>2. \A j \in 1 .. Len(said) : /\ Meant(said[j]) = <<m.block, m.sent + j>>
                                  /\ told[m.len + j] = <<m.block, m.sent + j>>
    BY <1>0, <1>4, <1>5
  <2>3. m.len + Len(said) = to.len /\ to.len <= Len(told)
    BY <1>4, <1>5, <1>6
  <2>4. m.block <= to.block /\ (to.sent = 0 => m.block < to.block)
    BY <1>0, <1>1, <1>6
  <2>5. m.sent \in Nat /\ m.len \in Nat /\ to \in Mark /\ said \in Seq(Piece)
    BY <1>0, <1>1, <1>4, <1>6
  <2> QED BY <2>1, <2>2, <2>3, <2>4, <2>5, HeardMore
<1>8. /\ Len(streamed) = k /\ k <= m.len /\ m.len <= Len(told)
      /\ \A j \in 1 .. k : /\ Meant(streamed[j]) = <<b, j>>
                           /\ told[(m.len - k) + j] = <<b, j>>
  BY <1>0 DEF Streams
<1>9. LET run == streamed \o said
      IN  /\ Len(run) = k + 1 /\ run[k + 1] = said[1]
          /\ \A j \in 1 .. k : run[j] = streamed[j]
  <2>1. streamed \in Seq(Piece) /\ said \in Seq(Piece) /\ 1 \in 1 .. 1
    BY <1>4 DEF TypeOK
  <2>2. /\ Len(streamed \o said) = Len(streamed) + Len(said)
        /\ \A i \in 1 .. Len(streamed) : (streamed \o said)[i] = streamed[i]
        /\ \A j \in 1 .. Len(said) : (streamed \o said)[Len(streamed) + j] = said[j]
    BY <2>1, Joined
  <2> QED BY <1>4, <1>8, <2>1, <2>2
<1>10. /\ \A i \in DOMAIN Text : i \in DOMAIN u /\ u[i] = Text[i]
       /\ \E i \in DOMAIN u : u[i] = said[1]
  <2>1. said \in Seq(Piece) /\ 1 \in 1 .. Len(said)
    BY <1>4
  <2>2. /\ \A i \in DOMAIN Text : i \in DOMAIN (Text \o said) /\ (Text \o said)[i] = Text[i]
        /\ \A j \in 1 .. Len(said) :
              \E i \in DOMAIN (Text \o said) : (Text \o said)[i] = said[j]
    BY <2>1, Joined
  <2> QED BY <2>1, <2>2
<1>11. said[1][1] = b
  <2>1. said[1] \in Piece
    <3>1. said \in Seq(Piece) /\ 1 \in 1 .. Len(said)
      BY <1>4
    <3> QED BY <3>1, ElementOfSeq
  <2>2. Meant(said[1])[1] = said[1][1]
    BY <2>1, MeantShape
  <2> QED BY <1>4, <2>2
<1>12. Streams(streamed \o said, told, u, to)
  <2> DEFINE run == streamed \o said
  <2>0. /\ Len(run) = k + 1 /\ run[k + 1] = said[1]
        /\ \A j \in 1 .. k : run[j] = streamed[j]
    BY <1>9
  <2> HIDE DEF run, u
  <2>1. to.len - to.sent = m.len - k /\ to.sent <= to.len /\ to.len <= Len(told)
    BY <1>1, <1>5, <1>6, <1>8
  <2>2. ASSUME NEW j \in 1 .. k + 1
        PROVE  /\ Meant(run[j]) = <<b, j>> /\ told[(m.len - k) + j] = <<b, j>>
               /\ Garbled(run[j]) => \E i \in DOMAIN u : u[i][1] = b /\ Garbled(u[i])
    <3>1. CASE j = k + 1
      <4>1. (m.len - k) + j = m.len + 1
        BY <1>1, <3>1
      <4> QED BY <1>4, <1>5, <1>10, <1>11, <2>0, <3>1, <4>1
    <3>2. CASE j # k + 1
      <4>1. j \in 1 .. k
        BY <1>1, <3>2
      <4>2. Garbled(streamed[j]) => \E i \in DOMAIN Text : Text[i][1] = b /\ Garbled(Text[i])
        BY <1>0, <4>1 DEF Streams
      <4> QED BY <1>8, <1>10, <2>0, <4>1, <4>2
    <3> QED BY <3>1, <3>2
  <2>3. Streams(run, told, u, to)
    BY <1>0, <1>6, <2>0, <2>1, <2>2 DEF Streams
  <2> QED BY <2>3 DEF run
<1> QED BY <1>7, <1>12 DEF u

(* Of an assistant event what the deltas have left is heard, or all of it. *)
LEMMA AssistantMarks ==
  ASSUME TypeOK, Text \in Seq(Piece), NEW m \in Mark, NEW to,
         Heard(told, cli.parted, Text, m), Streams(streamed, told, Text, m),
         Line.type = "assistant", Passes(told, cli.parted, m, Line, to),
         Line.text \in Seq(Piece), Line.cut \in Nat, NEW said \in Decodings(Line.text)
  PROVE  Heard(told, cli.parted, Text \o Emitted(said, Line.cut), to)
<1>0. PICK b, k, cut, p :
         b = m.block /\ k = m.sent /\ cut = Line.cut /\ p = Emitted(said, cut)
  OBVIOUS
<1>1. b \in Nat \ {0} /\ k \in Nat /\ m.len \in Nat /\ told \in Seq(Piece)
  BY <1>0 DEF Mark, TypeOK
<1>2. PICK n \in Nat :
         /\ k <= n /\ (Line.cut = 0 \/ Line.cut < n)
         /\ Line.text = Block(b, 0, n) /\ Tells(told, m.len, Block(b, k, n))
         /\ to = [block |-> b + 1, sent |-> 0, len |-> m.len + (n - k)]
  BY <1>0 DEF Passes
<1>3. /\ said \in Seq(Piece) /\ Len(said) = n
      /\ \A i \in 1 .. n : Meant(said[i]) = <<b, i>>
  <2>1. Len(Block(b, 0, n)) = n /\ \A i \in 1 .. n : Block(b, 0, n)[i] = <<b, i>>
    BY <1>1, BlockWhole
  <2>2. \A i \in 1 .. n : Meant(<<b, i>>) = <<b, i>>
    BY <1>1 DEF Meant, Garbled
  <2>3. /\ said \in Seq(Piece) /\ Len(said) = Len(Line.text)
        /\ \A i \in 1 .. Len(Line.text) : Meant(said[i]) = Meant(Line.text[i])
    BY DecodedShape
  <2> QED BY <1>2, <2>1, <2>2, <2>3
<1>4. \A i \in 1 .. n : said[i] \in Piece /\ said[i][1] = b
  <2>1. ASSUME NEW i \in 1 .. n PROVE said[i] \in Piece /\ said[i][1] = b
    <3>1. said[i] \in Piece
      BY <1>3, ElementOfSeq
    <3>2. Meant(said[i])[1] = said[i][1]
      BY <3>1, MeantShape
    <3> QED BY <1>3, <3>1, <3>2
  <2> QED BY <2>1
<1>5. /\ Len(streamed) = k /\ streamed \in Seq(Piece) /\ k <= m.len /\ m.len <= Len(told)
      /\ \A j \in 1 .. k : Meant(streamed[j]) = <<b, j>> /\ streamed[j] \in Piece
  <2>1. streamed \in Seq(Piece)
    BY DEF TypeOK
  <2> QED BY <1>0, <2>1, ElementOfSeq DEF Streams
<1>6. \A j \in 1 .. k : told[(m.len - k) + j] = <<b, j>>
  BY <1>0 DEF Streams
<1>7. m.len + (n - k) <= Len(told) /\ \A j \in 1 .. n - k : told[m.len + j] = <<b, k + j>>
  <2>1. Len(Block(b, k, n)) = n - k /\ \A j \in 1 .. n - k : Block(b, k, n)[j] = <<b, k + j>>
    <3>1. b \in Nat /\ k <= n
      BY <1>1, <1>2
    <3> QED BY <1>1, <3>1, BlockShape, ZenonT(30)
  <2> QED BY <1>2, <2>1 DEF Tells
<1>8. /\ to \in Mark /\ to.block = b + 1 /\ to.sent = 0 /\ to.len = m.len + (n - k)
      /\ b < to.block /\ b <= to.block /\ to.len <= Len(told)
  BY <1>1, <1>2, <1>7 DEF Mark
<1>9. \/ p = SubSeq(said, k + 1, n)
      \/ /\ p = said /\ k > 0
         /\ Line.cut # 0 \/ \E i \in 1 .. k : streamed[i] # said[i]
  <2>1. /\ cut \in Nat /\ (cut = 0 \/ cut < Len(said)) /\ said \in Seq(Piece)
        /\ streamed \in Seq(Piece) /\ Len(streamed) <= Len(said)
    BY <1>0, <1>1, <1>2, <1>3, <1>5
  <2>2. \A i \in 1 .. Len(streamed) : Meant(streamed[i]) = Meant(said[i])
    <3>1. \A i \in 1 .. k : i \in 1 .. n
      BY <1>1, <1>2
    <3> QED BY <1>3, <1>5, <3>1
  <2>3. \A i, j \in 1 .. Len(said) : Meant(said[i]) = Meant(said[j]) => i = j
    BY <1>3
  <2>4. \/ Emitted(said, cut) = SubSeq(said, Len(streamed) + 1, Len(said))
        \/ /\ Emitted(said, cut) = said /\ Len(streamed) > 0
           /\ cut # 0 \/ \E i \in 1 .. Len(streamed) : streamed[i] # said[i]
    BY <2>1, <2>2, <2>3, EmittedRest
  <2> QED BY <1>0, <1>3, <1>5, <2>4
<1>10. CASE p = SubSeq(said, k + 1, n)
  <2>1. /\ p \in Seq(Piece) /\ Len(p) = n - k
        /\ \A j \in 1 .. n - k : p[j] = said[k + j]
    <3>1. said \in Seq(Piece) /\ k <= n /\ n <= Len(said)
      BY <1>2, <1>3
    <3> QED BY <1>1, <1>10, <3>1, Stretch
  <2>2. CASE p = <<>>
    <3>1. to.len = m.len
      BY <1>1, <1>2, <1>8, <2>1, <2>2, EmptySeq
    <3>2. Text \o p = Text
      BY <2>2, ConcatEmptySeq
    <3>3. Heard(told, cli.parted, Text, to)
      BY <1>0, <1>8, <3>1, HeardOn
    <3> QED BY <1>0, <3>2, <3>3
  <2>3. CASE p # <<>>
    <3>1. \A j \in 1 .. Len(p) : /\ Meant(p[j]) = <<m.block, m.sent + j>>
                                 /\ told[m.len + j] = <<m.block, m.sent + j>>
      <4>1. \A j \in 1 .. n - k : k + j \in 1 .. n
        BY <1>1, <1>2
      <4> QED BY <1>0, <1>3, <1>7, <2>1, <4>1
    <3>2. m.len + Len(p) = to.len /\ m.sent \in Nat /\ m.block <= to.block
          /\ (to.sent = 0 => m.block < to.block)
      BY <1>0, <1>1, <1>8, <2>1
    <3>3. told \in Seq(Piece) /\ m.len \in Nat /\ Len(p) # 0 /\ p \in Seq(Piece) /\ to \in Mark
          /\ to.len <= Len(told)
      BY <1>1, <1>8, <2>1, <2>3, EmptySeq
    <3>4. Heard(told, cli.parted, Text \o p, to)
      BY <3>1, <3>2, <3>3, HeardMore, ZenonT(30)
    <3> QED BY <1>0, <3>4
  <2> QED BY <2>2, <2>3
<1>11. CASE /\ p = said /\ k > 0
            /\ Line.cut # 0 \/ \E i \in 1 .. k : streamed[i] # said[i]
  <2>0. PICK base : base = m.len - k
    OBVIOUS
  <2>1. base \in Nat /\ base + Len(said) = to.len /\ Len(said) # 0 /\ m.len # 0
    <3>1. n # 0
      BY <1>1, <1>2, <1>11
    <3>2. Len(said) = n /\ to.len = m.len + (n - k) /\ k <= m.len
      BY <1>3, <1>5, <1>8
    <3> QED BY <1>1, <1>11, <2>0, <3>1, <3>2
  <2>2. \A j \in 1 .. Len(said) : /\ Meant(said[j]) = <<m.block, 0 + j>>
                                  /\ told[base + j] = <<m.block, 0 + j>>
    <3>1. ASSUME NEW j \in 1 .. n
          PROVE  told[base + j] = <<b, j>>
      <4>1. CASE j <= k
        <5>1. j \in 1 .. k
          BY <1>1, <4>1
        <5> QED BY <1>6, <2>0, <5>1
      <4>2. CASE ~(j <= k)
        <5>1. PICK i \in Int : j = k + i
          <6>1. j - k \in Int /\ j = k + (j - k)
            BY <1>1
          <6> QED BY <6>1
        <5>2. i \in 1 .. n - k
          BY <1>1, <1>2, <4>2, <5>1
        <5>3. base + j = m.len + i
          BY <1>1, <2>0, <5>1
        <5> QED BY <1>7, <5>1, <5>2, <5>3
      <4> QED BY <4>1, <4>2
    <3>2. \A j \in 1 .. n : 0 + j = j
      OBVIOUS
    <3> QED BY <1>0, <1>3, <3>1, <3>2
  <2>3. told[m.len] = <<m.block, m.sent>>
    <3>1. k \in 1 .. k /\ (m.len - k) + k = m.len
      BY <1>1, <1>11
    <3> QED BY <1>0, <1>6, <3>1
  <2>4. Excused(cli.parted, Text \o said, m.block)
    <3> DEFINE u == Text \o said
    <3>1. /\ \A i \in DOMAIN Text : i \in DOMAIN u /\ u[i] = Text[i]
          /\ \A j \in 1 .. n : \E i \in DOMAIN u : u[i] = said[j]
      <4>1. said \in Seq(Piece)
        BY <1>3
      <4>2. /\ \A i \in DOMAIN Text :
                  i \in DOMAIN (Text \o said) /\ (Text \o said)[i] = Text[i]
            /\ \A j \in 1 .. Len(said) :
                  \E i \in DOMAIN (Text \o said) : (Text \o said)[i] = said[j]
        BY <4>1, Joined
      <4> QED BY <1>3, <4>2
    <3> HIDE DEF u
    <3>2. CASE Line.cut # 0
      <4>1. b \in cli.parted
        BY <1>0, <3>2 DEF Passes
      <4> QED BY <1>0, <4>1 DEF Excused
    <3>3. CASE \E i \in 1 .. k : streamed[i] # said[i]
      <4>1. PICK i \in 1 .. k : streamed[i] # said[i]
        BY <3>3
      <4>2. i \in 1 .. n
        BY <1>1, <1>2
      <4>3. Garbled(streamed[i]) \/ Garbled(said[i])
        BY <1>3, <1>4, <1>5, <4>1, <4>2, MeantOnce
      <4>4. Garbled(streamed[i]) => \E j \in DOMAIN Text : Text[j][1] = b /\ Garbled(Text[j])
        BY <1>0, <4>1 DEF Streams
      <4>5. \E j \in DOMAIN u : u[j][1] = b /\ Garbled(u[j])
        BY <1>4, <3>1, <4>2, <4>3, <4>4
      <4> QED BY <1>0, <4>5 DEF Excused, u
    <3> QED BY <1>11, <3>2, <3>3
  <2>5. Heard(told, cli.parted, Text \o said, to)
    <3>1. 0 \in Nat /\ said \in Seq(Piece) /\ m.block <= to.block /\ m.block < to.block
          /\ told \in Seq(Piece) /\ to \in Mark /\ to.len <= Len(told)
      BY <1>0, <1>1, <1>3, <1>8
    <3> QED BY <2>1, <2>2, <2>3, <2>4, <3>1, HeardMore, ZenonT(30)
  <2> QED BY <1>0, <1>11, <2>5
<1> QED BY <1>9, <1>10, <1>11

LEMMA LineMarks ==
  ASSUME IInv, Underway, ReadLine
  PROVE  Underway'
<1> USE DEF text
<1>0. PICK at : Marks(at)
  BY DEF Underway
<1>1. pipe # <<>> /\ pipe' = Tail(pipe) /\ UNCHANGED <<cli, told>>
  BY DEF ReadLine, ReadDelta, ReadAssistant, ReadToolOk, ReadToolFailed, ReadResult,
         ReadNoise, Read
<1>2. /\ TypeOK /\ Line \in Event /\ output \in Seq(Shown) /\ streamed \in Seq(Piece)
      /\ Text \in Seq(Piece)
  <2>1. TypeOK /\ Line \in Event /\ output \in Seq(Shown) /\ streamed \in Seq(Piece)
    BY <1>1, LineTyped DEF IInv, TypeOK, Shown
  <2> QED BY <2>1, SpokenNoise DEF Text
<1>3. at[1] \in Mark /\ at[2] \in Mark /\ Passes(told, cli.parted, at[1], Line, at[2])
  <2>1. Len(pipe) \in Nat \ {0} /\ Line = pipe[1]
    BY <1>1, EmptySeq DEF Line, IInv, TypeOK
  <2>2. 1 \in 1 .. Len(pipe) /\ 1 \in 1 .. Len(at) /\ 2 \in 1 .. Len(at) /\ 1 + 1 = 2
    BY <1>0, <2>1 DEF Marks
  <2>3. at[1] \in Mark /\ at[2] \in Mark
    BY <1>0, <2>2, ElementOfSeq DEF Marks
  <2> QED BY <1>0, <2>1, <2>2, <2>3 DEF Marks
<1>4. Heard(told, cli.parted, Text, at[1]) /\ Streams(streamed, told, Text, at[1])
  BY <1>0 DEF Marks
<1>5. \A p \in Seq(Piece) : output' = output \o p => Text' = Text \o p
  BY <1>2, SpokenText DEF Text
<1>6. CASE ReadDelta
  <2>1. /\ Line.type = "delta"
        /\ \E said \in Decodings(Line.text) : /\ output' = output \o said
                                              /\ streamed' = streamed \o said
    BY <1>6 DEF ReadDelta, Read, Emit
  <2>2. PICK said \in Decodings(Line.text) : /\ output' = output \o said
                                             /\ streamed' = streamed \o said
    BY <2>1
  <2>3. Line.text \in Seq(Piece)
    BY <1>2, <2>1 DEF Event
  <2>4. said \in Seq(Piece)
    BY <2>3, DecodedShape
  <2>5. /\ Heard(told, cli.parted, Text \o said, at[2])
        /\ Streams(streamed \o said, told, Text \o said, at[2])
    BY <1>2, <1>3, <1>4, <2>1, <2>3, DeltaMarks
  <2>6. Text' = Text \o said
    BY <1>5, <2>2, <2>4
  <2> QED BY <1>0, <1>1, <1>2, <2>2, <2>5, <2>6, ReadMarks
<1>7. CASE ReadAssistant
  <2>1. Line.type = "assistant" /\ streamed' = <<>>
    BY <1>7 DEF ReadAssistant, Read
  <2>2. PICK said \in Decodings(Line.text) : output' = output \o Emitted(said, Line.cut)
    BY <1>7 DEF ReadAssistant, EmitParts, Emit, Emitted
  <2>3. Line.text \in Seq(Piece) /\ Line.cut \in Nat /\ Line.cut <= Len(Line.text)
    BY <1>2, <2>1 DEF Event
  <2>4. said \in Seq(Piece) /\ Len(said) = Len(Line.text)
    BY <2>3, DecodedShape
  <2>5. Emitted(said, Line.cut) \in Seq(Piece)
    BY <1>2, <2>3, <2>4, EmittedType
  <2>6. Heard(told, cli.parted, Text \o Emitted(said, Line.cut), at[2])
    BY <1>2, <1>3, <1>4, <2>1, <2>3, AssistantMarks
  <2>7. Text' = Text \o Emitted(said, Line.cut)
    BY <1>5, <2>2, <2>5
  <2>8. Streams(streamed', told, Text', at[2])
    <3>1. at[2].sent = 0 /\ at[2].len \in Nat /\ at[2].len <= Len(told)
      <4>1. PICK n \in Nat :
               /\ at[1].sent <= n /\ Tells(told, at[1].len, Block(at[1].block, at[1].sent, n))
               /\ at[2] = [block |-> at[1].block + 1, sent |-> 0,
                           len |-> at[1].len + (n - at[1].sent)]
        BY <1>3, <2>1 DEF Passes
      <4>2. Len(Block(at[1].block, at[1].sent, n)) = n - at[1].sent
        <5>1. at[1].block \in Nat /\ at[1].sent \in Nat /\ at[1].sent <= n
          BY <1>3, <4>1 DEF Mark
        <5> QED BY <5>1, BlockShape, ZenonT(30)
      <4> QED BY <1>3, <4>1, <4>2 DEF Tells, Mark
    <3>2. Len(streamed') = 0
      BY <2>1, EmptySeq
    <3> QED BY <3>1, <3>2 DEF Streams
  <2> QED BY <1>0, <1>1, <1>2, <2>6, <2>7, <2>8, ReadMarks
<1>8. CASE ReadToolOk \/ ReadToolFailed \/ ReadResult \/ ReadNoise
  <2>1. Line.type \notin {"delta", "assistant"} /\ streamed' = streamed
    BY <1>8 DEF ReadToolOk, ReadToolFailed, ReadResult, ReadNoise, Read
  <2>2. output' = output \o <<Noise>> \/ output' = output
    BY <1>8 DEF ReadToolOk, ReadToolFailed, ReadResult, ReadNoise, Emit
  <2>3. Text' = Text
    BY <1>2, <2>2, SpokenNoise DEF Text
  <2>4. at[2] = at[1]
    BY <1>3, <2>1 DEF Passes
  <2> QED BY <1>0, <1>1, <1>2, <1>4, <2>1, <2>3, <2>4, ReadMarks
<1> QED BY <1>6, <1>7, <1>8 DEF ReadLine

LEMMA UnderwayStep == IInv /\ Underway /\ [Next]_vars => Underway'
<1> SUFFICES ASSUME IInv, Underway, [Next]_vars PROVE Underway'
  OBVIOUS
<1>1. CASE Claude
  <2>1. ASSUME NEW c \in {"zero", "other"}, ChildExits(c)
        PROVE  Underway'
    <3>1. UNCHANGED <<pipe, cli, told, output, streamed>>
      BY <2>1 DEF ChildExits, agent, text
    <3> QED BY <3>1 DEF Underway, Marks, Text
  <2> QED BY <1>1, <2>1, TalkMarks DEF Claude
<1>2. CASE ReadLine
  BY <1>2, LineMarks
<1>3. CASE \/ StartThrows \/ Spawn \/ SpawnError \/ Close
           \/ Timeout \/ Age \/ StallWatch \/ Cancel \/ Escalate \/ UNCHANGED vars
  <2>1. UNCHANGED <<pipe, cli, told, output, streamed>>
    BY <1>3 DEF StartThrows, Spawn, SpawnError, Close, Timeout, Age, StallWatch, Cancel,
                Escalate, vars, agent, text
  <2> QED BY <2>1 DEF Underway, Marks, Text
<1> QED BY <1>1, <1>2, <1>3 DEF Next

(* Nothing of the answer is left out or comes out of order, although it is *)
(* printed twice and its comparison can fail: only a block in two parts or *)
(* with something garbled in it begins again, once, and a call that        *)
(* succeeded has delivered the answer to its end.                          *)
THEOREM AnswerWholeHolds == Spec => []AnswerWhole
<1>1. IInv /\ Underway => AnswerWhole
  <2> SUFFICES ASSUME IInv, Underway PROVE AnswerWhole
    OBVIOUS
  <2>1. PICK at : Marks(at)
    BY DEF Underway
  <2>2. /\ Text \in Seq(Piece) /\ told \in Seq(Piece) /\ Len(Text) \in Nat
        /\ Len(told) \in Nat
    BY SpokenNoise, LenProperties DEF IInv, TypeOK, Text, Shown
  <2>3. at[1] \in Mark
    <3>1. Len(pipe) \in Nat
      BY LenProperties DEF IInv, TypeOK
    <3>2. 1 \in 1 .. Len(at) /\ at \in Seq(Mark)
      BY <2>1, <3>1 DEF Marks
    <3> QED BY <3>2, ElementOfSeq
  <2>4. Heard(told, cli.parted, Text, at[1]) /\ at[1].len <= Len(told) /\ at[1].len \in Nat
    BY <2>1, <2>3 DEF Marks, Streams, Mark
  <2>5. Text # <<>> => told # <<>> /\ Meant(Text[1]) = told[1]
    <3>1. told = <<>> => Len(told) = 0
      BY EmptySeq
    <3> QED BY <2>2, <2>4, <3>1 DEF Heard
  <2>6. outcome = "succeeded" =>
            IF told = <<>> THEN Text = <<>>
            ELSE Text # <<>> /\ Meant(Text[Len(Text)]) = told[Len(told)]
    <3>1. ASSUME outcome = "succeeded" PROVE at[1].len = Len(told)
      <4>1. pipe = <<>> /\ Len(pipe) = 0
        BY <3>1, EmptySeq DEF IInv, OutcomeTruthful
      <4> QED BY <2>1, <4>1 DEF Marks
    <3>2. told = <<>> <=> Len(told) = 0
      BY <2>2, EmptySeq
    <3> QED BY <2>4, <3>1, <3>2 DEF Heard
  <2>7. \A i \in 1 .. Len(Text) - 1 :
            \/ \E j \in 1 .. Len(told) - 1 :
                  Meant(Text[i]) = told[j] /\ Meant(Text[i + 1]) = told[j + 1]
            \/ /\ Restarts(Text, i)
               /\ \/ Text[i][1] \in cli.parted
                  \/ \E j \in DOMAIN Text : Text[j][1] = Text[i][1] /\ Garbled(Text[j])
    BY <2>4 DEF Heard, Follows, Excused
  <2>8. \A i, j \in 1 .. Len(Text) - 1 :
            Restarts(Text, i) /\ Restarts(Text, j) /\ Text[i][1] = Text[j][1] => i = j
    BY <2>4 DEF Heard
  <2> HIDE DEF Text
  <2> QED BY <2>5, <2>6, <2>7, <2>8 DEF AnswerWhole
<1>2. Spec => []Underway
  BY InitHolds, StepHolds, UnderwayInit, UnderwayStep, PTL DEF Spec
<1> QED BY <1>1, <1>2, Invariance, PTL

-----------------------------------------------------------------------------
(* The refinement: what the port sees of each step.                        *)

LEMMA PortInit == Init => Port!Init
BY DEF Init, Stage, Port!Init

(* A line that is read delivers something or nothing.                      *)
LEMMA ReadIsChunk ==
  ASSUME IInv, ReadLine
  PROVE  Port!Chunk \/ UNCHANGED <<Stage, output>>
<1>1. running /\ outcome = "none"
  <2>1. pipe # <<>>
    BY DEF ReadLine, ReadDelta, ReadAssistant, ReadToolOk, ReadToolFailed, ReadResult,
           ReadNoise, Read
  <2> QED BY <2>1 DEF IInv, Life
<1>2. UNCHANGED <<running, outcome>>
  BY DEF ReadLine, ReadDelta, ReadAssistant, ReadToolOk, ReadToolFailed, ReadResult,
         ReadNoise, Read
<1>3. Stage = "active" /\ Stage' = "active"
  BY <1>1, <1>2 DEF Stage
<1>4. output' = output \/ IsStrictPrefix(output, output')
  <2>1. output \in Seq(Piece \cup {Noise}) /\ <<Noise>> \in Seq(Piece \cup {Noise})
    BY DEF IInv, TypeOK
  <2>2. \A pieces \in Seq(Piece) : pieces \in Seq(Piece \cup {Noise})
    BY SeqMonotonic
  <2>3. Line \in Event
    BY LineTyped DEF IInv, TypeOK, ReadLine, ReadDelta, ReadAssistant, ReadToolOk,
                     ReadToolFailed, ReadResult, ReadNoise, Read
  <2>4. CASE ReadDelta
    <3>1. Line.text \in Seq(Piece)
      BY <2>3, <2>4 DEF Event, ReadDelta, Read
    <3>2. PICK said \in Decodings(Line.text) : output' = output \o said
      BY <2>4 DEF ReadDelta, Emit
    <3>3. said \in Seq(Piece)
      BY <3>1, DecodedShape
    <3> QED BY <2>1, <2>2, <3>2, <3>3, Grows
  <2>5. CASE ReadAssistant
    <3>1. /\ Line.text \in Seq(Piece)
          /\ Line.cut \in Nat /\ Line.cut <= Len(Line.text)
      BY <2>3, <2>5 DEF Event, ReadAssistant, Read
    <3>2. PICK said \in Decodings(Line.text) : output' = output \o Emitted(said, Line.cut)
      BY <2>5 DEF ReadAssistant, EmitParts, Emit, Emitted
    <3>3. said \in Seq(Piece) /\ Len(said) = Len(Line.text)
      BY <3>1, DecodedShape
    <3>4. Emitted(said, Line.cut) \in Seq(Piece)
      BY <3>1, <3>3, EmittedType DEF IInv, TypeOK
    <3> QED BY <2>1, <2>2, <3>2, <3>4, Grows
  <2>6. CASE ReadToolOk \/ ReadToolFailed \/ ReadNoise
    <3>1. output' = output \o <<Noise>>
      BY <2>6 DEF ReadToolOk, ReadToolFailed, ReadNoise, Emit
    <3> QED BY <2>1, <3>1, Grows
  <2>7. CASE ReadResult
    BY <2>7 DEF ReadResult, text
  <2> QED BY <2>4, <2>5, <2>6, <2>7 DEF ReadLine
<1>5. IsStrictPrefix(output, output') => Port!IsStrictPrefix(output, output')
  BY DEF IsStrictPrefix, IsPrefix, Port!IsStrictPrefix, Port!IsPrefix
<1> QED BY <1>3, <1>4, <1>5 DEF Port!Chunk

LEMMA PortStep == IInv /\ [Next]_vars => [Port!Next]_Port!vars
<1> SUFFICES ASSUME IInv, [Next]_vars
             PROVE  Port!Next \/ UNCHANGED <<Stage, output>>
  BY DEF Port!vars
<1> USE DEF child, agent, watch, text
<1>1. CASE StartThrows
  <2>1. Stage = "idle" /\ Stage' = "failed"
    BY <1>1 DEF IInv, Life, StartThrows, Stage
  <2> QED BY <1>1, <2>1 DEF StartThrows, Port!Next, Port!Reject
<1>2. CASE Spawn
  <2>1. Stage = "idle" /\ Stage' = "active"
    BY <1>2 DEF IInv, Life, Spawn, Stage
  <2> QED BY <1>2, <2>1 DEF Spawn, Port!Next, Port!Begin
<1>3. CASE SpawnError
  <2>1. Stage = "active" /\ Stage' = "failed"
    BY <1>3 DEF IInv, Life, SpawnError, Resolve, Stage
  <2>2. Port!Settle("failed")
    BY <1>3, <2>1 DEF SpawnError, Port!Settle
  <2> QED BY <2>2 DEF Port!Next
<1>4. CASE Close
  <2>1. CASE outcome # "none"
    <3>1. outcome' = outcome /\ output' = output
      BY <1>4, <2>1 DEF Close, Resolve
    <3> QED BY <2>1, <3>1 DEF Stage
  <2>2. CASE outcome = "none"
    <3>1. Stage = "active"
      BY <1>4, <2>2 DEF IInv, Life, Close, Stage
    <3>2. outcome' \in {"succeeded", "failed", "cancelled"} /\ output' = output
      BY <1>4, <2>2 DEF Close, Resolve
    <3>3. Stage' = outcome'
      BY <3>2 DEF Stage
    <3>4. Port!Settle(outcome')
      BY <3>1, <3>2, <3>3 DEF Port!Settle
    <3> QED BY <3>2, <3>4 DEF Port!Next
  <2> QED BY <2>1, <2>2
<1>5. CASE ReadLine
  BY <1>5, ReadIsChunk DEF Port!Next
<1>6. CASE \/ Timeout \/ Age \/ StallWatch \/ Cancel \/ Escalate
           \/ Claude \/ UNCHANGED vars
  <2>1. UNCHANGED <<running, outcome, output>>
    BY <1>6 DEF Timeout, Age, StallWatch, Cancel, Escalate, Claude, CliDelta, CliNoise,
                CliAssistant, CliToolResult, CliResult, Says, ChildExits, vars
  <2> QED BY <2>1 DEF Stage
<1> QED BY <1>1, <1>2, <1>3, <1>4, <1>5, <1>6 DEF Next

(* Seen through its outcome and its output, the runner keeps the promise   *)
(* of the port: one outcome per call, output only while it is pending, and *)
(* what was delivered is never taken back.                                 *)
THEOREM PortRefined == Spec => PortSpec
BY PortInit, PortStep, Invariance, PTL DEF Spec, PortSpec, Port!Spec

====
