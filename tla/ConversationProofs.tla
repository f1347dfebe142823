------------------------- MODULE ConversationProofs -------------------------
(***************************************************************************)
(* A conversation and its record: what the model is shown and what the     *)
(* file holds, for any number of sessions, messages, steps and crashes.    *)
(***************************************************************************)
EXTENDS Conversation, SequenceTheorems, TLAPS

-----------------------------------------------------------------------------
(* Sequences                                                               *)

Line == Message \cup {Header} \cup Unreadable

LEMMA LineKinds ==
  /\ Header \notin Message /\ Header \notin Unreadable /\ Header \in Line
  /\ Message \subseteq Line /\ \A m \in Message : m \notin Unreadable
  /\ Unreadable \subseteq Line /\ Garbage \in Unreadable /\ Joined \in Unreadable
  /\ Garbage # Joined
  /\ System \in Message
<1>1. \A m \in Message : m.k \notin {"header", "garbage", "joined"}
  BY DEF Message
<1>2. Header.k = "header" /\ Garbage.k = "garbage" /\ Joined.k = "joined"
  BY DEF Header, Garbage, Joined
<1>3. System \in Message
  BY DEF System, Message
<1>4. QED
  BY <1>1, <1>2, <1>3 DEF Line, Unreadable

(* The beginning of a sequence.                                            *)
LEMMA Beginning ==
  ASSUME NEW S, NEW s \in Seq(S), NEW n \in 0 .. Len(s)
  PROVE  /\ SubSeq(s, 1, n) \in Seq(S) /\ Len(SubSeq(s, 1, n)) = n
         /\ \A i \in 1 .. n : SubSeq(s, 1, n)[i] = s[i]
<1>1. Len(s) \in Nat /\ \A i \in 1 .. n : s[i] \in S
  BY LenProperties, ElementOfSeq
<1>2. QED
  BY <1>1, SubSeqProperties

LEMMA SameBeginning ==
  ASSUME NEW S, NEW s \in Seq(S), NEW t \in Seq(S), NEW n \in 0 .. Len(s), n =< Len(t),
         \A i \in 1 .. n : s[i] = t[i]
  PROVE  SubSeq(t, 1, n) = SubSeq(s, 1, n)
<1>1. n \in 0 .. Len(t) /\ n \in Nat
  BY LenProperties
<1>2. /\ SubSeq(s, 1, n) \in Seq(S) /\ Len(SubSeq(s, 1, n)) = n
      /\ \A i \in 1 .. n : SubSeq(s, 1, n)[i] = s[i]
  BY Beginning
<1>3. /\ SubSeq(t, 1, n) \in Seq(S) /\ Len(SubSeq(t, 1, n)) = n
      /\ \A i \in 1 .. n : SubSeq(t, 1, n)[i] = t[i]
  BY <1>1, Beginning
<1>4. \A i \in 1 .. n : SubSeq(t, 1, n)[i] = SubSeq(s, 1, n)[i]
  BY <1>2, <1>3
<1>5. QED
  BY <1>1, <1>2, <1>3, <1>4, SeqEqual

LEMMA Longer ==
  ASSUME NEW S, NEW s \in Seq(S), NEW t \in Seq(S)
  PROVE  /\ s \o t \in Seq(S) /\ Len(s \o t) = Len(s) + Len(t)
         /\ Len(s) \in Nat /\ Len(t) \in Nat
         /\ \A i \in 1 .. Len(s) : (s \o t)[i] = s[i]
         /\ \A n \in 0 .. Len(s) : SubSeq(s \o t, 1, n) = SubSeq(s, 1, n)
<1>1. Len(s) \in Nat /\ Len(t) \in Nat
  BY LenProperties
<1>2. /\ s \o t \in Seq(S) /\ Len(s \o t) = Len(s) + Len(t)
      /\ \A i \in 1 .. Len(s) + Len(t) : (s \o t)[i] = IF i <= Len(s) THEN s[i] ELSE t[i - Len(s)]
  BY ConcatProperties
<1>3. \A i \in 1 .. Len(s) : (s \o t)[i] = s[i]
  BY <1>1, <1>2
<1>4. ASSUME NEW n \in 0 .. Len(s) PROVE SubSeq(s \o t, 1, n) = SubSeq(s, 1, n)
  <2> DEFINE u == s \o t
  <2>1. u \in Seq(S) /\ n =< Len(u) /\ \A i \in 1 .. n : s[i] = u[i]
    BY <1>1, <1>2, <1>3
  <2> HIDE DEF u
  <2>2. SubSeq(u, 1, n) = SubSeq(s, 1, n)
    BY <2>1, SameBeginning
  <2>3. QED
    BY <2>2 DEF u
<1>5. QED
  BY <1>1, <1>2, <1>3, <1>4

LEMMA FrontIs ==
  ASSUME NEW S, NEW s \in Seq(S)
  PROVE  /\ Front(s) \in Seq(S)
         /\ s = <<>> => Front(s) = <<>>
         /\ s # <<>> => /\ Len(Front(s)) = Len(s) - 1 /\ Last(s) \in S
                        /\ Len(s) >= 1 /\ Last(s) = s[Len(s)]
                        /\ \A i \in 1 .. Len(s) - 1 : Front(s)[i] = s[i]
<1>1. Len(s) \in Nat /\ (s = <<>> <=> Len(s) = 0) /\ \A i \in 1 .. Len(s) : s[i] \in S
  BY EmptySeq, LenProperties, ElementOfSeq
<1>2. Front(s) = SubSeq(s, 1, Len(s) - 1) /\ Last(s) = s[Len(s)]
  BY DEF Front, Last
<1>3. CASE s = <<>>
  <2>1. 1 \in Int /\ Len(s) - 1 \in Int /\ Len(s) - 1 < 1
    BY <1>1, <1>3
  <2>2. Front(s) = <<>>
    BY <1>2, <2>1, SubSeqEmpty
  <2>3. QED
    BY <2>2, <1>3, EmptySeq
<1>4. CASE s # <<>>
  <2>1. Len(s) - 1 \in 0 .. Len(s) /\ Len(s) >= 1
    BY <1>1, <1>4
  <2>2. /\ Front(s) \in Seq(S) /\ Len(Front(s)) = Len(s) - 1
        /\ \A i \in 1 .. Len(s) - 1 : Front(s)[i] = s[i]
    BY <1>2, <2>1, Beginning
  <2>3. QED
    BY <1>1, <1>2, <1>4, <2>1, <2>2
<1>5. QED
  BY <1>3, <1>4

(* And its end.                                                            *)
LEMMA Ending ==
  ASSUME NEW S, NEW s \in Seq(S), NEW n \in 1 .. Len(s) + 1
  PROVE  /\ SubSeq(s, n, Len(s)) \in Seq(S)
         /\ Len(SubSeq(s, n, Len(s))) = Len(s) + 1 - n
         /\ \A i \in 1 .. Len(s) + 1 - n : SubSeq(s, n, Len(s))[i] = s[n + i - 1]
<1>1. Len(s) \in Nat /\ \A i \in n .. Len(s) : s[i] \in S
  BY LenProperties, ElementOfSeq
<1>2. QED
  BY <1>1, SubSeqProperties

(* What a session file of the messages c says.                             *)
Text(c) == <<Header>> \o c

LEMMA TextIs ==
  ASSUME NEW c \in Seq(Message)
  PROVE  /\ Text(c) \in Seq(Line) /\ Text(c) # <<>>
         /\ Len(Text(c)) = Len(c) + 1 /\ Len(c) \in Nat
         /\ Text(c)[1] = Header /\ \A i \in 1 .. Len(c) : Text(c)[i + 1] = c[i]
         /\ \A i \in DOMAIN Text(c) : Text(c)[i] \notin Unreadable
         /\ Tail(Text(c)) = c
<1>1. c \in Seq(Line) /\ <<Header>> \in Seq(Line) /\ Len(<<Header>>) = 1 /\ <<Header>>[1] = Header
  BY LineKinds, SeqMonotonic
<1>2. /\ Text(c) \in Seq(Line) /\ Len(Text(c)) = 1 + Len(c)
      /\ \A i \in 1 .. 1 + Len(c) : Text(c)[i] = IF i <= 1 THEN Header ELSE c[i - 1]
  BY <1>1, ConcatProperties DEF Text
<1>3. Len(c) \in Nat /\ \A i \in 1 .. Len(c) : c[i] \in Message
  BY LenProperties, ElementOfSeq
<1>4. Text(c)[1] = Header /\ \A i \in 1 .. Len(c) : Text(c)[i + 1] = c[i]
  BY <1>2, <1>3
<1>5. DOMAIN Text(c) = 1 .. Len(c) + 1
  BY <1>2, <1>3, LenProperties
<1>6. \A i \in DOMAIN Text(c) : Text(c)[i] \notin Unreadable
  BY <1>2, <1>3, <1>5, LineKinds
<1>7. Text(c) # <<>>
  BY <1>2, <1>3
<1>8. Tail(Text(c)) = c
  <2>1. /\ Tail(Text(c)) \in Seq(Line) /\ Len(Tail(Text(c))) = Len(c)
        /\ \A i \in 1 .. Len(c) : Tail(Text(c))[i] = Text(c)[i + 1]
    BY <1>2, <1>3, <1>7, HeadTailProperties
  <2>2. QED
    BY <2>1, <1>1, <1>4, SeqEqual
<1>9. QED
  BY <1>2, <1>3, <1>4, <1>6, <1>7, <1>8

(* The first lines of a text are the text of the first messages.           *)
LEMMA FirstLines ==
  ASSUME NEW c \in Seq(Message), NEW ls \in Seq(Line), ls # <<>>,
         Len(ls) =< Len(c) + 1, \A i \in 1 .. Len(ls) : ls[i] = Text(c)[i]
  PROVE  Len(ls) - 1 \in 0 .. Len(c) /\ ls = Text(SubSeq(c, 1, Len(ls) - 1))
<1> DEFINE d == SubSeq(c, 1, Len(ls) - 1)
<1>1. Len(ls) \in Nat /\ Len(ls) # 0 /\ Len(c) \in Nat
  BY EmptySeq, LenProperties
<1>2. Len(ls) - 1 \in 0 .. Len(c)
  BY <1>1
<1>3. d \in Seq(Message) /\ Len(d) = Len(ls) - 1 /\ \A i \in 1 .. Len(ls) - 1 : d[i] = c[i]
  BY <1>2, Beginning
<1> HIDE DEF d
<1>4. /\ Text(d) \in Seq(Line) /\ Len(Text(d)) = Len(ls)
      /\ Text(d)[1] = Header /\ \A i \in 1 .. Len(ls) - 1 : Text(d)[i + 1] = d[i]
  BY <1>1, <1>3, TextIs
<1>5. Text(c)[1] = Header /\ \A i \in 1 .. Len(c) : Text(c)[i + 1] = c[i]
  BY TextIs
<1>6. \A i \in 1 .. Len(ls) : ls[i] = Text(d)[i]
  <2> SUFFICES ASSUME NEW i \in 1 .. Len(ls) PROVE ls[i] = Text(d)[i]
    OBVIOUS
  <2>1. CASE i = 1
    BY <2>1, <1>4, <1>5
  <2>2. CASE i # 1
    <3>1. PICK j \in 1 .. Len(ls) - 1 : i = j + 1
      BY <2>2, <1>1
    <3>2. j \in 1 .. Len(c)
      BY <1>2, <3>1
    <3>3. QED
      BY <1>3, <1>4, <1>5, <3>1, <3>2
  <2>3. QED
    BY <2>1, <2>2
<1>7. ls = Text(d)
  BY <1>4, <1>6, SeqEqual
<1>8. QED
  BY <1>2, <1>7 DEF d

(* A file that is being written and what is to be written to it.           *)
LEMMA Halves ==
  ASSUME NEW c \in Seq(Message), NEW ls \in Seq(Line), NEW td \in Seq(Line), ls \o td = Text(c)
  PROVE  /\ Len(ls) =< Len(c) + 1 /\ \A i \in 1 .. Len(ls) : ls[i] = Text(c)[i]
         /\ td = <<>> => ls = Text(c)
         /\ td # <<>> => /\ Head(td) \in Line /\ Tail(td) \in Seq(Line)
                         /\ Append(ls, Head(td)) \in Seq(Line)
                         /\ Append(ls, Head(td)) \o Tail(td) = Text(c)
<1>1. Len(ls) \in Nat /\ Len(td) \in Nat /\ Len(c) \in Nat
  BY LenProperties
<1>2. /\ Len(c) + 1 = Len(ls) + Len(td)
      /\ \A i \in 1 .. Len(ls) + Len(td) : Text(c)[i] = IF i <= Len(ls) THEN ls[i] ELSE td[i - Len(ls)]
  <2>1. /\ Len(ls \o td) = Len(ls) + Len(td)
        /\ \A i \in 1 .. Len(ls) + Len(td) : (ls \o td)[i] = IF i <= Len(ls) THEN ls[i] ELSE td[i - Len(ls)]
    BY ConcatProperties
  <2>2. Len(Text(c)) = Len(c) + 1
    BY TextIs
  <2>3. QED
    BY <2>1, <2>2
<1>3. Len(ls) =< Len(c) + 1 /\ \A i \in 1 .. Len(ls) : ls[i] = Text(c)[i]
  BY <1>1, <1>2
<1>4. td = <<>> => ls = Text(c)
  BY ConcatEmptySeq
<1>5. ASSUME td # <<>>
      PROVE  /\ Head(td) \in Line /\ Tail(td) \in Seq(Line)
             /\ Append(ls, Head(td)) \in Seq(Line)
             /\ Append(ls, Head(td)) \o Tail(td) = Text(c)
  <2>1. /\ Head(td) \in Line /\ Tail(td) \in Seq(Line) /\ Len(td) # 0
        /\ td = <<Head(td)>> \o Tail(td)
    <3>1. Head(td) \in Line /\ Tail(td) \in Seq(Line) /\ Len(td) # 0
      BY <1>5, HeadTailProperties, EmptySeq
    <3>2. 1 \in 1 .. Len(td) /\ Len(td) \in 1 .. Len(td)
      BY <1>1, <3>1
    <3>3. SubSeq(td, 1, Len(td)) = << td[1] >> \o SubSeq(td, 1 + 1, Len(td))
      BY <3>2, SubSeqRecursiveFirst
    <3>4. SubSeq(td, 1, Len(td)) = td /\ Tail(td) = SubSeq(td, 2, Len(td)) /\ Head(td) = td[1]
      BY <1>5, SubSeqFull, TailIsSubSeq
    <3>5. QED
      BY <3>1, <3>3, <3>4
  <2>2. Append(ls, Head(td)) \in Seq(Line) /\ Append(ls, Head(td)) = ls \o <<Head(td)>>
    BY <2>1, AppendProperties, AppendIsConcat
  <2>3. <<Head(td)>> \in Seq(Line)
    BY <2>1
  <2>4. (ls \o <<Head(td)>>) \o Tail(td) = ls \o (<<Head(td)>> \o Tail(td))
    BY <2>1, <2>3, ConcatAssociative
  <2>5. QED
    BY <2>1, <2>2, <2>4
<1>6. QED
  BY <1>3, <1>4, <1>5

-----------------------------------------------------------------------------
(* Whole turns                                                             *)

(* Calls that nothing answers yet.                                         *)
HalfTurn(c) == c # <<>> /\ Last(c).k = "calls" /\ WholeTurns(Front(c))
NearlyWhole(c) == WholeTurns(c) \/ HalfTurn(c)

LEMMA MessageIs ==
  ASSUME NEW c \in Seq(Message)
  PROVE  /\ Len(c) \in Nat /\ DOMAIN c = 1 .. Len(c) /\ (c = <<>> <=> Len(c) = 0)
         /\ \A i \in 1 .. Len(c) : c[i] \in Message
BY LenProperties, ElementOfSeq, EmptySeq

(* Whole turns do not end with calls.                                      *)
LEMMA WholeEnd ==
  ASSUME NEW c \in Seq(Message), WholeTurns(c), c # <<>>
  PROVE  Last(c).k # "calls"
<1>1. Len(c) \in DOMAIN c /\ Len(c) \in Nat
  BY MessageIs
<1>2. c[Len(c)].k = "calls" => Len(c) < Len(c)
  BY <1>1, Zenon DEF WholeTurns
<1>3. QED
  BY <1>1, <1>2 DEF Last

(* The beginning of whole turns, cut off anywhere.                         *)
LEMMA WholeBeginning ==
  ASSUME NEW c \in Seq(Message), WholeTurns(c), NEW n \in 0 .. Len(c)
  PROVE  /\ NearlyWhole(SubSeq(c, 1, n))
         /\ (n < Len(c) => c[n + 1].k # "tools") => WholeTurns(SubSeq(c, 1, n))
<1> DEFINE d == SubSeq(c, 1, n)
<1>1. d \in Seq(Message) /\ Len(d) = n /\ \A i \in 1 .. n : d[i] = c[i]
  BY Beginning
<1> HIDE DEF d
<1>2. Len(c) \in Nat /\ DOMAIN c = 1 .. Len(c) /\ DOMAIN d = 1 .. n /\ n \in Nat
  BY <1>1, MessageIs
<1>3. ASSUME NEW i \in 1 .. n, i # n \/ d[i].k # "calls"
      PROVE  /\ d[i].k = "calls" => i < Len(d) /\ d[i + 1] = [k |-> "tools", n |-> d[i].n]
             /\ d[i].k = "tools" => i > 1 /\ d[i - 1] = [k |-> "calls", n |-> d[i].n]
  <2>1. i \in DOMAIN c /\ d[i] = c[i]
    BY <1>1, <1>2, <1>3
  <2>2. /\ c[i].k = "calls" => i < Len(c) /\ c[i + 1] = [k |-> "tools", n |-> c[i].n]
        /\ c[i].k = "tools" => i > 1 /\ c[i - 1] = [k |-> "calls", n |-> c[i].n]
    BY <2>1 DEF WholeTurns
  <2>3. i # n => i < Len(d) /\ i + 1 \in 1 .. n /\ d[i + 1] = c[i + 1]
    BY <1>1, <1>2, <1>3
  <2>4. i > 1 => i - 1 \in 1 .. n /\ d[i - 1] = c[i - 1]
    BY <1>1, <1>2, <1>3
  <2>5. QED
    BY <1>3, <2>1, <2>2, <2>3, <2>4
<1>4. CASE n = 0 \/ d[n].k # "calls"
  <2>1. WholeTurns(d)
    BY <1>2, <1>3, <1>4 DEF WholeTurns
  <2>2. QED
    BY <2>1 DEF NearlyWhole, d
<1>5. CASE n # 0 /\ d[n].k = "calls"
  <2>1. d # <<>> /\ Last(d) = d[n]
    BY <1>1, <1>5, MessageIs DEF Last
  <2>2. Front(d) \in Seq(Message) /\ Len(Front(d)) = n - 1 /\ \A i \in 1 .. n - 1 : Front(d)[i] = d[i]
    BY <1>1, <2>1, FrontIs
  <2>3. DOMAIN Front(d) = 1 .. n - 1
    BY <2>2, MessageIs
  <2>4. ASSUME NEW i \in 1 .. n - 1
        PROVE  /\ Front(d)[i].k = "calls" =>
                    i < n - 1 /\ Front(d)[i + 1] = [k |-> "tools", n |-> Front(d)[i].n]
               /\ Front(d)[i].k = "tools" =>
                    i > 1 /\ Front(d)[i - 1] = [k |-> "calls", n |-> Front(d)[i].n]
    <3>1. i \in 1 .. n /\ i # n /\ Front(d)[i] = d[i] /\ (i > 1 => Front(d)[i - 1] = d[i - 1])
      BY <1>2, <2>2, <2>4
    <3>2. i + 1 = n => d[i].k # "calls"
      <4>1. SUFFICES ASSUME i + 1 = n, d[i].k = "calls" PROVE FALSE
        OBVIOUS
      <4>2. d[n] = [k |-> "tools", n |-> d[i].n]
        BY <1>3, <3>1, <4>1
      <4>3. QED
        BY <4>2, <1>5
    <3>3. i + 1 # n => i + 1 \in 1 .. n - 1 /\ Front(d)[i + 1] = d[i + 1]
      BY <1>2, <2>2, <2>4
    <3>4. /\ d[i].k = "calls" => i < n - 1 /\ d[i + 1] = [k |-> "tools", n |-> d[i].n]
          /\ d[i].k = "tools" => i > 1 /\ d[i - 1] = [k |-> "calls", n |-> d[i].n]
      BY <1>2, <1>3, <3>1, <3>2
    <3>5. QED
      BY <1>2, <3>1, <3>3, <3>4
  <2>5. WholeTurns(Front(d))
    BY <2>2, <2>3, <2>4 DEF WholeTurns
  <2>6. c[n].k = "calls" /\ n \in DOMAIN c
    BY <1>1, <1>2, <1>5
  <2>7. n < Len(c) /\ c[n + 1].k = "tools"
    <3>1. n < Len(c) /\ c[n + 1] = [k |-> "tools", n |-> c[n].n]
      BY <2>6, Zenon DEF WholeTurns
    <3>2. QED
      BY <3>1
  <2>8. QED
    BY <1>5, <2>1, <2>5, <2>7 DEF NearlyWhole, HalfTurn, d
<1>6. QED
  BY <1>4, <1>5

(* Calls that are not answered yet may be left out.                        *)
LEMMA NearlyBeginning ==
  ASSUME NEW c \in Seq(Message), NearlyWhole(c), NEW n \in 0 .. Len(c)
  PROVE  NearlyWhole(SubSeq(c, 1, n))
<1>1. CASE WholeTurns(c)
  BY <1>1, WholeBeginning
<1>2. CASE HalfTurn(c) /\ n = Len(c)
  <2>1. SubSeq(c, 1, n) = c
    BY <1>2, SubSeqFull
  <2>2. QED
    BY <2>1
<1>3. CASE HalfTurn(c) /\ n # Len(c)
  <2>1. /\ c # <<>> /\ Front(c) \in Seq(Message) /\ Len(Front(c)) = Len(c) - 1 /\ Len(c) \in Nat
        /\ WholeTurns(Front(c)) /\ \A i \in 1 .. Len(c) - 1 : Front(c)[i] = c[i]
    BY <1>3, FrontIs, MessageIs DEF HalfTurn
  <2>2. n \in 0 .. Len(Front(c))
    BY <1>3, <2>1
  <2>3. NearlyWhole(SubSeq(Front(c), 1, n))
    BY <2>1, <2>2, WholeBeginning
  <2>4. SubSeq(Front(c), 1, n) = SubSeq(c, 1, n)
    <3>1. /\ SubSeq(Front(c), 1, n) \in Seq(Message) /\ Len(SubSeq(Front(c), 1, n)) = n
          /\ \A i \in 1 .. n : SubSeq(Front(c), 1, n)[i] = Front(c)[i]
      BY <2>1, <2>2, Beginning
    <3>2. /\ SubSeq(c, 1, n) \in Seq(Message) /\ Len(SubSeq(c, 1, n)) = n
          /\ \A i \in 1 .. n : SubSeq(c, 1, n)[i] = c[i]
      BY Beginning
    <3>3. \A i \in 1 .. n : SubSeq(Front(c), 1, n)[i] = SubSeq(c, 1, n)[i]
      BY <2>1, <2>2, <3>1, <3>2
    <3>4. QED
      BY <3>1, <3>2, <3>3, SeqEqual
  <2>5. QED
    BY <2>3, <2>4
<1>4. QED
  BY <1>1, <1>2, <1>3 DEF NearlyWhole

(* Whole turns go on with whole turns.                                     *)
LEMMA WholeJoin ==
  ASSUME NEW c \in Seq(Message), NEW d \in Seq(Message), WholeTurns(c), WholeTurns(d)
  PROVE  c \o d \in Seq(Message) /\ WholeTurns(c \o d)
<1> DEFINE e == c \o d
<1>1. /\ e \in Seq(Message) /\ Len(e) = Len(c) + Len(d)
      /\ \A i \in 1 .. Len(c) + Len(d) : e[i] = IF i <= Len(c) THEN c[i] ELSE d[i - Len(c)]
  BY ConcatProperties
<1> HIDE DEF e
<1>2. /\ Len(c) \in Nat /\ DOMAIN c = 1 .. Len(c) /\ Len(d) \in Nat /\ DOMAIN d = 1 .. Len(d)
      /\ DOMAIN e = 1 .. Len(c) + Len(d)
  BY <1>1, MessageIs
<1>3. ASSUME NEW i \in 1 .. Len(c) + Len(d)
      PROVE  /\ e[i].k = "calls" => i < Len(e) /\ e[i + 1] = [k |-> "tools", n |-> e[i].n]
             /\ e[i].k = "tools" => i > 1 /\ e[i - 1] = [k |-> "calls", n |-> e[i].n]
  <2>1. CASE i <= Len(c)
    <3>1. i \in DOMAIN c /\ e[i] = c[i]
      BY <1>1, <1>2, <2>1
    <3>2. /\ c[i].k = "calls" => i < Len(c) /\ c[i + 1] = [k |-> "tools", n |-> c[i].n]
          /\ c[i].k = "tools" => i > 1 /\ c[i - 1] = [k |-> "calls", n |-> c[i].n]
      BY <3>1 DEF WholeTurns
    <3>3. i < Len(c) => i + 1 <= Len(c) /\ i < Len(e) /\ e[i + 1] = c[i + 1]
      BY <1>1, <1>2, <2>1
    <3>4. i > 1 => e[i - 1] = c[i - 1]
      BY <1>1, <1>2, <2>1
    <3>5. QED
      BY <3>1, <3>2, <3>3, <3>4
  <2>2. CASE i > Len(c)
    <3> DEFINE j == i - Len(c)
    <3>1. j \in DOMAIN d /\ e[i] = d[j]
      BY <1>1, <1>2, <2>2
    <3>2. /\ d[j].k = "calls" => j < Len(d) /\ d[j + 1] = [k |-> "tools", n |-> d[j].n]
          /\ d[j].k = "tools" => j > 1 /\ d[j - 1] = [k |-> "calls", n |-> d[j].n]
      BY <3>1 DEF WholeTurns
    <3>3. j < Len(d) => i + 1 > Len(c) /\ i < Len(e) /\ e[i + 1] = d[j + 1]
      BY <1>1, <1>2, <2>2
    <3>4. j > 1 => i > 1 /\ e[i - 1] = d[j - 1]
      BY <1>1, <1>2, <2>2
    <3>5. QED
      BY <3>1, <3>2, <3>3, <3>4
  <2>3. QED
    BY <1>2, <2>1, <2>2
<1>4. WholeTurns(e)
  BY <1>2, <1>3 DEF WholeTurns
<1>5. QED
  BY <1>1, <1>4 DEF e

(* One message of a kind that stands alone.                                *)
Plain == {"system", "user", "text"}

LEMMA WholePlain ==
  ASSUME NEW m \in Message, m.k \in Plain
  PROVE  <<m>> \in Seq(Message) /\ WholeTurns(<<m>>)
<1>1. <<m>> \in Seq(Message) /\ Len(<<m>>) = 1 /\ <<m>>[1] = m /\ DOMAIN <<m>> = {1}
  OBVIOUS
<1>2. QED
  BY <1>1 DEF WholeTurns, Plain

LEMMA WholeNothing == <<>> \in Seq(Message) /\ WholeTurns(<<>>)
<1>1. DOMAIN <<>> = {}
  OBVIOUS
<1>2. QED
  BY <1>1 DEF WholeTurns

(* Calls, and then their results.                                          *)
LEMMA HalfThenWhole ==
  ASSUME NEW c \in Seq(Message), NEW n \in Nat
  PROVE  /\ WholeTurns(c) => LET d == Append(c, [k |-> "calls", n |-> n])
                             IN  d \in Seq(Message) /\ HalfTurn(d) /\ Last(d).n = n
         /\ HalfTurn(c) => LET d == Append(c, [k |-> "tools", n |-> Last(c).n])
                           IN  d \in Seq(Message) /\ WholeTurns(d)
<1>1. ASSUME WholeTurns(c)
      PROVE  LET d == Append(c, [k |-> "calls", n |-> n])
             IN  d \in Seq(Message) /\ HalfTurn(d) /\ Last(d).n = n
  <2> DEFINE m == [k |-> "calls", n |-> n]
             d == Append(c, m)
  <2>1. m \in Message /\ m.k = "calls" /\ m.n = n
    BY DEF Message
  <2> HIDE DEF m
  <2>2. /\ d \in Seq(Message) /\ d # <<>> /\ Len(d) = Len(c) + 1
        /\ \A i \in 1 .. Len(c) : d[i] = c[i]
        /\ d[Len(c) + 1] = m
    BY <2>1, AppendProperties
  <2> HIDE DEF d
  <2>3. /\ Front(d) \in Seq(Message) /\ Len(Front(d)) = Len(c) /\ Last(d) = m
        /\ \A i \in 1 .. Len(c) : Front(d)[i] = d[i]
    <3>1. /\ Front(d) \in Seq(Message) /\ Len(Front(d)) = Len(d) - 1 /\ Last(d) = d[Len(d)]
          /\ \A i \in 1 .. Len(d) - 1 : Front(d)[i] = d[i]
      BY <2>2, FrontIs
    <3>2. Len(c) \in Nat /\ Len(d) - 1 = Len(c)
      BY <2>2, MessageIs
    <3>3. QED
      BY <2>2, <3>1, <3>2
  <2>4. Front(d) = c
    BY <2>2, <2>3, SeqEqual
  <2>5. QED
    BY <1>1, <2>1, <2>2, <2>3, <2>4 DEF HalfTurn, d, m
<1>2. ASSUME HalfTurn(c)
      PROVE  LET d == Append(c, [k |-> "tools", n |-> Last(c).n])
             IN  d \in Seq(Message) /\ WholeTurns(d)
  <2> DEFINE m == [k |-> "tools", n |-> Last(c).n]
             d == Append(c, m)
             b == Front(c)
             l == Len(c)
  <2>1. /\ b \in Seq(Message) /\ Len(b) = l - 1 /\ l \in Nat /\ l >= 1 /\ WholeTurns(b)
        /\ \A i \in 1 .. l - 1 : b[i] = c[i]
        /\ c[l] \in Message /\ c[l].k = "calls" /\ Last(c) = c[l]
    BY <1>2, FrontIs, MessageIs DEF HalfTurn
  <2>2. m \in Message /\ m.k = "tools" /\ m.n = c[l].n /\ m = [k |-> "tools", n |-> c[l].n]
    BY <2>1 DEF Message
  <2> HIDE DEF m, b
  <2>3. /\ d \in Seq(Message) /\ Len(d) = l + 1
        /\ \A i \in 1 .. l : d[i] = c[i]
        /\ d[l + 1] = m
    BY <2>2, AppendProperties
  <2> HIDE DEF d, l
  <2>4. DOMAIN d = 1 .. l + 1 /\ DOMAIN b = 1 .. l - 1
    BY <2>1, <2>3, MessageIs
  <2>5. ASSUME NEW i \in 1 .. l + 1
        PROVE  /\ d[i].k = "calls" => i < Len(d) /\ d[i + 1] = [k |-> "tools", n |-> d[i].n]
               /\ d[i].k = "tools" => i > 1 /\ d[i - 1] = [k |-> "calls", n |-> d[i].n]
    <3>1. CASE i < l
      <4>1. i \in DOMAIN b /\ d[i] = b[i]
        <5>1. i \in 1 .. l - 1 /\ i \in 1 .. l
          BY <2>1, <3>1
        <5>2. QED
          BY <2>1, <2>3, <2>4, <5>1
      <4>2. /\ b[i].k = "calls" => i < Len(b) /\ b[i + 1] = [k |-> "tools", n |-> b[i].n]
            /\ b[i].k = "tools" => i > 1 /\ b[i - 1] = [k |-> "calls", n |-> b[i].n]
        <5>1. WholeTurns(b)
          BY <2>1
        <5>2. QED
          BY <4>1, <5>1, Zenon DEF WholeTurns
      <4>3. i < Len(b) => i < Len(d) /\ d[i + 1] = b[i + 1]
        BY <2>1, <2>3, <3>1
      <4>4. i > 1 => d[i - 1] = b[i - 1]
        BY <2>1, <2>3, <3>1
      <4>5. QED
        BY <4>1, <4>2, <4>3, <4>4
    <3>2. CASE i = l
      BY <2>1, <2>2, <2>3, <3>2
    <3>3. CASE i = l + 1
      <4>1. d[l] = c[l] /\ d[i] = m /\ i - 1 = l /\ i > 1
        BY <2>1, <2>3, <3>3
      <4>2. c[l] = [k |-> "calls", n |-> c[l].n]
        BY <2>1 DEF Message
      <4>3. QED
        BY <2>2, <4>1, <4>2
    <3>4. QED
      BY <2>1, <3>1, <3>2, <3>3
  <2>6. WholeTurns(d)
    BY <2>4, <2>5 DEF WholeTurns
  <2>7. QED
    BY <2>3, <2>6 DEF d, m
<1>3. QED
  BY <1>1, <1>2

(* What drop_dangling and repair_dangling_tool_calls leave is whole.       *)
LEMMA WholeAgain ==
  ASSUME NEW c \in Seq(Message), NearlyWhole(c)
  PROVE  /\ DropDangling(c) \in Seq(Message) /\ WholeTurns(DropDangling(c))
         /\ Repaired(c) \in Seq(Message) /\ WholeTurns(Repaired(c))
         /\ WholeTurns(c) => DropDangling(c) = c /\ Repaired(c) = c
         /\ Len(c) =< Len(Repaired(c)) /\ \A i \in 1 .. Len(c) : Repaired(c)[i] = c[i]
<1>0. Len(c) \in Nat
  BY MessageIs
<1>1. CASE WholeTurns(c)
  <2>1. ~(c # <<>> /\ Last(c).k = "calls")
    BY <1>1, WholeEnd
  <2>2. DropDangling(c) = c /\ Repaired(c) = c
    BY <2>1 DEF DropDangling, Repaired
  <2>3. QED
    BY <1>0, <1>1, <2>2
<1>2. CASE HalfTurn(c)
  <2>1. c # <<>> /\ Last(c).k = "calls" /\ WholeTurns(Front(c)) /\ Front(c) \in Seq(Message)
    BY <1>2, FrontIs DEF HalfTurn
  <2>2. DropDangling(c) = Front(c) /\ Repaired(c) = Append(c, [k |-> "tools", n |-> Last(c).n])
    BY <2>1 DEF DropDangling, Repaired
  <2>3. Repaired(c) \in Seq(Message) /\ WholeTurns(Repaired(c))
    <3>1. 0 \in Nat
      OBVIOUS
    <3>2. LET d == Append(c, [k |-> "tools", n |-> Last(c).n])
          IN  d \in Seq(Message) /\ WholeTurns(d)
      BY <1>2, <3>1, HalfThenWhole, Zenon
    <3>3. QED
      BY <2>2, <3>2
  <2>4. ~WholeTurns(c)
    BY <2>1, WholeEnd
  <2>5. Last(c).n \in Nat
    <3>1. Last(c) \in Message
      BY <2>1, FrontIs
    <3>2. QED
      BY <3>1 DEF Message
  <2>6. [k |-> "tools", n |-> Last(c).n] \in Message
    BY <2>5 DEF Message
  <2>7. Len(Repaired(c)) = Len(c) + 1 /\ \A i \in 1 .. Len(c) : Repaired(c)[i] = c[i]
    BY <2>2, <2>6, AppendProperties
  <2>8. QED
    BY <1>0, <2>1, <2>2, <2>3, <2>4, <2>7
<1>3. QED
  BY <1>1, <1>2 DEF NearlyWhole

LEMMA StartIs ==
  ASSUME NEW c \in Seq(Message)
  PROVE  /\ Start(c) \in {0, 1} /\ Start(c) =< Len(c)
         /\ Start(c) = 1 => c # <<>> /\ c[1].k = "system"
<1>1. c # <<>> => Len(c) >= 1
  BY MessageIs
<1>2. QED
  BY <1>1, MessageIs DEF Start

(* A tail that does not begin with results is whole.                       *)
LEMMA WholeEnding ==
  ASSUME NEW c \in Seq(Message), WholeTurns(c), NEW m \in 1 .. Len(c) + 1,
         m = Len(c) + 1 \/ c[m].k # "tools"
  PROVE  WholeTurns(SubSeq(c, m, Len(c)))
<1> DEFINE d == SubSeq(c, m, Len(c))
<1>1. /\ d \in Seq(Message) /\ Len(d) = Len(c) + 1 - m
      /\ \A i \in 1 .. Len(c) + 1 - m : d[i] = c[m + i - 1]
  BY Ending
<1> HIDE DEF d
<1>2. Len(c) \in Nat /\ DOMAIN c = 1 .. Len(c) /\ DOMAIN d = 1 .. Len(c) + 1 - m
  BY <1>1, MessageIs
<1>3. ASSUME NEW i \in 1 .. Len(c) + 1 - m
      PROVE  /\ d[i].k = "calls" => i < Len(d) /\ d[i + 1] = [k |-> "tools", n |-> d[i].n]
             /\ d[i].k = "tools" => i > 1 /\ d[i - 1] = [k |-> "calls", n |-> d[i].n]
  <2> DEFINE j == m + i - 1
  <2>1. j \in DOMAIN c /\ d[i] = c[j]
    BY <1>1, <1>2
  <2>2. /\ c[j].k = "calls" => j < Len(c) /\ c[j + 1] = [k |-> "tools", n |-> c[j].n]
        /\ c[j].k = "tools" => j > 1 /\ c[j - 1] = [k |-> "calls", n |-> c[j].n]
    BY <2>1 DEF WholeTurns
  <2>3. ASSUME j < Len(c) PROVE i < Len(d) /\ d[i + 1] = c[j + 1]
    <3>1. i + 1 \in 1 .. Len(c) + 1 - m /\ m + (i + 1) - 1 = j + 1
      BY <1>2, <2>3
    <3>2. i < Len(d)
      BY <1>1, <1>2, <3>1
    <3>3. d[i + 1] = c[m + (i + 1) - 1]
      BY <1>1, <3>1
    <3>4. QED
      BY <3>1, <3>2, <3>3
  <2>4. ASSUME i > 1 PROVE d[i - 1] = c[j - 1]
    <3>1. i - 1 \in 1 .. Len(c) + 1 - m /\ m + (i - 1) - 1 = j - 1
      BY <1>2, <2>4
    <3>2. d[i - 1] = c[m + (i - 1) - 1]
      BY <1>1, <3>1
    <3>3. QED
      BY <3>1, <3>2
  <2>5. i = 1 => c[j].k # "tools"
    BY <1>2
  <2>6. QED
    BY <1>2, <2>1, <2>2, <2>3, <2>4, <2>5
<1>4. QED
  BY <1>2, <1>3 DEF WholeTurns, d

(* compact keeps turns whole: the system prompt, a summary, a whole tail.  *)
LEMMA WholeCompacted ==
  ASSUME NEW c \in Seq(Message), WholeTurns(c), NEW least \in Nat, NEW cut \in Heads(c, least),
         NEW m \in Message, m.k = "user"
  PROVE  /\ Compacted(c, cut, m) \in Seq(Message) /\ WholeTurns(Compacted(c, cut, m))
         /\ Len(Compacted(c, cut, m)) =< Len(c) + 1 - least
         /\ least =< Len(c) - Start(c)
<1> DEFINE a == SubSeq(c, 1, Start(c))
           b == <<m>>
           d == SubSeq(c, cut, Len(c))
<1>1. /\ cut \in Start(c) + 1 .. Len(c) + 1 /\ cut - 1 - Start(c) >= least
      /\ cut = Len(c) + 1 \/ c[cut].k # "tools"
  BY DEF Heads, TailCuts
<1>2. Start(c) \in {0, 1} /\ Start(c) =< Len(c) /\ (Start(c) = 1 => c # <<>> /\ c[1].k = "system")
  BY StartIs
<1>3. Len(c) \in Nat /\ cut \in 1 .. Len(c) + 1 /\ Start(c) \in 0 .. Len(c)
  BY <1>1, <1>2, MessageIs
<1>4. a \in Seq(Message) /\ Len(a) = Start(c) /\ \A i \in 1 .. Start(c) : a[i] = c[i]
  BY <1>3, Beginning
<1>5. WholeTurns(a)
  <2>1. CASE Start(c) = 0
    BY <2>1, <1>4, MessageIs, WholeNothing
  <2>2. CASE Start(c) = 1
    <3>1. DOMAIN a = {1} /\ a[1].k = "system"
      BY <2>2, <1>2, <1>4, MessageIs
    <3>2. QED
      BY <3>1 DEF WholeTurns
  <2>3. QED
    BY <1>2, <2>1, <2>2
<1>6. b \in Seq(Message) /\ Len(b) = 1 /\ WholeTurns(b)
  BY WholePlain DEF Plain
<1>7. d \in Seq(Message) /\ Len(d) = Len(c) + 1 - cut /\ WholeTurns(d)
  BY <1>1, <1>3, Ending, WholeEnding
<1> HIDE DEF a, b, d
<1>8. a \o b \in Seq(Message) /\ WholeTurns(a \o b) /\ Len(a \o b) = Start(c) + 1
  <2>1. a \o b \in Seq(Message) /\ WholeTurns(a \o b)
    BY <1>4, <1>5, <1>6, WholeJoin
  <2>2. Len(a \o b) = Len(a) + Len(b)
    BY <1>4, <1>6, ConcatProperties
  <2>3. QED
    BY <1>4, <1>6, <2>1, <2>2
<1> DEFINE ab == a \o b
<1> HIDE DEF ab
<1>9. /\ ab \o d \in Seq(Message) /\ WholeTurns(ab \o d)
      /\ Len(ab \o d) = Start(c) + 1 + (Len(c) + 1 - cut)
  <2>1. ab \in Seq(Message) /\ WholeTurns(ab) /\ Len(ab) = Start(c) + 1
    BY <1>8 DEF ab
  <2>2. ab \o d \in Seq(Message) /\ WholeTurns(ab \o d)
    BY <1>7, <2>1, WholeJoin
  <2>3. Len(ab \o d) = Len(ab) + Len(d)
    BY <1>7, <2>1, ConcatProperties
  <2>4. QED
    BY <1>7, <2>1, <2>2, <2>3
<1>10. Compacted(c, cut, m) = ab \o d
  BY DEF Compacted, a, b, d, ab
<1>11. QED
  BY <1>1, <1>2, <1>3, <1>9, <1>10

-----------------------------------------------------------------------------
(* Files                                                                   *)

(* A line that no append can make readable again.                          *)
Spoiled(fl) ==
  \E i \in DOMAIN fl.lines : fl.lines[i] \in Unreadable /\ (i < Len(fl.lines) \/ fl.tail # "bare")

(* What can be loaded at all is a conversation, cut off anywhere.          *)
FileSound(fl) ==
  Loads(fl) => /\ Tail(Readable(fl)) \in Seq(Message)
               /\ NearlyWhole(Tail(Readable(fl)))

(* A file that is being written, until c is on it.                         *)
Underway(fl, c, todo) ==
  Spoiled(fl) \/ (fl.lines \o todo = Text(c) /\ fl.tail # "half")

Tails == {"ok", "half", "bare"}

LEMMA FileIs ==
  ASSUME NEW fl \in File
  PROVE  /\ fl.lines \in Seq(Line) /\ fl.tail \in Tails
         /\ Len(fl.lines) \in Nat /\ DOMAIN fl.lines = 1 .. Len(fl.lines)
         /\ (fl.lines = <<>> <=> Len(fl.lines) = 0)
         /\ fl = [lines |-> fl.lines, tail |-> fl.tail]
<1>1. fl.lines \in Seq(Line) /\ fl.tail \in Tails /\ fl = [lines |-> fl.lines, tail |-> fl.tail]
  BY DEF File, Line, Tails
<1>2. QED
  BY <1>1, LenProperties, EmptySeq

LEMMA FileOf ==
  ASSUME NEW ls \in Seq(Line), NEW t \in Tails
  PROVE  [lines |-> ls, tail |-> t] \in File
BY DEF File, Line, Tails

(* A file of whole lines loads as what was written.                        *)
LEMMA TextFile ==
  ASSUME NEW c \in Seq(Message), NEW fl, fl.lines = Text(c)
  PROVE  /\ Readable(fl) = Text(c) /\ Loads(fl) /\ Loaded(fl) = DropDangling(c)
         /\ ~Spoiled(fl) /\ (NearlyWhole(c) => FileSound(fl))
<1>1. Last(Text(c)) \notin Unreadable
  <2>1. Len(Text(c)) \in DOMAIN Text(c)
    BY TextIs, LenProperties
  <2>2. QED
    BY <2>1, TextIs DEF Last
<1>2. Readable(fl) = Text(c)
  BY <1>1 DEF Readable
<1>3. Loads(fl)
  BY <1>2, TextIs DEF Loads
<1>4. Tail(Readable(fl)) = c
  BY <1>2, TextIs
<1>5. ~Spoiled(fl)
  BY TextIs DEF Spoiled
<1>6. QED
  BY <1>2, <1>3, <1>4, <1>5 DEF Loaded, FileSound

LEMMA SpoiledNoLoad ==
  ASSUME NEW fl \in File, Spoiled(fl)
  PROVE  ~Loads(fl)
<1> DEFINE ls == fl.lines
<1>1. PICK i \in DOMAIN ls : ls[i] \in Unreadable /\ (i < Len(ls) \/ fl.tail # "bare")
  BY DEF Spoiled
<1>2. ls \in Seq(Line) /\ Len(ls) \in Nat /\ DOMAIN ls = 1 .. Len(ls) /\ ls # <<>>
  BY <1>1, FileIs
<1>3. CASE fl.tail = "bare" /\ Last(ls) \in Unreadable
  <2>1. Readable(fl) = Front(ls) /\ i < Len(ls)
    BY <1>1, <1>3 DEF Readable
  <2>2. /\ Front(ls) \in Seq(Line) /\ Len(Front(ls)) = Len(ls) - 1
        /\ \A j \in 1 .. Len(ls) - 1 : Front(ls)[j] = ls[j]
    BY <1>2, FrontIs
  <2>3. i \in DOMAIN Front(ls) /\ Front(ls)[i] \in Unreadable
    BY <1>1, <1>2, <2>1, <2>2, LenProperties
  <2>4. QED
    BY <2>1, <2>3 DEF Loads
<1>4. CASE ~(fl.tail = "bare" /\ Last(ls) \in Unreadable)
  BY <1>1, <1>4 DEF Readable, Loads
<1>5. QED
  BY <1>3, <1>4

(* Nothing, or some messages, with a last line that may be unreadable.     *)
LEMMA SoundShapes ==
  ASSUME NEW c \in Seq(Message), NearlyWhole(c), NEW fl, NEW ls \in Seq(Line),
         NEW g \in Unreadable,
         ls = <<>> \/ ls = Text(c),
         fl.lines = ls \/ (fl.tail = "bare" /\ fl.lines = Append(ls, g))
  PROVE  FileSound(fl)
<1>1. Readable(fl) = ls
  <2>1. CASE fl.lines = ls /\ ls = <<>>
    BY <2>1, FrontIs DEF Readable
  <2>2. CASE fl.lines = ls /\ ls = Text(c)
    BY <2>2, TextFile
  <2>3. CASE fl.tail = "bare" /\ fl.lines = Append(ls, g)
    <3> DEFINE d == Append(ls, g)
    <3>1. /\ d \in Seq(Line) /\ d # <<>> /\ Len(d) = Len(ls) + 1 /\ Len(ls) \in Nat
          /\ \A i \in 1 .. Len(ls) : d[i] = ls[i]
          /\ d[Len(ls) + 1] = g
      BY LineKinds, AppendProperties, LenProperties
    <3> HIDE DEF d
    <3>2. /\ Front(d) \in Seq(Line) /\ Len(Front(d)) = Len(d) - 1 /\ Last(d) = d[Len(d)]
          /\ \A i \in 1 .. Len(d) - 1 : Front(d)[i] = d[i]
      BY <3>1, FrontIs
    <3>3. Len(Front(d)) = Len(ls) /\ \A i \in 1 .. Len(Front(d)) : Front(d)[i] = ls[i]
      BY <3>1, <3>2
    <3>4. Front(d) = ls /\ Last(d) = g
      BY <3>1, <3>2, <3>3, SeqEqual
    <3>5. QED
      BY <2>3, <3>4 DEF Readable, d
  <2>4. QED
    BY <2>1, <2>2, <2>3
<1>2. CASE ls = <<>>
  BY <1>1, <1>2 DEF FileSound, Loads
<1>3. CASE ls = Text(c)
  <2>1. Tail(Readable(fl)) = c
    BY <1>1, <1>3, TextIs
  <2>2. QED
    BY <2>1 DEF FileSound
<1>4. QED
  BY <1>2, <1>3

LEMMA UnderwaySound ==
  ASSUME NEW fl \in File, NEW c \in Seq(Message), NearlyWhole(c), NEW todo \in Seq(Line),
         Underway(fl, c, todo)
  PROVE  FileSound(fl)
<1>1. CASE Spoiled(fl)
  BY <1>1, SpoiledNoLoad DEF FileSound
<1>2. CASE fl.lines \o todo = Text(c)
  <2> DEFINE ls == fl.lines
  <2>1. ls \in Seq(Line) /\ Len(ls) =< Len(c) + 1 /\ \A i \in 1 .. Len(ls) : ls[i] = Text(c)[i]
    BY <1>2, FileIs, Halves
  <2> HIDE DEF ls
  <2>2. CASE ls = <<>>
    <3>1. fl.lines = ls
      BY DEF ls
    <3>2. QED
      BY <2>1, <2>2, <3>1, SoundShapes, LineKinds
  <2>3. CASE ls # <<>>
    <3> DEFINE d == SubSeq(c, 1, Len(ls) - 1)
    <3>1. Len(ls) - 1 \in 0 .. Len(c) /\ ls = Text(d)
      BY <2>1, <2>3, FirstLines
    <3>2. d \in Seq(Message) /\ NearlyWhole(d)
      BY <3>1, Beginning, NearlyBeginning
    <3>3. QED
      BY <3>1, <3>2, TextFile DEF ls
  <2>4. QED
    BY <2>2, <2>3
<1>3. QED
  BY <1>1, <1>2 DEF Underway

(* The lines before the last are a beginning too.                          *)
LEMMA OneLess ==
  ASSUME NEW ls \in Seq(Line), NEW c \in Seq(Message), NearlyWhole(c),
         Len(ls) =< Len(c) + 1, \A i \in 1 .. Len(ls) : ls[i] = Text(c)[i]
  PROVE  /\ Front(ls) \in Seq(Line)
         /\ \E d \in Seq(Message) : NearlyWhole(d) /\ (Front(ls) = <<>> \/ Front(ls) = Text(d))
<1> DEFINE fr == Front(ls)
<1>1. CASE ls = <<>>
  BY <1>1, FrontIs
<1>2. CASE ls # <<>>
  <2>1. /\ fr \in Seq(Line) /\ Len(fr) = Len(ls) - 1 /\ Len(ls) >= 1 /\ Len(ls) \in Nat
        /\ Len(c) \in Nat /\ \A i \in 1 .. Len(ls) - 1 : fr[i] = ls[i]
    BY <1>2, FrontIs, LenProperties
  <2> HIDE DEF fr
  <2>2. Len(fr) =< Len(c) + 1 /\ \A i \in 1 .. Len(fr) : fr[i] = Text(c)[i]
    BY <2>1
  <2>3. CASE fr = <<>>
    BY <2>1, <2>3 DEF fr
  <2>4. CASE fr # <<>>
    <3> DEFINE d == SubSeq(c, 1, Len(fr) - 1)
    <3>1. Len(fr) - 1 \in 0 .. Len(c) /\ fr = Text(d)
      BY <2>1, <2>2, <2>4, FirstLines
    <3>2. d \in Seq(Message) /\ NearlyWhole(d)
      BY <3>1, Beginning, NearlyBeginning
    <3>3. QED
      BY <2>1, <3>1, <3>2 DEF fr
  <2>5. QED
    BY <2>3, <2>4
<1>3. QED
  BY <1>1, <1>2

(* A line more, whatever the last one lacked.                              *)
LEMMA PutKeeps ==
  ASSUME NEW fl \in File, NEW c \in Seq(Message), NEW todo \in Seq(Line), todo # <<>>,
         Underway(fl, c, todo)
  PROVE  /\ Put(fl, Head(todo)) \in File /\ Underway(Put(fl, Head(todo)), c, Tail(todo))
         /\ fl.tail = "ok" => Put(fl, Head(todo)).lines = Append(fl.lines, Head(todo))
         /\ Put(fl, Head(todo)).tail = "ok"
         /\ Spoiled(fl) => Spoiled(Put(fl, Head(todo)))
<1> DEFINE ls == fl.lines
           m == Head(todo)
           gl == Append(ls, m)
           gf == Append(Front(ls), Joined)
           gg == Append(ls, Garbage)
           new == Put(fl, m)
<1>1. /\ ls \in Seq(Line) /\ fl.tail \in Tails /\ Len(ls) \in Nat /\ DOMAIN ls = 1 .. Len(ls)
      /\ (ls = <<>> <=> Len(ls) = 0) /\ m \in Line /\ Garbage \in Line /\ Joined \in Line
      /\ Garbage \in Unreadable /\ Joined \in Unreadable
  BY FileIs, HeadTailProperties, LineKinds
<1>2. /\ fl.tail = "ok" => new = [lines |-> gl, tail |-> "ok"]
      /\ fl.tail = "bare" => new = [lines |-> gf, tail |-> "ok"]
      /\ fl.tail = "half" => new = [lines |-> gg, tail |-> "ok"]
  BY DEF Put
<1>3. /\ gl \in Seq(Line) /\ Len(gl) = Len(ls) + 1 /\ \A i \in 1 .. Len(ls) : gl[i] = ls[i]
      /\ gg \in Seq(Line) /\ Len(gg) = Len(ls) + 1 /\ gg[Len(ls) + 1] = Garbage
  BY <1>1, AppendProperties
<1>4. /\ Front(ls) \in Seq(Line)
      /\ ls # <<>> => /\ Len(Front(ls)) = Len(ls) - 1
                      /\ \A i \in 1 .. Len(ls) - 1 : Front(ls)[i] = ls[i]
  BY <1>1, FrontIs
<1>5. gf \in Seq(Line) /\ Len(gf) = Len(Front(ls)) + 1 /\ gf[Len(gf)] = Joined /\ Len(gf) \in 1 .. Len(gf)
  BY <1>1, <1>4, AppendProperties, LenProperties
<1> HIDE DEF m, gl, gf, gg, ls
<1>6. DOMAIN gl = 1 .. Len(gl) /\ DOMAIN gf = 1 .. Len(gf) /\ DOMAIN gg = 1 .. Len(gg)
  BY <1>3, <1>5, LenProperties
<1>7. new \in File /\ new.tail = "ok"
  <2>1. \E l \in Seq(Line) : new = [lines |-> l, tail |-> "ok"]
    BY <1>1, <1>2, <1>3, <1>5 DEF Tails
  <2>2. "ok" \in Tails
    BY DEF Tails
  <2>3. QED
    BY <2>1, <2>2, FileOf
<1>8. ASSUME fl.tail = "bare" PROVE Spoiled(new)
  <2>1. new = [lines |-> gf, tail |-> "ok"]
    BY <1>2, <1>8
  <2>2. Len(gf) \in DOMAIN gf /\ gf[Len(gf)] = Joined
    BY <1>5, <1>6
  <2>3. QED
    BY <1>1, <2>1, <2>2 DEF Spoiled
<1>9. ASSUME fl.tail = "half" PROVE Spoiled(new)
  <2>1. new = [lines |-> gg, tail |-> "ok"]
    BY <1>2, <1>9
  <2>2. Len(ls) + 1 \in DOMAIN gg /\ gg[Len(ls) + 1] = Garbage
    BY <1>1, <1>3, <1>6
  <2>3. QED
    BY <1>1, <2>1, <2>2 DEF Spoiled
<1>10. Spoiled(fl) => Spoiled(new)
  <2>1. ASSUME Spoiled(fl), fl.tail = "ok" PROVE Spoiled(new)
    <3>1. PICK i \in DOMAIN ls : ls[i] \in Unreadable
      BY <2>1 DEF Spoiled, ls
    <3>2. i \in DOMAIN gl /\ gl[i] \in Unreadable /\ i < Len(gl)
      BY <1>1, <1>3, <1>6, <3>1
    <3>3. QED
      BY <1>2, <2>1, <3>2 DEF Spoiled
  <2>2. QED
    BY <1>1, <1>8, <1>9, <2>1 DEF Tails
<1>11. Underway(new, c, Tail(todo))
  <2>1. CASE Spoiled(fl) \/ fl.tail # "ok"
    BY <1>1, <1>8, <1>9, <1>10, <2>1 DEF Underway, Tails
  <2>2. CASE ~Spoiled(fl) /\ fl.tail = "ok"
    <3>1. ls \o todo = Text(c)
      BY <2>2 DEF Underway, ls
    <3>2. gl \o Tail(todo) = Text(c)
      BY <1>1, <3>1, Halves DEF gl, m
    <3>3. QED
      BY <1>2, <2>2, <3>2 DEF Underway
  <2>3. QED
    BY <2>1, <2>2
<1>12. fl.tail = "ok" => new.lines = gl
  BY <1>2
<1>13. QED
  BY <1>7, <1>10, <1>11, <1>12 DEF m, gl, ls

(* A line cut short.                                                       *)
LEMMA TornKeeps ==
  ASSUME NEW fl \in File, NEW c \in Seq(Message), NearlyWhole(c),
         NEW todo \in Seq(Line), todo # <<>>, Underway(fl, c, todo), NEW t \in Tails
  PROVE  Torn(fl, Head(todo), t) \in File /\ FileSound(Torn(fl, Head(todo), t))
<1> DEFINE ls == fl.lines
           m == Head(todo)
           new == Torn(fl, m, t)
<1>1. /\ ls \in Seq(Line) /\ fl.tail \in Tails /\ Len(ls) \in Nat /\ DOMAIN ls = 1 .. Len(ls)
      /\ (ls = <<>> <=> Len(ls) = 0) /\ m \in Line /\ Garbage \in Line /\ Joined \in Line
  BY FileIs, HeadTailProperties, LineKinds
<1>2. /\ Front(ls) \in Seq(Line)
      /\ ls # <<>> => /\ Len(Front(ls)) = Len(ls) - 1
                      /\ \A i \in 1 .. Len(ls) - 1 : Front(ls)[i] = ls[i]
  BY <1>1, FrontIs
<1>3. FileSound(fl)
  BY UnderwaySound
<1>4. CASE t = "ok"
  <2>1. new = fl
    BY <1>4 DEF Torn
  <2>2. QED
    BY <1>3, <2>1
<1>5. CASE t = "half" /\ fl.tail # "bare"
  <2>1. new = [fl EXCEPT !.tail = "half"]
    BY <1>5 DEF Torn
  <2>2. new = [lines |-> ls, tail |-> "half"]
    <3>1. fl = [lines |-> ls, tail |-> fl.tail]
      BY FileIs
    <3> HIDE DEF new, ls
    <3>2. QED
      BY <2>1, <3>1
  <2>3. new \in File /\ new.lines = ls /\ new.tail = "half"
    <3>1. "half" \in Tails /\ ls \in Seq(Line)
      BY <1>1 DEF Tails
    <3> HIDE DEF new, ls
    <3>2. new.lines = ls /\ new.tail = "half"
      BY <2>2
    <3>3. QED
      BY <2>2, <3>1, <3>2, FileOf
  <2>4. CASE Spoiled(fl)
    <3>1. Spoiled(new)
      BY <2>3, <2>4 DEF Spoiled
    <3>2. QED
      BY <2>3, <3>1, SpoiledNoLoad DEF FileSound
  <2>5. CASE ~Spoiled(fl)
    <3>1. ls \o todo = Text(c)
      BY <2>5 DEF Underway
    <3>2. Len(ls) =< Len(c) + 1 /\ \A i \in 1 .. Len(ls) : ls[i] = Text(c)[i]
      BY <1>1, <3>1, Halves
    <3>3. CASE ls = <<>>
      BY <1>1, <2>3, <3>3, SoundShapes, LineKinds
    <3>4. CASE ls # <<>>
      <4>1. /\ Len(ls) - 1 \in 0 .. Len(c) /\ ls = Text(SubSeq(c, 1, Len(ls) - 1))
        BY <1>1, <3>2, <3>4, FirstLines
      <4>2. SubSeq(c, 1, Len(ls) - 1) \in Seq(Message) /\ NearlyWhole(SubSeq(c, 1, Len(ls) - 1))
        BY <4>1, Beginning, NearlyBeginning
      <4>3. QED
        BY <2>3, <4>1, <4>2, TextFile
    <3>5. QED
      BY <3>3, <3>4
  <2>6. QED
    BY <2>4, <2>5
<1>6. CASE t = "bare" \/ (t = "half" /\ fl.tail = "bare")
  <2> DEFINE p == Put(fl, m)
  <2>1. new = [p EXCEPT !.tail = "bare"] /\ p \in File
    BY <1>6, PutKeeps DEF Torn
  <2>2. new.lines = p.lines /\ new.tail = "bare" /\ new \in File
    BY <2>1 DEF File
  <2>3. /\ fl.tail = "ok" => p.lines = Append(ls, m)
        /\ fl.tail = "bare" => p.lines = Append(Front(ls), Joined)
        /\ fl.tail = "half" => p.lines = Append(ls, Garbage)
    BY DEF Put
  <2>4. CASE Spoiled(fl)
    <3>1. PICK i \in DOMAIN ls : ls[i] \in Unreadable /\ (i < Len(ls) \/ fl.tail # "bare")
      BY <2>4 DEF Spoiled
    <3>2. PICK b \in Seq(Line), e \in Line : p.lines = Append(b, e) /\ i \in 1 .. Len(b) /\ b[i] \in Unreadable
      <4>1. CASE fl.tail = "bare"
        <5>1. i \in 1 .. Len(Front(ls)) /\ Front(ls)[i] \in Unreadable
          <6>1. i \in 1 .. Len(ls) - 1 /\ ls # <<>>
            BY <1>1, <3>1, <4>1
          <6>2. Len(Front(ls)) = Len(ls) - 1 /\ Front(ls)[i] = ls[i]
            BY <1>2, <6>1
          <6>3. QED
            BY <3>1, <6>1, <6>2
        <5>2. QED
          BY <1>1, <1>2, <2>3, <4>1, <5>1
      <4>2. CASE fl.tail = "ok" \/ fl.tail = "half"
        BY <1>1, <2>3, <3>1, <4>2
      <4>3. QED
        BY <1>1, <4>1, <4>2 DEF Tails
    <3>3. /\ p.lines[i] \in Unreadable /\ Len(p.lines) = Len(b) + 1 /\ Len(b) \in Nat
          /\ p.lines \in Seq(Line)
      <4>1. /\ Append(b, e) \in Seq(Line) /\ Len(Append(b, e)) = Len(b) + 1
            /\ \A j \in 1 .. Len(b) : Append(b, e)[j] = b[j]
        BY AppendProperties
      <4>2. Len(b) \in Nat
        BY LenProperties
      <4>3. QED
        BY <3>2, <4>1, <4>2
    <3>4. i \in DOMAIN p.lines /\ i < Len(p.lines)
      BY <3>2, <3>3, LenProperties
    <3>5. Spoiled(new)
      BY <2>2, <3>3, <3>4 DEF Spoiled
    <3>6. QED
      BY <2>2, <3>5, SpoiledNoLoad DEF FileSound
  <2>5. CASE ~Spoiled(fl)
    <3>1. ls \o todo = Text(c) /\ fl.tail # "half"
      BY <2>5 DEF Underway
    <3>2. Len(ls) =< Len(c) + 1 /\ \A i \in 1 .. Len(ls) : ls[i] = Text(c)[i]
      BY <1>1, <3>1, Halves
    <3>3. CASE fl.tail = "bare"
      <4>1. PICK d \in Seq(Message) : NearlyWhole(d) /\ (Front(ls) = <<>> \/ Front(ls) = Text(d))
        BY <1>1, <3>2, OneLess
      <4>2. new.lines = Append(Front(ls), Joined)
        BY <2>2, <2>3, <3>3
      <4> DEFINE b == Front(ls)
      <4>3. b \in Seq(Line) /\ (b = <<>> \/ b = Text(d)) /\ new.lines = Append(b, Joined)
        BY <1>2, <4>1, <4>2
      <4> HIDE DEF new, ls, b
      <4>4. FileSound(new)
        BY <2>2, <4>1, <4>3, SoundShapes, LineKinds
      <4>5. QED
        BY <2>2, <4>4 DEF new, ls
    <3>4. CASE fl.tail = "ok"
      <4> DEFINE gl == Append(ls, m)
      <4>1. gl \in Seq(Line) /\ gl \o Tail(todo) = Text(c) /\ Tail(todo) \in Seq(Line) /\ gl # <<>>
        <5>1. gl \in Seq(Line) /\ gl \o Tail(todo) = Text(c) /\ Tail(todo) \in Seq(Line)
          BY <1>1, <3>1, Halves
        <5>2. gl # <<>>
          BY <1>1, AppendProperties
        <5>3. QED
          BY <5>1, <5>2
      <4> HIDE DEF gl
      <4>2. Len(gl) =< Len(c) + 1 /\ \A i \in 1 .. Len(gl) : gl[i] = Text(c)[i]
        BY <4>1, Halves
      <4>3. Len(gl) - 1 \in 0 .. Len(c) /\ gl = Text(SubSeq(c, 1, Len(gl) - 1))
        BY <4>1, <4>2, FirstLines
      <4>4. SubSeq(c, 1, Len(gl) - 1) \in Seq(Message) /\ NearlyWhole(SubSeq(c, 1, Len(gl) - 1))
        BY <4>3, Beginning, NearlyBeginning
      <4>5. new.lines = gl
        BY <2>2, <2>3, <3>4 DEF gl
      <4> DEFINE d == SubSeq(c, 1, Len(gl) - 1)
      <4>6. d \in Seq(Message) /\ NearlyWhole(d) /\ new.lines = Text(d)
        BY <4>3, <4>4, <4>5
      <4> HIDE DEF d, new
      <4>7. FileSound(new)
        BY <4>6, TextFile
      <4>8. QED
        BY <2>2, <4>7 DEF new
    <3>5. QED
      BY <1>1, <3>1, <3>3, <3>4 DEF Tails
  <2>6. QED
    BY <2>4, <2>5
<1>7. QED
  BY <1>4, <1>5, <1>6 DEF Tails

-----------------------------------------------------------------------------
(* The invariant                                                           *)

(* A compaction in the middle of a run leaves fewer messages than are on   *)
(* file, whatever was said and delivered since.  The code's own check, two *)
(* messages, does not see to that: a file may then get the results of      *)
(* calls without the calls.                                                *)
CompactionsShrink == LongSession => MinHead >= Deliveries + 4

(* How whole the context is where the worker is.                           *)
AsWhole(c, at) ==
  /\ at \in {"idle", "start", "top", "model", "limit"} => WholeTurns(c)
  /\ at = "dispatch" => HalfTurn(c)
  /\ at \in {"ending", "ended"} => NearlyWhole(c)

(* The recorder is in step: the file holds the first n messages of the     *)
(* context, all of them after a sync, and all but a turn or two before it. *)
(* A new session's system prompt is recorded with the first sync.          *)
Records(fl, c) == (fl.lines = Text(c) /\ fl.tail # "half") \/ Spoiled(fl)
Ahead(at) == IF at \in {"start", "top"} THEN 2 ELSE 0
InStep(fl, c, n, at) ==
  /\ n =< Len(c) /\ Records(fl, SubSeq(c, 1, n))
  /\ at \in {"model", "limit"} => Len(c) = n
  /\ at = "dispatch" => Len(c) = n + 1
  /\ at \in {"idle", "start", "top"} =>
       Len(c) =< n + Ahead(at) \/ (n = 0 /\ Len(c) =< 1 + Ahead(at))

(* Every byte is part of a line that can be read, or of the last, and what *)
(* was once in step is still there, unless two lines ran together.         *)
Clean(fl) == \A i \in DOMAIN fl.lines : fl.lines[i] \notin Unreadable
Keeps(fl, k) ==
  k # <<>> => /\ Len(k) + 1 =< Len(fl.lines)
              /\ \A i \in 1 .. Len(k) + 1 : fl.lines[i] = Text(k)[i]
Lasts(fl, k) == RanTogether(fl) \/ (Clean(fl) /\ Keeps(fl, k))

(* A sync writes the context to the file in use.                           *)
Syncing(j) ==
  /\ j.kind = "sync" /\ ctx = j.msgs /\ j.file = cur /\ ~disabled
  /\ j.fail = j.next /\ j.next \in {"idle", "model", "limit", "ended"} /\ AsWhole(ctx, j.next)

(* A session that is opened or cleared takes the place of another only     *)
(* when its file is complete.                                              *)
Replacing(j) ==
  /\ j.kind \in {"reopen", "candidate"}
  /\ j.next = "idle" /\ WholeTurns(j.msgs)
  /\ j.fail \in {"down", "idle"}
  /\ j.fail = "idle" => WholeTurns(ctx)
  /\ j.fail = "idle" /\ ~disabled => j.file # cur /\ InStep(file[cur], ctx, cursor, "idle")
  /\ j.kind = "candidate" => kept[j.file] = <<>>

JobThere == IF pc = "write" THEN job \in Job ELSE job = NoJob
Contexts == pc \notin {"down", "write"} => AsWhole(ctx, pc)
Files == \A f \in Session : FileSound(file[f])
Recorder == pc \notin {"down", "write"} /\ ~disabled => InStep(file[cur], ctx, cursor, pc)
Writes ==
  pc = "write" => /\ Underway(file[job.file], job.msgs, job.todo) /\ NearlyWhole(job.msgs)
                  /\ Syncing(job) \/ Replacing(job)
Lasting == \A f \in Session : Lasts(file[f], kept[f])

ConvInv == TypeOK /\ JobThere /\ Contexts /\ Files /\ Recorder /\ Writes /\ Lasting

(* Steps that leave the file alone and let the context grow.               *)
LEMMA GrowStep ==
  ASSUME ConvInv, UNCHANGED record,
         pc \notin {"down", "write"}, pc' \in PC \ {"down", "write"},
         steps' \in 0 .. MaxSteps, fresh' \in 0 .. MaxMessages,
         ctx' \in Seq(Message), AsWhole(ctx', pc'),
         Len(ctx) =< Len(ctx'), \A i \in 1 .. Len(ctx) : ctx'[i] = ctx[i],
         ~disabled => /\ pc' \in {"model", "limit"} => Len(ctx') = cursor
                      /\ pc' = "dispatch" => Len(ctx') = cursor + 1
                      /\ pc' \in {"idle", "start", "top"} =>
                           \/ Len(ctx') =< cursor + Ahead(pc')
                           \/ cursor = 0 /\ Len(ctx') =< 1 + Ahead(pc')
  PROVE  ConvInv'
<1>1. /\ file' = file /\ cur' = cur /\ cursor' = cursor /\ disabled' = disabled
      /\ job' = job /\ kept' = kept
  BY DEF record
<1>2. TypeOK /\ ctx \in Seq(Message) /\ cursor \in Nat
  BY DEF ConvInv, TypeOK
<1>3. TypeOK'
  BY <1>1, <1>2 DEF TypeOK
<1>4. JobThere' /\ Writes' /\ Files' /\ Lasting'
  BY <1>1 DEF ConvInv, JobThere, Writes, Files, Lasting
<1>5. Contexts'
  BY DEF Contexts
<1>6. Recorder'
  <2> SUFFICES ASSUME ~disabled PROVE InStep(file'[cur'], ctx', cursor', pc')
    BY <1>1 DEF Recorder
  <2>1. cursor =< Len(ctx) /\ Records(file[cur], SubSeq(ctx, 1, cursor))
    BY DEF ConvInv, Recorder, InStep
  <2>2. Len(ctx) \in Nat /\ Len(ctx') \in Nat
    BY <1>2, LenProperties
  <2>3. SubSeq(ctx', 1, cursor) = SubSeq(ctx, 1, cursor)
    <3>1. cursor \in 0 .. Len(ctx) /\ cursor =< Len(ctx')
      BY <1>2, <2>1, <2>2
    <3>2. \A i \in 1 .. cursor : ctx[i] = ctx'[i]
      BY <2>2, <3>1
    <3>3. QED
      BY <1>2, <3>1, <3>2, SameBeginning
  <2>4. cursor =< Len(ctx')
    BY <1>2, <2>1, <2>2
  <2>5. Records(file[cur], SubSeq(ctx', 1, cursor))
    BY <2>1, <2>3
  <2>6. /\ pc' \in {"model", "limit"} => Len(ctx') = cursor
        /\ pc' = "dispatch" => Len(ctx') = cursor + 1
        /\ pc' \in {"idle", "start", "top"} =>
             Len(ctx') =< cursor + Ahead(pc') \/ (cursor = 0 /\ Len(ctx') =< 1 + Ahead(pc'))
    OBVIOUS
  <2>7. QED
    BY <1>1, <2>4, <2>5, <2>6 DEF InStep
<1>7. QED
  BY <1>3, <1>4, <1>5, <1>6 DEF ConvInv

(* A whole line leaves what was on file.                                   *)
LEMMA CleanWrites ==
  ASSUME NEW fl \in File, Clean(fl), fl.tail = "ok", NEW m \in Message \cup {Header},
         NEW k \in Seq(Message), Keeps(fl, k)
  PROVE  Clean(Put(fl, m)) /\ Keeps(Put(fl, m), k)
<1> DEFINE ls == fl.lines
           gl == Append(ls, m)
<1>1. /\ ls \in Seq(Line) /\ Len(ls) \in Nat /\ DOMAIN ls = 1 .. Len(ls) /\ m \in Line
      /\ m \notin Unreadable
  BY FileIs, LineKinds DEF Line
<1>2. /\ gl \in Seq(Line) /\ Len(gl) = Len(ls) + 1 /\ gl[Len(ls) + 1] = m
      /\ \A i \in 1 .. Len(ls) : gl[i] = ls[i]
  BY <1>1, AppendProperties
<1>3. Put(fl, m).lines = gl
  BY DEF Put
<1>4. Len(k) \in Nat
  BY LenProperties
<1> HIDE DEF gl
<1>5. DOMAIN gl = 1 .. Len(ls) + 1
  BY <1>2, LenProperties
<1>6. Clean(Put(fl, m))
  <2>1. \A i \in 1 .. Len(ls) : ls[i] \notin Unreadable
    BY <1>1 DEF Clean
  <2>2. \A i \in 1 .. Len(ls) + 1 : gl[i] \notin Unreadable
    BY <1>1, <1>2, <2>1
  <2>3. QED
    BY <1>3, <1>5, <2>2 DEF Clean
<1>7. Keeps(Put(fl, m), k)
  BY <1>1, <1>2, <1>3, <1>4 DEF Keeps
<1>8. QED
  BY <1>6, <1>7

LEMMA CleanIs ==
  ASSUME NEW fl, Clean(fl)
  PROVE  ~Spoiled(fl)
BY DEF Clean, Spoiled

(* Lines that ran together stay so, and an append to a line without its    *)
(* newline makes them.                                                     *)
LEMMA TogetherStays ==
  ASSUME NEW fl \in File, NEW m \in Line, RanTogether(fl) \/ fl.tail = "bare"
  PROVE  RanTogether(Put(fl, m))
<1> DEFINE ls == fl.lines
           gf == Append(Front(ls), Joined)
<1>1. ls \in Seq(Line) /\ Len(ls) \in Nat /\ DOMAIN ls = 1 .. Len(ls) /\ fl.tail \in Tails
  BY FileIs
<1>2. CASE fl.tail = "bare"
  <2>1. Front(ls) \in Seq(Line) /\ Joined \in Line
    BY <1>1, FrontIs, LineKinds
  <2>2. /\ gf \in Seq(Line) /\ Len(gf) = Len(Front(ls)) + 1 /\ Len(Front(ls)) \in Nat
        /\ gf[Len(Front(ls)) + 1] = Joined
    BY <2>1, AppendProperties, LenProperties
  <2>3. Put(fl, m).lines = gf
    BY <1>2 DEF Put
  <2> HIDE DEF gf
  <2>4. Len(gf) \in DOMAIN gf /\ gf[Len(gf)] = Joined
    BY <2>2, LenProperties
  <2>5. QED
    BY <2>3, <2>4 DEF RanTogether
<1>3. CASE fl.tail # "bare"
  <2>1. PICK e \in Line : Put(fl, m).lines = Append(ls, e)
    BY <1>1, <1>3, LineKinds DEF Put, Tails
  <2>2. PICK i \in DOMAIN ls : ls[i] = Joined
    BY <1>3 DEF RanTogether
  <2> DEFINE gl == Append(ls, e)
  <2>3. /\ gl \in Seq(Line) /\ Len(gl) = Len(ls) + 1 /\ \A j \in 1 .. Len(ls) : gl[j] = ls[j]
    BY <1>1, AppendProperties
  <2> HIDE DEF gl
  <2>4. i \in DOMAIN gl /\ gl[i] = Joined
    BY <1>1, <2>2, <2>3, LenProperties
  <2>5. QED
    BY <2>1, <2>4 DEF RanTogether, gl
<1>4. QED
  BY <1>2, <1>3

(* A line, or a part of one, leaves what was on file, or runs into the     *)
(* line before it.                                                         *)
LEMMA LastsWrites ==
  ASSUME NEW fl \in File, NEW k \in Seq(Message), Lasts(fl, k),
         NEW c, NEW todo, Underway(fl, c, todo), NEW m \in Message \cup {Header},
         NEW t \in Tails
  PROVE  Lasts(Put(fl, m), k) /\ Lasts(Torn(fl, m, t), k)
<1>1. fl.tail \in Tails /\ m \in Line
  BY FileIs, LineKinds
<1>2. Lasts(Put(fl, m), k)
  <2>1. CASE RanTogether(fl) \/ fl.tail = "bare"
    BY <1>1, <2>1, TogetherStays DEF Lasts
  <2>2. CASE ~RanTogether(fl) /\ fl.tail # "bare"
    <3>1. Clean(fl) /\ Keeps(fl, k)
      BY <2>2 DEF Lasts
    <3>2. fl.tail = "ok"
      BY <1>1, <2>2, <3>1, CleanIs DEF Underway, Tails
    <3>3. QED
      BY <3>1, <3>2, CleanWrites DEF Lasts
  <2>3. QED
    BY <2>1, <2>2
<1>3. ASSUME NEW g, g.lines = fl.lines PROVE Lasts(g, k)
  BY <1>3 DEF Lasts, RanTogether, Clean, Keeps
<1>4. ASSUME NEW g, g.lines = Put(fl, m).lines PROVE Lasts(g, k)
  BY <1>2, <1>4 DEF Lasts, RanTogether, Clean, Keeps
<1>5. Lasts(Torn(fl, m, t), k)
  <2>1. CASE t = "ok"
    BY <1>3, <2>1 DEF Torn
  <2>2. CASE t = "bare" \/ (t = "half" /\ fl.tail = "bare")
    <3>1. Torn(fl, m, t) = [Put(fl, m) EXCEPT !.tail = "bare"]
      BY <2>2 DEF Torn
    <3>2. Torn(fl, m, t).lines = Put(fl, m).lines
      BY <3>1 DEF Put
    <3>3. QED
      BY <1>4, <3>2
  <2>3. CASE t = "half" /\ fl.tail # "bare"
    <3>1. Torn(fl, m, t) = [fl EXCEPT !.tail = "half"]
      BY <2>3 DEF Torn
    <3>2. Torn(fl, m, t).lines = fl.lines
      BY <3>1, FileIs
    <3>3. QED
      BY <1>3, <3>2
  <2>4. QED
    BY <2>1, <2>2, <2>3 DEF Tails
<1>6. QED
  BY <1>2, <1>5

(* What has been written keeps itself.                                     *)
LEMMA TextKeeps ==
  ASSUME NEW c \in Seq(Message), NEW fl, fl.lines = Text(c)
  PROVE  Clean(fl) /\ Keeps(fl, c)
<1>1. Len(Text(c)) = Len(c) + 1 /\ Len(c) \in Nat
  BY TextIs
<1>2. \A i \in DOMAIN Text(c) : Text(c)[i] \notin Unreadable
  BY TextIs
<1>3. QED
  BY <1>1, <1>2 DEF Clean, Keeps

LEMMA TextSplit ==
  ASSUME NEW c \in Seq(Message), NEW n \in 0 .. Len(c)
  PROVE  /\ Text(SubSeq(c, 1, n)) \o SubSeq(c, n + 1, Len(c)) = Text(c)
         /\ SubSeq(c, n + 1, Len(c)) \in Seq(Message)
<1> DEFINE a == SubSeq(c, 1, n)
           b == SubSeq(c, n + 1, Len(c))
<1>1. Len(c) \in Nat /\ n + 1 \in 1 .. Len(c) + 1 /\ n \in Nat
  BY LenProperties
<1>2. a \in Seq(Message) /\ Len(a) = n /\ \A i \in 1 .. n : a[i] = c[i]
  BY Beginning
<1>3. /\ b \in Seq(Message) /\ Len(b) = Len(c) + 1 - (n + 1)
      /\ \A i \in 1 .. Len(c) + 1 - (n + 1) : b[i] = c[n + 1 + i - 1]
  BY <1>1, Ending
<1> HIDE DEF a, b
<1>4. b \in Seq(Line)
  BY <1>3, LineKinds, SeqMonotonic
<1>5. /\ Text(a) \in Seq(Line) /\ Len(Text(a)) = n + 1
      /\ Text(a)[1] = Header /\ \A i \in 1 .. n : Text(a)[i + 1] = a[i]
  BY <1>2, TextIs
<1>6. /\ Text(c) \in Seq(Line) /\ Len(Text(c)) = Len(c) + 1
      /\ Text(c)[1] = Header /\ \A i \in 1 .. Len(c) : Text(c)[i + 1] = c[i]
  BY TextIs
<1> DEFINE ta == Text(a)
           tc == Text(c)
<1> HIDE DEF ta, tc
<1>7. /\ ta \o b \in Seq(Line) /\ Len(ta \o b) = Len(ta) + Len(b)
      /\ \A i \in 1 .. Len(ta) + Len(b) : (ta \o b)[i] = IF i <= Len(ta) THEN ta[i] ELSE b[i - Len(ta)]
  BY <1>4, <1>5, ConcatProperties DEF ta
<1>8. Len(ta) = n + 1 /\ Len(b) = Len(c) - n /\ Len(ta \o b) = Len(c) + 1
  BY <1>1, <1>3, <1>5, <1>7 DEF ta
<1>9. ASSUME NEW i \in 1 .. Len(c) + 1 PROVE (ta \o b)[i] = tc[i]
  <2>1. CASE i = 1
    BY <2>1, <1>1, <1>5, <1>6, <1>7, <1>8 DEF ta, tc
  <2>2. CASE i # 1
    <3>1. PICK j \in 1 .. Len(c) : i = j + 1
      BY <2>2, <1>1
    <3>2. tc[i] = c[j]
      BY <1>6, <3>1 DEF tc
    <3>3. CASE j =< n
      <4>1. (ta \o b)[i] = ta[j + 1] /\ j \in 1 .. n
        BY <1>1, <1>7, <1>8, <3>1, <3>3
      <4>2. ta[j + 1] = c[j]
        BY <1>2, <1>5, <4>1 DEF ta
      <4>3. QED
        BY <3>2, <4>1, <4>2
    <3>4. CASE j > n
      <4>1. (ta \o b)[i] = b[j - n] /\ j - n \in 1 .. Len(c) - n
        BY <1>1, <1>7, <1>8, <3>1, <3>4
      <4>2. b[j - n] = c[j]
        BY <1>1, <1>3, <4>1
      <4>3. QED
        BY <3>2, <4>1, <4>2
    <3>5. j =< n \/ j > n
      BY <1>1, <3>1
    <3>6. QED
      BY <3>3, <3>4, <3>5
  <2>3. QED
    BY <2>1, <2>2
<1>10. ta \o b = tc
  BY <1>6, <1>7, <1>8, <1>9, SeqEqual DEF tc
<1>11. QED
  BY <1>3, <1>10 DEF a, b, ta, tc

(* An empty file: nothing to load, nothing lost.                           *)
LEMMA NoFileIs ==
  /\ NoFile \in File /\ FileSound(NoFile) /\ Clean(NoFile) /\ Keeps(NoFile, <<>>)
  /\ \A c \in Seq(Message) : Underway(NoFile, c, Text(c))
<1>1. NoFile.lines = <<>> /\ NoFile.tail = "ok" /\ <<>> \in Seq(Line) /\ "ok" \in Tails
  BY DEF NoFile, Tails
<1>2. NoFile \in File
  BY <1>1, FileOf DEF NoFile
<1>3. ~Loads(NoFile)
  BY <1>1 DEF Loads, Readable
<1>4. Clean(NoFile) /\ Keeps(NoFile, <<>>)
  BY <1>1 DEF Clean, Keeps
<1>5. ASSUME NEW c \in Seq(Message) PROVE Underway(NoFile, c, Text(c))
  <2>1. <<>> \o Text(c) = Text(c)
    BY TextIs, ConcatEmptySeq
  <2>2. QED
    BY <1>1, <2>1 DEF Underway
<1>6. QED
  BY <1>2, <1>3, <1>4, <1>5 DEF FileSound

(* What the loop, the commands and the extensions record.                  *)
LEMMA SyncStep ==
  ASSUME ConvInv, pc \notin {"down", "write"},
         NEW c \in Seq(Message), NEW next \in {"idle", "model", "limit", "ended"}, AsWhole(c, next),
         Sync(c, next), steps' \in 0 .. MaxSteps, fresh' \in 0 .. MaxMessages,
         ~disabled => Len(c) < cursor \/ SubSeq(c, 1, cursor) = SubSeq(ctx, 1, cursor)
  PROVE  ConvInv'
<1>1. /\ TypeOK /\ JobThere /\ Files /\ Recorder /\ Lasting
      /\ cursor \in Nat /\ cur \in Session /\ disabled \in BOOLEAN /\ ctx \in Seq(Message)
      /\ file \in [Session -> File] /\ kept \in [Session -> Seq(Message)]
  BY DEF ConvInv, TypeOK
<1>2. Len(c) \in Nat
  BY LenProperties
<1>3. ctx' = c /\ cur' = cur /\ cursor' = cursor /\ disabled' = disabled
  BY DEF Sync, SyncAs
<1>4. next \in PC \ {"down", "write"}
  BY DEF PC
<1>5. NearlyWhole(c)
  BY DEF AsWhole, NearlyWhole
<1>6. ~disabled => Records(file[cur], SubSeq(ctx, 1, cursor))
  BY <1>1 DEF Recorder, InStep
<1>7. CASE /\ disabled \/ Len(c) = cursor
           /\ pc' = next /\ kept' = (IF disabled THEN kept ELSE [kept EXCEPT ![cur] = c])
           /\ file' = file /\ job' = job
  <2>1. TypeOK'
    <3>1. kept' \in [Session -> Seq(Message)]
      BY <1>1, <1>7
    <3>2. QED
      BY <1>1, <1>3, <1>4, <1>7, <3>1 DEF TypeOK
  <2>2. JobThere'
    BY <1>1, <1>4, <1>7 DEF JobThere
  <2>3. Contexts'
    BY <1>3, <1>7 DEF Contexts
  <2>4. Files'
    BY <1>1, <1>7 DEF Files
  <2>5. ~disabled => Records(file[cur], c) /\ SubSeq(c, 1, cursor) = c /\ Len(c) = cursor
    <3> SUFFICES ASSUME ~disabled
                 PROVE  Records(file[cur], c) /\ SubSeq(c, 1, cursor) = c /\ Len(c) = cursor
      OBVIOUS
    <3>1. SubSeq(c, 1, Len(c)) = c
      BY SubSeqFull
    <3>2. Len(c) = cursor
      BY <1>7
    <3>3. ~(Len(c) < cursor)
      BY <1>2, <3>2
    <3>4. SubSeq(c, 1, cursor) = SubSeq(ctx, 1, cursor)
      BY <3>3
    <3>5. SubSeq(c, 1, cursor) = c
      BY <3>1, <3>2, Zenon
    <3>6. Records(file[cur], c)
      BY <1>6, <3>4, <3>5, Zenon
    <3>7. QED
      BY <3>2, <3>5, <3>6
  <2>6. Recorder'
    <3> SUFFICES ASSUME ~disabled PROVE InStep(file[cur], c, cursor, next)
      BY <1>3, <1>7 DEF Recorder
    <3>1. Ahead(next) = 0
      BY DEF Ahead
    <3>2. Records(file[cur], SubSeq(c, 1, cursor))
      BY <2>5, Zenon
    <3>3. cursor =< Len(c) /\ Len(c) =< cursor + Ahead(next)
      BY <1>1, <2>5, <3>1
    <3>4. QED
      BY <2>5, <3>2, <3>3 DEF InStep
  <2>7. Writes'
    BY <1>4, <1>7 DEF Writes
  <2>8. Lasting'
    <3> SUFFICES ASSUME NEW f \in Session PROVE Lasts(file[f], kept'[f])
      BY <1>7 DEF Lasting
    <3>1. Lasts(file[f], kept[f])
      BY <1>1 DEF Lasting
    <3>2. CASE kept'[f] = kept[f]
      BY <3>1, <3>2
    <3>3. CASE ~disabled /\ f = cur
      <4>1. kept'[f] = c
        BY <1>1, <1>7, <3>3
      <4>2. RanTogether(file[f]) \/ file[f].lines = Text(c)
        BY <2>5, <3>1, <3>3, CleanIs DEF Records, Lasts
      <4>3. QED
        BY <4>1, <4>2, TextKeeps DEF Lasts
    <3>4. QED
      BY <1>1, <1>7, <3>2, <3>3
  <2>9. QED
    BY <2>1, <2>2, <2>3, <2>4, <2>6, <2>7, <2>8 DEF ConvInv
<1>8. ASSUME NEW td \in Seq(Message \cup {Header}), ~disabled, pc' = "write",
             job' = [kind |-> "sync", file |-> cur, msgs |-> c, next |-> next, fail |-> next,
                     todo |-> td],
             \/ file' = file /\ kept' = kept
             \/ Truncate(cur),
             Underway(file'[cur], c, td)
      PROVE  ConvInv'
  <2>1. job' \in Job
    BY <1>1, <1>4, <1>8 DEF Job
  <2>2. TypeOK' /\ Files' /\ Lasting'
    <3>1. CASE file' = file /\ kept' = kept
      <4>1. TypeOK'
        BY <1>1, <1>3, <1>8, <2>1, <3>1 DEF TypeOK, PC
      <4>2. QED
        BY <1>1, <3>1, <4>1 DEF Files, Lasting
    <3>2. CASE Truncate(cur)
      <4>1. /\ file' = [file EXCEPT ![cur] = NoFile] /\ kept' = [kept EXCEPT ![cur] = <<>>]
            /\ NoFile \in File /\ <<>> \in Seq(Message)
        BY <3>2, NoFileIs, WholeNothing DEF Truncate
      <4>2. file' \in [Session -> File] /\ kept' \in [Session -> Seq(Message)]
        BY <1>1, <4>1
      <4>3. TypeOK'
        BY <1>1, <1>3, <1>8, <2>1, <4>2 DEF TypeOK, PC
      <4>4. \A f \in Session : \/ file'[f] = file[f] /\ kept'[f] = kept[f]
                               \/ file'[f] = NoFile /\ kept'[f] = <<>>
        BY <1>1, <4>1
      <4>5. Files'
        BY <1>1, <4>4, NoFileIs DEF Files
      <4>6. Lasting'
        BY <1>1, <4>4, NoFileIs DEF Lasting, Lasts
      <4>7. QED
        BY <4>3, <4>5, <4>6
    <3>3. QED
      BY <1>8, <3>1, <3>2
  <2>6. /\ job'.kind = "sync" /\ job'.file = cur /\ job'.msgs = c /\ job'.next = next
         /\ job'.fail = next /\ job'.todo = td
    BY <1>8
  <2>3. Writes'
    BY <1>3, <1>5, <1>8, <2>6 DEF Writes, Syncing
  <2>4. JobThere' /\ Contexts' /\ Recorder'
    BY <1>8, <2>1 DEF JobThere, Contexts, Recorder
  <2>5. QED
    BY <2>2, <2>3, <2>4 DEF ConvInv
<1>9. ASSUME ~disabled, Len(c) # cursor, pc' = "write",
             job' = [kind |-> "sync", file |-> cur, msgs |-> c, next |-> next, fail |-> next,
                     todo |-> IF Len(c) < cursor THEN <<Header>> \o c
                                                 ELSE SubSeq(c, cursor + 1, Len(c))],
             IF Len(c) < cursor THEN Truncate(cur) ELSE UNCHANGED <<file, kept>>
      PROVE  ConvInv'
  <2>1. CASE Len(c) < cursor
    <3>1. Text(c) \in Seq(Message \cup {Header})
      BY LineKinds, SeqMonotonic, ConcatProperties DEF Text
    <3>2. Underway(file'[cur], c, Text(c))
      BY <1>1, <1>9, <2>1, NoFileIs DEF Truncate
    <3>3. QED
      BY <1>8, <1>9, <2>1, <3>1, <3>2 DEF Text
  <2>2. CASE ~(Len(c) < cursor)
    <3> DEFINE td == SubSeq(c, cursor + 1, Len(c))
    <3>1. cursor \in 0 .. Len(c)
      BY <1>1, <1>2, <2>2
    <3>2. Text(SubSeq(c, 1, cursor)) \o td = Text(c) /\ td \in Seq(Message)
      BY <3>1, TextSplit
    <3>3. td \in Seq(Message \cup {Header})
      BY <3>2, SeqMonotonic
    <3>4. file' = file /\ kept' = kept
      BY <1>9, <2>2
    <3>5. Underway(file'[cur], c, td)
      BY <1>6, <1>9, <2>2, <3>2, <3>4 DEF Underway, Records
    <3>6. job' = [kind |-> "sync", file |-> cur, msgs |-> c, next |-> next, fail |-> next,
                  todo |-> td]
      BY <1>9, <2>2
    <3> HIDE DEF td
    <3>7. QED
      BY <1>8, <1>9, <3>3, <3>4, <3>5, <3>6
  <2>3. QED
    BY <2>1, <2>2
<1>10. QED
  BY <1>7, <1>9 DEF Sync, SyncAs

-----------------------------------------------------------------------------
(* The loop                                                                *)

LEMMA MadeIs ==
  ASSUME ConvInv, NEW k \in {"system", "user", "text", "calls", "tools"}, NEW i \in Nat
  PROVE  Made(k, i) \in Message /\ Made(k, i).k = k /\ Made(k, i) = [k |-> k, n |-> fresh + i]
<1>1. fresh + i \in Nat
  BY LimitAssumption DEF ConvInv, TypeOK
<1>2. QED
  BY <1>1 DEF Made, Message

(* What may be said at a point of the loop keeps the turns whole.          *)
LEMMA TurnsAre ==
  ASSUME ConvInv, NEW i \in Nat, NEW n \in {0, 1}
  PROVE  Turns(i, n) \in Seq(Message) /\ WholeTurns(Turns(i, n)) /\ Len(Turns(i, n)) = n
<1>1. CASE n = 0
  BY <1>1, WholeNothing, EmptySeq DEF Turns
<1>2. CASE n = 1
  <2>1. Made("user", i) \in Message /\ Made("user", i).k \in Plain
    BY MadeIs DEF Plain
  <2>2. Turns(i, n) = <<Made("user", i)>>
    BY <1>2 DEF Turns
  <2>3. QED
    BY <1>2, <2>1, <2>2, WholePlain
<1>3. QED
  BY <1>1, <1>2

LEMMA Facts ==
  ASSUME ConvInv
  PROVE  /\ ctx \in Seq(Message) /\ Len(ctx) \in Nat /\ steps \in 0 .. MaxSteps /\ MaxSteps \in Nat
         /\ file \in [Session -> File] /\ cur \in Session /\ cursor \in Nat /\ disabled \in BOOLEAN
         /\ fresh \in 0 .. MaxMessages /\ MaxMessages \in Nat
         /\ kept \in [Session -> Seq(Message)]
         /\ pc \notin {"down", "write"} => AsWhole(ctx, pc)
         /\ pc \notin {"down", "write"} /\ ~disabled => InStep(file[cur], ctx, cursor, pc)
BY LimitAssumption, LenProperties DEF ConvInv, TypeOK, Contexts, Recorder

LEMMA RunGrows ==
  ASSUME ConvInv, Run
  PROVE  ConvInv'
<1>1. /\ WholeTurns(ctx) /\ ctx \in Seq(Message)
      /\ ~disabled => cursor =< Len(ctx) /\ (Len(ctx) =< cursor \/ (cursor = 0 /\ Len(ctx) =< 1))
  BY Facts DEF Run, AsWhole, InStep, Ahead
<1>2. PICK turn \in {<<>>, <<Made("user", 1)>>, <<Made("system", 1), Made("user", 2)>>} :
        Room(Len(turn)) /\ fresh' = fresh + Len(turn) /\ ctx' = ctx \o turn
  BY DEF Run
<1>3. pc = "idle" /\ pc' = "start" /\ steps' = steps /\ UNCHANGED record
  BY DEF Run
<1>4. turn \in Seq(Message) /\ WholeTurns(turn) /\ Len(turn) \in {0, 1, 2}
  <2> DEFINE u == Made("user", 1)
             s == Made("system", 1)
             v == Made("user", 2)
  <2>1. /\ u \in Message /\ u.k \in Plain /\ s \in Message /\ s.k \in Plain
        /\ v \in Message /\ v.k \in Plain
    BY MadeIs DEF Plain
  <2> HIDE DEF u, s, v
  <2>2. CASE turn = <<>>
    BY <2>2, WholeNothing, EmptySeq
  <2>3. CASE turn = <<u>>
    BY <2>1, <2>3, WholePlain
  <2>4. CASE turn = <<s, v>>
    <3>1. <<s>> \in Seq(Message) /\ WholeTurns(<<s>>) /\ <<v>> \in Seq(Message) /\ WholeTurns(<<v>>)
      BY <2>1, WholePlain
    <3>2. <<s>> \o <<v>> \in Seq(Message) /\ WholeTurns(<<s>> \o <<v>>)
      BY <3>1, WholeJoin
    <3> DEFINE a == <<s>>
               b == <<v>>
    <3>3. Len(a) = 1 /\ a[1] = s /\ Len(b) = 1 /\ b[1] = v /\ a \in Seq(Message) /\ b \in Seq(Message)
      BY <3>1
    <3>4. Len(turn) = 2 /\ turn[1] = s /\ turn[2] = v /\ turn \in Seq(Message)
      BY <2>1, <2>4
    <3> HIDE DEF a, b
    <3>5. /\ Len(a \o b) = Len(a) + Len(b)
          /\ \A i \in 1 .. Len(a) + Len(b) : (a \o b)[i] = IF i <= Len(a) THEN a[i] ELSE b[i - Len(a)]
      BY <3>3, ConcatProperties
    <3>6. a \o b \in Seq(Message) /\ WholeTurns(a \o b)
      BY <3>2 DEF a, b
    <3>7. Len(a \o b) = 2 /\ \A i \in 1 .. 2 : (a \o b)[i] = turn[i]
      BY <3>3, <3>4, <3>5
    <3>8. a \o b = turn
      BY <3>4, <3>6, <3>7, SeqEqual
    <3>9. QED
      BY <3>4, <3>6, <3>8
  <2>5. QED
    BY <2>2, <2>3, <2>4 DEF u, s, v
<1>5. fresh' \in 0 .. MaxMessages /\ steps' \in 0 .. MaxSteps
  BY <1>2, <1>3, <1>4, Facts DEF Room
<1>6. ctx' \in Seq(Message) /\ WholeTurns(ctx')
  BY <1>1, <1>2, <1>4, WholeJoin
<1>7. Len(ctx') = Len(ctx) + Len(turn) /\ \A i \in 1 .. Len(ctx) : ctx'[i] = ctx[i]
  BY <1>1, <1>2, <1>4, Longer
<1>8. AsWhole(ctx', pc') /\ Ahead(pc') = 2
  BY <1>3, <1>6 DEF AsWhole, Ahead
<1>9. Len(ctx) =< Len(ctx')
  BY <1>4, <1>7, Facts
<1>10. ~disabled => Len(ctx') =< cursor + Ahead(pc') \/ (cursor = 0 /\ Len(ctx') =< 1 + Ahead(pc'))
  <2>1. ctx \in Seq(Message) /\ Len(ctx) \in Nat /\ cursor \in Nat
    BY Facts
  <2>2. Len(turn) =< 2 /\ Len(turn) \in Nat
    <3>1. \A n \in {0, 1, 2} : n =< 2 /\ n \in Nat
      OBVIOUS
    <3>2. QED
      BY <1>4, <3>1, Zenon
  <2> DEFINE l == Len(ctx)
             k == Len(turn)
  <2>3. Len(ctx') = l + k
    BY <1>7
  <2>4. ~disabled => l =< cursor \/ (cursor = 0 /\ l =< 1)
    BY <1>1
  <2> HIDE DEF l, k
  <2>5. l \in Nat /\ k \in Nat /\ k =< 2
    BY <2>1, <2>2 DEF l, k
  <2>6. ~disabled => Len(ctx') =< cursor + 2 \/ (cursor = 0 /\ Len(ctx') =< 1 + 2)
    BY <2>1, <2>3, <2>4, <2>5
  <2>7. QED
    BY <1>8, <2>6
<1>11. /\ pc \notin {"down", "write"}
       /\ pc' \in PC \ {"down", "write"} /\ pc' \notin {"model", "limit", "dispatch"}
  BY <1>3 DEF PC
<1>12. QED
  BY <1>3, <1>5, <1>6, <1>7, <1>8, <1>9, <1>10, <1>11, GrowStep

(* Steps of the loop that say nothing.                                     *)
LEMMA QuietSteps ==
  ASSUME ConvInv, StartHooks \/ Stop \/ ModelFails \/ DispatchFails \/ Again
  PROVE  ConvInv'
<1>1. /\ pc \in {"start", "top", "model", "dispatch", "limit"} /\ pc' \in {"top", "ended", "ending", "start"}
      /\ ctx' = ctx /\ steps' = steps /\ fresh' = fresh /\ UNCHANGED record
      /\ pc' = "top" => pc = "start"
      /\ pc' = "start" => pc = "limit"
      /\ pc' = "ended" => pc = "start"
  BY DEF StartHooks, Stop, ModelFails, DispatchFails, Again
<1>2. /\ pc \notin {"down", "write"}
      /\ pc' \in PC \ {"down", "write"} /\ pc' \notin {"model", "limit", "dispatch", "idle"}
  BY <1>1 DEF PC
<1>3. AsWhole(ctx', pc')
  BY <1>1, <1>2, Facts DEF AsWhole, NearlyWhole
<1>4. ~disabled /\ pc' \in {"start", "top"} =>
        Len(ctx') =< cursor + Ahead(pc') \/ (cursor = 0 /\ Len(ctx') =< 1 + Ahead(pc'))
  <2> SUFFICES ASSUME ~disabled, pc' \in {"start", "top"}
               PROVE  Len(ctx) =< cursor + 2 \/ (cursor = 0 /\ Len(ctx) =< 3)
    BY <1>1 DEF Ahead
  <2>1. pc \in {"start", "limit"} /\ InStep(file[cur], ctx, cursor, pc)
    BY <1>1, <1>2, Facts
  <2>2. CASE pc = "limit"
    BY <2>1, <2>2, Facts DEF InStep
  <2>3. CASE pc = "start"
    BY <2>1, <2>3, Facts DEF InStep, Ahead
  <2>4. QED
    BY <2>1, <2>2, <2>3
<1>5. steps' \in 0 .. MaxSteps /\ fresh' \in 0 .. MaxMessages /\ ctx' \in Seq(Message)
  BY <1>1, Facts
<1>6. Len(ctx) =< Len(ctx') /\ \A i \in 1 .. Len(ctx) : ctx'[i] = ctx[i]
  BY <1>1, Facts
<1>7. QED
  BY <1>1, <1>2, <1>3, <1>4, <1>5, <1>6, GrowStep

LEMMA AnswerGrows ==
  ASSUME ConvInv, Answer \/ CallTools \/ ToolsReturn
  PROVE  ConvInv'
<1>1. steps' = steps /\ UNCHANGED record /\ pc \in {"model", "dispatch"}
  BY DEF Answer, CallTools, ToolsReturn
<1>2. fresh' \in 0 .. MaxMessages
  BY Facts DEF Answer, CallTools, ToolsReturn, Room
<1>3. PICK m \in Message : ctx' = Append(ctx, m)
  <2>1. CASE Answer \/ CallTools
    <3>1. Made("text", 1) \in Message /\ Made("calls", 1) \in Message
      BY MadeIs
    <3>2. QED
      BY <2>1, <3>1 DEF Answer, CallTools
  <2>2. CASE ToolsReturn
    <3>1. HalfTurn(ctx) /\ ctx \in Seq(Message)
      BY <2>2, Facts DEF ToolsReturn, AsWhole
    <3>2. Last(ctx) \in Message
      BY <3>1, FrontIs DEF HalfTurn
    <3>3. [k |-> "tools", n |-> Last(ctx).n] \in Message
      BY <3>2 DEF Message
    <3>4. QED
      BY <2>2, <3>3 DEF ToolsReturn
  <2>3. QED
    BY <2>1, <2>2
<1>4. /\ ctx' \in Seq(Message) /\ Len(ctx') = Len(ctx) + 1
      /\ \A i \in 1 .. Len(ctx) : ctx'[i] = ctx[i]
  BY <1>3, Facts, AppendProperties
<1>5. AsWhole(ctx', pc') /\ pc' \in {"ending", "dispatch", "top"}
  <2>1. CASE Answer
    <3>1. WholeTurns(ctx) /\ ctx \in Seq(Message) /\ pc' = "ending"
      BY <2>1, Facts DEF Answer, AsWhole
    <3> DEFINE t == Made("text", 1)
    <3>2. t \in Message /\ t.k \in Plain /\ ctx' = Append(ctx, t)
      BY <2>1, MadeIs DEF Plain, Answer
    <3> HIDE DEF t
    <3>3. <<t>> \in Seq(Message) /\ WholeTurns(<<t>>)
      BY <3>2, WholePlain
    <3>4. ctx' = ctx \o <<t>>
      BY <3>1, <3>2, AppendIsConcat
    <3>5. WholeTurns(ctx')
      BY <3>1, <3>3, <3>4, WholeJoin
    <3>6. QED
      BY <3>1, <3>5 DEF AsWhole, NearlyWhole
  <2>2. CASE CallTools
    <3>1. WholeTurns(ctx) /\ ctx \in Seq(Message) /\ pc' = "dispatch"
      BY <2>2, Facts DEF CallTools, AsWhole
    <3>2. ctx' = Append(ctx, [k |-> "calls", n |-> fresh + 1]) /\ fresh + 1 \in Nat
      BY <2>2, Facts DEF CallTools, Made
    <3>3. HalfTurn(ctx')
      BY <3>1, <3>2, HalfThenWhole, Zenon
    <3>4. QED
      BY <3>1, <3>3 DEF AsWhole
  <2>3. CASE ToolsReturn
    <3>1. HalfTurn(ctx) /\ ctx \in Seq(Message) /\ pc' = "top"
      BY <2>3, Facts DEF ToolsReturn, AsWhole
    <3>2. ctx' = Append(ctx, [k |-> "tools", n |-> Last(ctx).n]) /\ 0 \in Nat
      BY <2>3 DEF ToolsReturn
    <3>3. WholeTurns(ctx')
      BY <3>1, <3>2, HalfThenWhole, Zenon
    <3>4. QED
      BY <3>1, <3>3 DEF AsWhole
  <2>4. QED
    BY <2>1, <2>2, <2>3
<1>6. ~disabled => /\ pc' = "dispatch" => Len(ctx') = cursor + 1
                   /\ pc' = "top" => Len(ctx') =< cursor + Ahead(pc')
  <2> SUFFICES ASSUME ~disabled
               PROVE  /\ pc' = "dispatch" => Len(ctx') = cursor + 1
                      /\ pc' = "top" => Len(ctx') =< cursor + 2
    BY DEF Ahead
  <2>1. InStep(file[cur], ctx, cursor, pc)
    BY <1>1, Facts
  <2>2. pc' = "dispatch" => pc = "model"
    BY DEF Answer, CallTools, ToolsReturn
  <2>3. pc' = "top" => pc = "dispatch"
    BY DEF Answer, CallTools, ToolsReturn
  <2>4. QED
    BY <1>4, <2>1, <2>2, <2>3, Facts DEF InStep
<1>7. /\ pc \notin {"down", "write"}
      /\ pc' \in PC \ {"down", "write"} /\ pc' \notin {"model", "limit", "idle", "start"}
  BY <1>1, <1>5 DEF PC
<1>8. Len(ctx) =< Len(ctx') /\ steps' \in 0 .. MaxSteps
  BY <1>1, <1>4, Facts
<1>9. QED
  BY <1>1, <1>2, <1>4, <1>5, <1>6, <1>7, <1>8, GrowStep

LEMMA CompactSyncs ==
  ASSUME ConvInv, Compact
  PROVE  ConvInv'
<1>1. /\ pc = "idle" /\ steps' = steps /\ WholeTurns(ctx) /\ ctx \in Seq(Message) /\ Len(ctx) \in Nat
      /\ cursor \in Nat /\ steps' \in 0 .. MaxSteps
      /\ ~disabled => cursor =< Len(ctx) /\ (Len(ctx) =< cursor \/ (cursor = 0 /\ Len(ctx) =< 1))
  BY Facts DEF Compact, AsWhole, InStep, Ahead
<1>2. CASE Sync(ctx, "idle") /\ fresh' = fresh
  <2>1. AsWhole(ctx, "idle")
    BY <1>1 DEF AsWhole
  <2>2. fresh' \in 0 .. MaxMessages
    BY <1>2, Facts
  <2>3. QED
    BY <1>1, <1>2, <2>1, <2>2, SyncStep
<1>3. CASE /\ Room(1) /\ fresh' = fresh + 1
           /\ \E cut \in Heads(ctx, 2) : Sync(Compacted(ctx, cut, Made("user", 1)), "idle")
  <2>1. PICK cut \in Heads(ctx, 2) : Sync(Compacted(ctx, cut, Made("user", 1)), "idle")
    BY <1>3
  <2> DEFINE u == Made("user", 1)
             c == Compacted(ctx, cut, u)
  <2>2. u \in Message /\ u.k = "user"
    BY MadeIs
  <2>3. c \in Seq(Message) /\ WholeTurns(c) /\ Len(c) =< Len(ctx) + 1 - 2 /\ 2 =< Len(ctx) - Start(ctx)
    BY <1>1, <2>2, WholeCompacted
  <2>4. Start(ctx) \in {0, 1}
    BY <1>1, StartIs
  <2>5. Sync(c, "idle")
    BY <2>1
  <2>6. fresh' \in 0 .. MaxMessages
    BY <1>3, Facts DEF Room
  <2> HIDE DEF u, c
  <2>7. Len(c) \in Nat
    BY <2>3, LenProperties
  <2>8. ~disabled => Len(c) < cursor
    BY <1>1, <2>3, <2>4, <2>7
  <2>9. AsWhole(c, "idle")
    BY <2>3 DEF AsWhole
  <2>10. QED
    BY <1>1, <2>3, <2>5, <2>6, <2>8, <2>9, SyncStep
<1>4. QED
  BY <1>2, <1>3 DEF Compact

LEMMA RewindSyncs ==
  ASSUME ConvInv, Rewind
  PROVE  ConvInv'
<1>1. /\ pc = "idle" /\ WholeTurns(ctx) /\ ctx \in Seq(Message) /\ Len(ctx) \in Nat
      /\ cursor \in Nat
      /\ ~disabled => cursor =< Len(ctx)
  BY Facts DEF Rewind, AsWhole, InStep
<1>2. steps' \in 0 .. MaxSteps /\ fresh' \in 0 .. MaxMessages
  BY Facts DEF Rewind
<1>3. PICK i \in DOMAIN ctx : ctx[i].k = "user" /\ Sync(SubSeq(ctx, 1, i - 1), "idle")
  BY DEF Rewind
<1> DEFINE c == SubSeq(ctx, 1, i - 1)
<1>4. i \in 1 .. Len(ctx) /\ i - 1 \in 0 .. Len(ctx) /\ (i - 1) + 1 = i
  BY <1>1, <1>3, MessageIs
<1>5. c \in Seq(Message) /\ Len(c) = i - 1 /\ \A j \in 1 .. i - 1 : c[j] = ctx[j]
  BY <1>1, <1>4, Beginning
<1>6. WholeTurns(c)
  <2>1. ctx[(i - 1) + 1].k # "tools"
    BY <1>3, <1>4
  <2>2. QED
    BY <1>1, <1>4, <2>1, WholeBeginning
<1>7. Sync(c, "idle")
  BY <1>3
<1> HIDE DEF c
<1>8. AsWhole(c, "idle")
  BY <1>6 DEF AsWhole
<1>9. ~disabled => Len(c) < cursor \/ SubSeq(c, 1, cursor) = SubSeq(ctx, 1, cursor)
  <2>1. CASE Len(c) < cursor
    BY <2>1
  <2>2. CASE ~(Len(c) < cursor)
    <3>1. cursor \in 0 .. Len(c) /\ cursor =< Len(ctx) /\ \A j \in 1 .. cursor : c[j] = ctx[j]
      BY <1>1, <1>4, <1>5, <2>2
    <3>2. SubSeq(ctx, 1, cursor) = SubSeq(c, 1, cursor)
      BY <1>1, <1>5, <3>1, SameBeginning
    <3>3. QED
      BY <3>2
  <2>3. QED
    BY <2>1, <2>2
<1>10. QED
  BY <1>1, <1>2, <1>5, <1>7, <1>8, <1>9, SyncStep

LEMMA Twice ==
  ASSUME NEW S, NEW s \in Seq(S), NEW g \in S, NEW h \in S
  PROVE  LET y == Append(Append(s, g), h)
         IN  /\ y \in Seq(S) /\ Len(y) = Len(s) + 2
             /\ \A i \in 1 .. Len(s) : y[i] = s[i]
             /\ y[Len(s) + 1] = g /\ y[Len(s) + 2] = h
<1> DEFINE x == Append(s, g)
           y == Append(x, h)
<1>1. /\ x \in Seq(S) /\ Len(x) = Len(s) + 1 /\ x[Len(s) + 1] = g
      /\ \A i \in 1 .. Len(s) : x[i] = s[i]
  BY AppendProperties
<1> HIDE DEF x
<1>2. /\ y \in Seq(S) /\ Len(y) = Len(x) + 1 /\ y[Len(x) + 1] = h
      /\ \A i \in 1 .. Len(x) : y[i] = x[i]
  BY <1>1, AppendProperties
<1> HIDE DEF y
<1>3. Len(s) \in Nat
  BY LenProperties
<1>4. /\ Len(y) = Len(s) + 2 /\ y[Len(s) + 1] = g /\ y[Len(s) + 2] = h
      /\ \A i \in 1 .. Len(s) : y[i] = s[i]
  BY <1>1, <1>2, <1>3
<1>5. QED
  BY <1>2, <1>4 DEF x, y

LEMMA Three ==
  ASSUME NEW u \in Message, NEW g \in Message, NEW h \in Message
  PROVE  Append(Append(<<u>>, g), h) = <<u, g, h>>
<1> DEFINE a == <<u>>
           y == Append(Append(a, g), h)
           z == <<u, g, h>>
<1>1. a \in Seq(Message) /\ Len(a) = 1 /\ a[1] = u
  OBVIOUS
<1>2. z \in Seq(Message) /\ Len(z) = 3 /\ z[1] = u /\ z[2] = g /\ z[3] = h
  OBVIOUS
<1> HIDE DEF a, z
<1>3. /\ y \in Seq(Message) /\ Len(y) = Len(a) + 2 /\ \A i \in 1 .. Len(a) : y[i] = a[i]
      /\ y[Len(a) + 1] = g /\ y[Len(a) + 2] = h
  BY <1>1, Twice
<1> HIDE DEF y
<1>4. Len(y) = 3 /\ \A i \in 1 .. 3 : y[i] = z[i]
  BY <1>1, <1>2, <1>3
<1>5. y = z
  BY <1>2, <1>3, <1>4, SeqEqual
<1>6. QED
  BY <1>5 DEF a, y, z

LEMMA ShellSyncs ==
  ASSUME ConvInv, Shell
  PROVE  ConvInv'
<1>1. /\ pc = "idle" /\ WholeTurns(ctx) /\ ctx \in Seq(Message) /\ Len(ctx) \in Nat
      /\ cursor \in Nat
      /\ ~disabled => cursor =< Len(ctx)
  BY Facts DEF Shell, AsWhole, InStep
<1>2. steps' \in 0 .. MaxSteps /\ fresh' \in 0 .. MaxMessages
  BY Facts DEF Shell, Room
<1> DEFINE u == Made("user", 1)
           d == <<u, Made("calls", 2), Made("tools", 2)>>
<1>3. d \in Seq(Message) /\ WholeTurns(d)
  <2>1. u \in Message /\ u.k \in Plain /\ fresh + 2 \in Nat
    <3>1. u \in Message /\ u.k = "user"
      BY MadeIs
    <3>2. fresh + 2 \in Nat
      BY Facts
    <3>3. QED
      BY <3>1, <3>2 DEF Plain
  <2>2. /\ Made("calls", 2) \in Message /\ Made("calls", 2) = [k |-> "calls", n |-> fresh + 2]
        /\ Made("tools", 2) \in Message /\ Made("tools", 2) = [k |-> "tools", n |-> fresh + 2]
    BY MadeIs
  <2> HIDE DEF u
  <2> DEFINE a == <<u>>
             b == Append(a, [k |-> "calls", n |-> fresh + 2])
             e == Append(b, [k |-> "tools", n |-> Last(b).n])
  <2>3. a \in Seq(Message) /\ WholeTurns(a)
    BY <2>1, WholePlain
  <2> HIDE DEF a
  <2>4. b \in Seq(Message) /\ HalfTurn(b) /\ Last(b).n = fresh + 2
    BY <2>1, <2>3, HalfThenWhole, Zenon
  <2> HIDE DEF b
  <2>5. e \in Seq(Message) /\ WholeTurns(e)
    BY <2>1, <2>4, HalfThenWhole, Zenon
  <2> DEFINE g == Made("calls", 2)
             h == Made("tools", 2)
  <2>6. b = Append(a, g) /\ e = Append(b, h) /\ g \in Message /\ h \in Message /\ d = <<u, g, h>>
    BY <2>2, <2>4 DEF b
  <2> HIDE DEF d, e, g, h
  <2>7. e = d
    BY <2>1, <2>6, Three DEF a
  <2>8. QED
    BY <2>5, <2>7
<1>4. Sync(ctx \o d, "idle")
  BY DEF Shell
<1> HIDE DEF d
<1>5. ctx \o d \in Seq(Message) /\ WholeTurns(ctx \o d)
  BY <1>1, <1>3, WholeJoin
<1>6. ~disabled => SubSeq(ctx \o d, 1, cursor) = SubSeq(ctx, 1, cursor)
  <2>1. ~disabled => cursor \in 0 .. Len(ctx)
    BY <1>1
  <2>2. QED
    BY <1>1, <1>3, <2>1, Longer
<1>7. AsWhole(ctx \o d, "idle")
  BY <1>5 DEF AsWhole
<1>8. QED
  BY <1>1, <1>2, <1>4, <1>5, <1>6, <1>7, SyncStep

LEMMA EndSyncs ==
  ASSUME ConvInv, AgentEnds \/ RunDone
  PROVE  ConvInv'
<1>1. /\ pc \in {"ending", "top", "ended", "limit"} /\ AsWhole(ctx, pc)
      /\ ctx \in Seq(Message) /\ Len(ctx) \in Nat /\ cursor \in Nat
      /\ ~disabled => cursor \in 0 .. Len(ctx)
  <2>1. pc \in {"ending", "top", "ended", "limit"}
    BY DEF AgentEnds, RunDone
  <2>2. QED
    BY <2>1, Facts DEF InStep
<1>2. steps' \in 0 .. MaxSteps /\ fresh' \in 0 .. MaxMessages
  BY Facts DEF AgentEnds, RunDone
<1>3. NearlyWhole(ctx)
  BY <1>1 DEF AsWhole, NearlyWhole
<1>4. CASE AgentEnds
  <2>1. CASE pc = "ending" /\ Sync(ctx, "ended")
    <3>1. AsWhole(ctx, "ended")
      BY <1>3 DEF AsWhole
    <3>2. QED
      BY <1>1, <1>2, <2>1, <3>1, SyncStep
  <2>2. CASE pc = "top" /\ Sync(ctx, "limit")
    <3>1. AsWhole(ctx, "limit")
      BY <1>1, <2>2 DEF AsWhole
    <3>2. QED
      BY <1>1, <1>2, <2>2, <3>1, SyncStep
  <2>3. QED
    BY <1>4, <2>1, <2>2 DEF AgentEnds
<1>5. CASE RunDone
  <2> DEFINE c == Repaired(ctx)
  <2>1. /\ c \in Seq(Message) /\ WholeTurns(c)
        /\ Len(ctx) =< Len(c) /\ \A i \in 1 .. Len(ctx) : c[i] = ctx[i]
    BY <1>1, <1>3, WholeAgain
  <2>2. Sync(c, "idle")
    BY <1>5 DEF RunDone
  <2> HIDE DEF c
  <2>3. AsWhole(c, "idle")
    BY <2>1 DEF AsWhole
  <2>4. ASSUME ~disabled PROVE SubSeq(c, 1, cursor) = SubSeq(ctx, 1, cursor)
    <3>1. cursor \in 0 .. Len(ctx) /\ Len(c) \in Nat
      BY <1>1, <2>1, <2>4, LenProperties
    <3>2. cursor =< Len(c) /\ \A i \in 1 .. cursor : ctx[i] = c[i]
      BY <1>1, <2>1, <3>1
    <3>3. QED
      BY <1>1, <2>1, <3>1, <3>2, SameBeginning
  <2>5. QED
    BY <1>1, <1>2, <2>1, <2>2, <2>3, <2>4, SyncStep
<1>6. QED
  BY <1>4, <1>5

(* before_model may write less than is on file only if the file is then    *)
(* written anew, and everything else it writes follows what is on file.    *)
LEMMA BeforeModelSyncs ==
  ASSUME CompactionsShrink, ConvInv, BeforeModel
  PROVE  ConvInv'
<1>1. /\ pc = "top" /\ steps < MaxSteps /\ steps' = steps + 1
      /\ WholeTurns(ctx) /\ ctx \in Seq(Message) /\ Len(ctx) \in Nat /\ cursor \in Nat
      /\ ~disabled => /\ cursor =< Len(ctx)
                      /\ Len(ctx) =< cursor + 2 \/ (cursor = 0 /\ Len(ctx) =< 3)
  BY Facts DEF BeforeModel, StepsLeft, AsWhole, InStep, Ahead
<1>2. steps' \in 0 .. MaxSteps
  BY <1>1, Facts
<1>3. PICK turns \in {0, 1}, inventory \in {0, 1} :
        /\ turns + inventory =< Deliveries
        /\ LET c == ctx \o Turns(1, turns) IN
             \/ /\ Room(turns + inventory) /\ fresh' = fresh + turns + inventory
                /\ Sync(c \o Turns(turns + 1, inventory), "model")
             \/ /\ LongSession /\ Room(turns + 1 + inventory)
                /\ fresh' = fresh + turns + 1 + inventory
                /\ \E cut \in Heads(c, MinHead) :
                     Sync(Compacted(c, cut, Made("user", turns + 1))
                            \o Turns(turns + 2, inventory), "model")
  BY DEF BeforeModel
<1> DEFINE t == Turns(1, turns)
           c == ctx \o t
<1>4. t \in Seq(Message) /\ WholeTurns(t) /\ Len(t) = turns
  <2>1. 1 \in Nat
    OBVIOUS
  <2>2. QED
    BY <2>1, TurnsAre
<1> HIDE DEF t
<1>5. c \in Seq(Message) /\ WholeTurns(c)
  BY <1>1, <1>4, WholeJoin
<1>6. Len(c) = Len(ctx) + turns /\ \A n \in 0 .. Len(ctx) : SubSeq(c, 1, n) = SubSeq(ctx, 1, n)
  BY <1>1, <1>4, Longer
<1>7. CASE /\ Room(turns + inventory) /\ fresh' = fresh + turns + inventory
           /\ Sync(c \o Turns(turns + 1, inventory), "model")
  <2> DEFINE v == Turns(turns + 1, inventory)
             e == c \o v
  <2>1. v \in Seq(Message) /\ WholeTurns(v)
    <3>1. turns + 1 \in Nat
      OBVIOUS
    <3>2. QED
      BY <3>1, TurnsAre
  <2>2. Sync(e, "model")
    BY <1>7
  <2> HIDE DEF v, c
  <2>3. e \in Seq(Message) /\ WholeTurns(e)
    BY <1>5, <2>1, WholeJoin
  <2>4. ~disabled => SubSeq(e, 1, cursor) = SubSeq(ctx, 1, cursor)
    <3> SUFFICES ASSUME ~disabled PROVE SubSeq(e, 1, cursor) = SubSeq(ctx, 1, cursor)
      OBVIOUS
    <3>1. cursor \in 0 .. Len(ctx) /\ cursor \in 0 .. Len(c)
      BY <1>1, <1>6
    <3>2. SubSeq(e, 1, cursor) = SubSeq(c, 1, cursor)
      BY <1>5, <2>1, <3>1, Longer
    <3>3. QED
      BY <1>6, <3>1, <3>2
  <2> HIDE DEF e
  <2>5. AsWhole(e, "model")
    BY <2>3 DEF AsWhole
  <2>6. fresh' \in 0 .. MaxMessages
    BY <1>7, Facts DEF Room
  <2>7. QED
    BY <1>1, <1>2, <2>2, <2>3, <2>4, <2>5, <2>6, SyncStep
<1>8. CASE /\ LongSession /\ Room(turns + 1 + inventory)
           /\ fresh' = fresh + turns + 1 + inventory
           /\ \E cut \in Heads(c, MinHead) :
                Sync(Compacted(c, cut, Made("user", turns + 1))
                       \o Turns(turns + 2, inventory), "model")
  <2>1. PICK cut \in Heads(c, MinHead) :
          Sync(Compacted(c, cut, Made("user", turns + 1)) \o Turns(turns + 2, inventory), "model")
    BY <1>8
  <2> DEFINE u == Made("user", turns + 1)
             d == Compacted(c, cut, u)
             v == Turns(turns + 2, inventory)
             e == d \o v
  <2>2. turns + 1 \in Nat /\ turns + 2 \in Nat /\ MinHead \in Nat
    BY HeadAssumption
  <2>3. u \in Message /\ u.k = "user"
    BY <2>2, MadeIs
  <2>4. v \in Seq(Message) /\ WholeTurns(v) /\ Len(v) = inventory
    BY <2>2, TurnsAre
  <2>5. Sync(e, "model")
    BY <2>1
  <2> HIDE DEF u, v, c
  <2>6. /\ d \in Seq(Message) /\ WholeTurns(d)
        /\ Len(d) =< Len(c) + 1 - MinHead /\ MinHead =< Len(c) - Start(c)
    BY <1>5, <2>2, <2>3, WholeCompacted
  <2>7. Start(c) \in {0, 1}
    BY <1>5, StartIs
  <2> HIDE DEF d
  <2>8. e \in Seq(Message) /\ WholeTurns(e)
    BY <2>4, <2>6, WholeJoin
  <2>9. Len(e) = Len(d) + inventory /\ Len(d) \in Nat
    BY <2>4, <2>6, Longer
  <2>10. MinHead >= Deliveries + 4 /\ Deliveries \in Nat
    BY <1>8, LimitAssumption DEF CompactionsShrink
  <2>11. ~disabled => Len(e) < cursor
    BY <1>1, <1>3, <1>6, <2>2, <2>6, <2>7, <2>9, <2>10
  <2> HIDE DEF e
  <2>12. AsWhole(e, "model")
    BY <2>8 DEF AsWhole
  <2>13. fresh' \in 0 .. MaxMessages
    <3>1. fresh' = fresh + turns + 1 + inventory /\ fresh + (turns + 1 + inventory) =< MaxMessages
      BY <1>8 DEF Room
    <3>2. fresh \in Nat /\ MaxMessages \in Nat
      BY Facts
    <3>3. QED
      BY <3>1, <3>2
  <2>14. QED
    BY <1>1, <1>2, <2>5, <2>8, <2>11, <2>12, <2>13, SyncStep
<1>9. QED
  BY <1>3, <1>7, <1>8 DEF t

-----------------------------------------------------------------------------
(* Writing, and being interrupted                                          *)

LEMMA JobIs ==
  ASSUME ConvInv, pc = "write"
  PROVE  /\ job \in Job /\ job.file \in Session /\ job.msgs \in Seq(Message)
         /\ job.todo \in Seq(Message \cup {Header}) /\ job.todo \in Seq(Line)
         /\ job.next \in PC /\ job.fail \in PC
         /\ job.todo # <<>> => /\ Head(job.todo) \in Message \cup {Header}
                               /\ Tail(job.todo) \in Seq(Message \cup {Header})
         /\ Underway(file[job.file], job.msgs, job.todo) /\ NearlyWhole(job.msgs)
         /\ Syncing(job) \/ Replacing(job)
<1>1. job \in Job
  BY DEF ConvInv, JobThere
<1>2. /\ job.file \in Session /\ job.msgs \in Seq(Message)
      /\ job.todo \in Seq(Message \cup {Header})
      /\ job.next \in PC /\ job.fail \in PC
  BY <1>1 DEF Job
<1>3. job.todo \in Seq(Line)
  <2>1. Message \cup {Header} \subseteq Line
    BY DEF Line
  <2>2. QED
    BY <1>2, <2>1, SeqMonotonic
<1>4. job.todo # <<>> => /\ Head(job.todo) \in Message \cup {Header}
                         /\ Tail(job.todo) \in Seq(Message \cup {Header})
  BY <1>2, HeadTailProperties
<1>5. QED
  BY <1>1, <1>2, <1>3, <1>4 DEF ConvInv, Writes

LEMMA WriteLineKeeps ==
  ASSUME ConvInv, WriteLine
  PROVE  ConvInv'
<1> DEFINE fl == file[job.file]
           m == Head(job.todo)
           new == Put(fl, m)
<1>1. pc = "write" /\ job.todo # <<>> /\ pc' = "write"
  BY DEF WriteLine
<1>2. /\ file' = [file EXCEPT ![job.file] = new]
      /\ job' = [job EXCEPT !.todo = Tail(@)]
      /\ UNCHANGED <<ctx, steps, cur, cursor, disabled, fresh, kept>>
  BY DEF WriteLine
<1>3. /\ job \in Job /\ job.file \in Session /\ job.msgs \in Seq(Message) /\ job.todo \in Seq(Line)
      /\ m \in Message \cup {Header} /\ Tail(job.todo) \in Seq(Message \cup {Header})
      /\ Underway(fl, job.msgs, job.todo) /\ NearlyWhole(job.msgs)
      /\ Syncing(job) \/ Replacing(job)
  BY <1>1, JobIs
<1>4. fl \in File /\ file \in [Session -> File]
  BY <1>3, Facts
<1>5. new \in File /\ Underway(new, job.msgs, Tail(job.todo))
  BY <1>1, <1>3, <1>4, PutKeeps
<1>6. Tail(job.todo) \in Seq(Line)
  <2>1. Message \cup {Header} \subseteq Line
    BY DEF Line
  <2>2. QED
    BY <1>3, <2>1, SeqMonotonic
<1> HIDE DEF m, new
<1>7. FileSound(new)
  BY <1>3, <1>5, <1>6, UnderwaySound
<1>8. /\ job' \in Job /\ job'.todo = Tail(job.todo) /\ job'.kind = job.kind /\ job'.file = job.file
      /\ job'.msgs = job.msgs /\ job'.next = job.next /\ job'.fail = job.fail
  BY <1>2, <1>3 DEF Job
<1>9. /\ file' \in [Session -> File] /\ file'[job.file] = new
      /\ \A f \in Session : f # job.file => file'[f] = file[f]
  BY <1>2, <1>3, <1>4, <1>5
<1>10. TypeOK'
  BY <1>1, <1>2, <1>8, <1>9 DEF ConvInv, TypeOK, PC
<1>11. Files'
  BY <1>7, <1>9 DEF ConvInv, Files
<1>12. JobThere' /\ Contexts' /\ Recorder'
  BY <1>1, <1>8 DEF JobThere, Contexts, Recorder
<1>13. (Syncing(job) \/ Replacing(job))'
  <2>1. CASE Syncing(job)
    BY <1>2, <1>8, <2>1 DEF Syncing
  <2>2. CASE Replacing(job)
    <3>1. job.file # cur => file'[cur] = file[cur]
      BY <1>9, Facts
    <3>2. QED
      BY <1>2, <1>8, <2>2, <3>1 DEF Replacing
  <2>3. QED
    BY <1>3, <2>1, <2>2
<1>14. Writes'
  BY <1>3, <1>5, <1>8, <1>9, <1>13 DEF Writes
<1>15. Lasting'
  <2> SUFFICES ASSUME NEW f \in Session PROVE Lasts(file'[f], kept[f])
    BY <1>2 DEF Lasting
  <2>1. Lasts(file[f], kept[f]) /\ kept[f] \in Seq(Message)
    BY Facts DEF ConvInv, Lasting
  <2>2. CASE f = job.file
    <3>1. "ok" \in Tails
      BY DEF Tails
    <3>2. Lasts(new, kept[f])
      BY <1>3, <1>4, <2>1, <2>2, <3>1, LastsWrites DEF new
    <3>3. QED
      BY <1>9, <2>2, <3>2
  <2>3. CASE f # job.file
    BY <1>9, <2>1, <2>3
  <2>4. QED
    BY <2>2, <2>3
<1>16. QED
  BY <1>10, <1>11, <1>12, <1>14, <1>15 DEF ConvInv

(* The recorder adopts a file that holds c.                                *)
LEMMA AdoptKeeps ==
  ASSUME ConvInv, NEW f \in Session, NEW c \in Seq(Message),
         NEW next \in {"idle", "model", "limit", "ended"},
         AsWhole(c, next), Records(file[f], c), Adopt(f, c, next),
         steps' = steps, fresh' = fresh, file' = file, job' = NoJob
  PROVE  ConvInv'
<1>1. /\ ctx' = c /\ pc' = next /\ cur' = f /\ cursor' = Len(c) /\ disabled' = FALSE
      /\ kept' = [kept EXCEPT ![f] = c]
  BY DEF Adopt
<1>2. Len(c) \in Nat /\ SubSeq(c, 1, Len(c)) = c
  BY LenProperties, SubSeqFull
<1>3. next \in PC \ {"down", "write"} /\ next \notin {"dispatch", "start", "top"}
  BY DEF PC
<1>4. kept' \in [Session -> Seq(Message)]
  BY <1>1, Facts
<1>5. TypeOK'
  BY <1>1, <1>2, <1>3, <1>4 DEF ConvInv, TypeOK
<1>6. JobThere' /\ Contexts' /\ Writes' /\ Files'
  BY <1>1, <1>3 DEF ConvInv, JobThere, Contexts, Writes, Files
<1>7. InStep(file[f], c, Len(c), next)
  <2>1. Records(file[f], SubSeq(c, 1, Len(c)))
    BY <1>2, Zenon
  <2>2. Ahead(next) = 0
    BY <1>3 DEF Ahead
  <2>3. Len(c) =< Len(c) /\ Len(c) =< Len(c) + 0
    BY <1>2
  <2>4. QED
    BY <1>3, <2>1, <2>2, <2>3 DEF InStep
<1>8. Recorder'
  BY <1>1, <1>7 DEF Recorder
<1>9. Lasting'
  <2> SUFFICES ASSUME NEW g \in Session PROVE Lasts(file[g], kept'[g])
    BY DEF Lasting
  <2>1. Lasts(file[g], kept[g])
    BY DEF ConvInv, Lasting
  <2>2. CASE g = f
    <3>1. RanTogether(file[g]) \/ file[g].lines = Text(c)
      BY <2>1, <2>2, CleanIs DEF Records, Lasts
    <3>2. kept'[g] = c
      BY <1>1, <2>2, Facts
    <3>3. QED
      BY <3>1, <3>2, TextKeeps DEF Lasts
  <2>3. CASE g # f
    BY <1>1, <2>1, <2>3, Facts
  <2>4. QED
    BY <2>2, <2>3
<1>10. QED
  BY <1>5, <1>6, <1>8, <1>9 DEF ConvInv

LEMMA WrittenKeeps ==
  ASSUME ConvInv, Written
  PROVE  ConvInv'
<1>1. /\ pc = "write" /\ job.todo = <<>> /\ Adopt(job.file, job.msgs, job.next) /\ job' = NoJob
      /\ steps' = steps /\ file' = file /\ fresh' = fresh
  BY DEF Written
<1>2. /\ job.file \in Session /\ job.msgs \in Seq(Message)
      /\ Underway(file[job.file], job.msgs, <<>>)
      /\ Syncing(job) \/ Replacing(job)
  BY <1>1, JobIs
<1>3. Records(file[job.file], job.msgs)
  <2> DEFINE ls == file[job.file].lines
  <2>1. ls \in Seq(Line)
    BY <1>2, Facts, FileIs
  <2>2. ls \o <<>> = ls
    BY <2>1, ConcatEmptySeq
  <2>3. QED
    BY <1>2, <2>2 DEF Underway, Records
<1>4. job.next \in {"idle", "model", "limit", "ended"} /\ AsWhole(job.msgs, job.next)
  BY <1>2 DEF Syncing, Replacing, AsWhole
<1>5. QED
  BY <1>1, <1>2, <1>3, <1>4, AdoptKeeps

(* Only the file being written is touched by an interruption, and what it  *)
(* held stays.                                                             *)
LEMMA InterruptedKeeps ==
  ASSUME ConvInv, Interrupted
  PROVE  /\ file' \in [Session -> File] /\ \A f \in Session : FileSound(file'[f])
         /\ \A f \in Session : Lasts(file'[f], kept[f])
         /\ pc = "write" => \A f \in Session : f # job.file => file'[f] = file[f]
<1>1. /\ \A f \in Session : FileSound(file[f])
      /\ \A f \in Session : Lasts(file[f], kept[f])
  BY DEF ConvInv, Files, Lasting
<1>2. CASE job.todo = <<>>
  BY <1>1, <1>2, Facts DEF Interrupted
<1>3. CASE job.todo # <<>>
  <2>1. pc = "write"
    <3>1. pc # "write" => job = NoJob
      BY DEF ConvInv, JobThere
    <3>2. QED
      BY <1>3, <3>1 DEF NoJob
  <2>2. PICK t \in {"ok"} \cup Tears :
          file' = [file EXCEPT ![job.file] = Torn(@, Head(job.todo), t)]
    BY <1>3 DEF Interrupted
  <2> DEFINE fl == file[job.file]
             m == Head(job.todo)
             new == Torn(fl, m, t)
  <2>3. /\ job.file \in Session /\ job.msgs \in Seq(Message) /\ job.todo \in Seq(Line)
        /\ m \in Message \cup {Header}
        /\ Underway(fl, job.msgs, job.todo) /\ NearlyWhole(job.msgs)
    BY <1>3, <2>1, JobIs
  <2>4. fl \in File /\ file \in [Session -> File]
    BY <2>3, Facts
  <2>5. t \in Tails
    BY TearAssumption DEF Tails
  <2>6. new \in File /\ FileSound(new)
    BY <1>3, <2>3, <2>4, <2>5, TornKeeps
  <2>7. Lasts(new, kept[job.file])
    <3>1. Lasts(fl, kept[job.file]) /\ kept[job.file] \in Seq(Message)
      BY <1>1, <2>3, Facts
    <3>2. QED
      BY <2>3, <2>4, <2>5, <3>1, LastsWrites
  <2> HIDE DEF m, new
  <2>8. /\ file' \in [Session -> File] /\ file'[job.file] = new
        /\ \A f \in Session : f # job.file => file'[f] = file[f]
    BY <2>2, <2>3, <2>4, <2>6 DEF m, new
  <2>9. QED
    BY <1>1, <2>6, <2>7, <2>8
<1>4. QED
  BY <1>2, <1>3

LEMMA CrashKeeps ==
  ASSUME ConvInv, Crash
  PROVE  ConvInv'
<1>1. /\ Interrupted /\ pc' = "down" /\ ctx' = <<>> /\ steps' = 0 /\ cursor' = 0
      /\ disabled' = FALSE /\ job' = NoJob /\ cur' = cur /\ fresh' = fresh /\ kept' = kept
  BY DEF Crash
<1>2. TypeOK'
  <2>1. file' \in [Session -> File]
    BY <1>1, InterruptedKeeps
  <2>2. steps' \in 0 .. MaxSteps /\ cursor' \in Nat /\ ctx' \in Seq(Message)
    BY <1>1, Facts, WholeNothing
  <2>3. pc' \in PC /\ disabled' \in BOOLEAN
    BY <1>1 DEF PC
  <2>4. QED
    BY <1>1, <2>1, <2>2, <2>3 DEF ConvInv, TypeOK
<1>3. JobThere' /\ Contexts' /\ Recorder' /\ Writes'
  BY <1>1 DEF JobThere, Contexts, Recorder, Writes
<1>4. Files' /\ Lasting'
  BY <1>1, InterruptedKeeps DEF Files, Lasting
<1>5. QED
  BY <1>2, <1>3, <1>4 DEF ConvInv

LEMMA WriteFailsKeeps ==
  ASSUME ConvInv, WriteFails
  PROVE  ConvInv'
<1>1. /\ pc = "write" /\ job.todo # <<>>
      /\ pc' = job.fail /\ job' = NoJob /\ disabled' = (disabled \/ job.kind = "sync")
      /\ UNCHANGED <<ctx, steps, cur, cursor, fresh, kept>>
      /\ \/ job.kind # "candidate" /\ Interrupted
         \/ job.kind = "candidate" /\ file' = [file EXCEPT ![job.file] = NoFile]
  BY DEF WriteFails
<1>2. job.file \in Session /\ job.fail \in PC /\ (Syncing(job) \/ Replacing(job))
  BY <1>1, JobIs
<1>3. /\ file' \in [Session -> File] /\ \A f \in Session : FileSound(file'[f])
      /\ \A f \in Session : Lasts(file'[f], kept[f])
      /\ \A f \in Session : f # job.file => file'[f] = file[f]
  <2>1. CASE job.kind # "candidate" /\ Interrupted
    BY <1>1, <2>1, InterruptedKeeps
  <2>2. CASE job.kind = "candidate" /\ file' = [file EXCEPT ![job.file] = NoFile]
    <3>1. kept[job.file] = <<>>
      BY <1>2, <2>2 DEF Syncing, Replacing
    <3>2. \A f \in Session : /\ f = job.file => file'[f] = NoFile
                             /\ f # job.file => file'[f] = file[f]
      BY <1>2, <2>2, Facts
    <3>3. file' \in [Session -> File]
      BY <1>2, <2>2, Facts, NoFileIs
    <3>4. \A f \in Session : FileSound(file'[f])
      BY <3>2, NoFileIs DEF ConvInv, Files
    <3>5. ASSUME NEW f \in Session PROVE Lasts(file'[f], kept[f])
      BY <3>1, <3>2, <3>5, NoFileIs DEF ConvInv, Lasting, Lasts
    <3>6. QED
      BY <3>2, <3>3, <3>4, <3>5
  <2>3. QED
    BY <1>1, <2>1, <2>2
<1>4. job.fail \in PC \ {"write"}
  BY <1>2 DEF Syncing, Replacing, PC
<1>5. TypeOK'
  <2>1. disabled' \in BOOLEAN
    BY <1>1, Zenon
  <2>2. QED
    BY <1>1, <1>3, <1>4, <2>1 DEF ConvInv, TypeOK
<1>6. JobThere' /\ Writes'
  BY <1>1, <1>4 DEF JobThere, Writes
<1>7. Files' /\ Lasting'
  BY <1>1, <1>3 DEF Files, Lasting
<1>8. Contexts'
  <2>1. CASE Syncing(job)
    BY <1>1, <2>1 DEF Contexts, Syncing
  <2>2. CASE Replacing(job)
    BY <1>1, <2>2 DEF Contexts, Replacing, AsWhole
  <2>3. QED
    BY <1>2, <2>1, <2>2
<1>9. Recorder'
  <2>1. CASE Syncing(job)
    BY <1>1, <2>1 DEF Recorder, Syncing
  <2>2. CASE Replacing(job)
    <3> SUFFICES ASSUME job.fail \notin {"down", "write"}, ~disabled'
                 PROVE  InStep(file'[cur], ctx, cursor, job.fail)
      BY <1>1 DEF Recorder
    <3>1. job.fail = "idle" /\ ~disabled
      BY <1>1, <2>2 DEF Replacing
    <3>2. job.file # cur /\ InStep(file[cur], ctx, cursor, "idle")
      BY <2>2, <3>1 DEF Replacing
    <3>3. file'[cur] = file[cur]
      BY <1>3, <3>2, Facts
    <3>4. QED
      BY <3>1, <3>2, <3>3
  <2>3. QED
    BY <1>2, <2>1, <2>2
<1>10. QED
  BY <1>5, <1>6, <1>7, <1>8, <1>9 DEF ConvInv

-----------------------------------------------------------------------------
(* Sessions                                                                *)

LEMMA NewFileIs ==
  /\ NewFile \in File /\ NewFile.lines = Text(<<>>) /\ NewFile.tail = "ok"
  /\ FileSound(NewFile) /\ Clean(NewFile) /\ Keeps(NewFile, <<>>)
<1>1. <<Header>> \in Seq(Line) /\ "ok" \in Tails
  BY LineKinds DEF Tails
<1>2. NewFile \in File /\ NewFile.lines = <<Header>> /\ NewFile.tail = "ok"
  BY <1>1, FileOf DEF NewFile
<1>3. Text(<<>>) = <<Header>>
  BY <1>1, ConcatEmptySeq DEF Text
<1>4. <<>> \in Seq(Message) /\ NearlyWhole(<<>>)
  BY WholeNothing DEF NearlyWhole
<1>5. FileSound(NewFile)
  BY <1>2, <1>3, <1>4, TextFile
<1>6. Clean(NewFile) /\ Keeps(NewFile, <<>>)
  BY <1>2, <1>3, <1>4, TextKeeps
<1>7. QED
  BY <1>2, <1>3, <1>5, <1>6

LEMMA SystemIs ==
  <<System>> \in Seq(Message) /\ WholeTurns(<<System>>) /\ Len(<<System>>) = 1
<1>1. System \in Message /\ System.k \in Plain
  BY LineKinds DEF System, Plain
<1>2. QED
  BY <1>1, WholePlain

(* A file of another shape in a place that kept nothing.                   *)
LEMMA OneFile ==
  ASSUME ConvInv, NEW f \in Session, NEW new \in File, FileSound(new), Clean(new), Keeps(new, <<>>),
         file' = [file EXCEPT ![f] = new], kept' = [kept EXCEPT ![f] = <<>>]
  PROVE  /\ file' \in [Session -> File] /\ kept' \in [Session -> Seq(Message)]
         /\ Files' /\ Lasting'
         /\ file'[f] = new /\ \A g \in Session : g # f => file'[g] = file[g]
         /\ kept'[f] = <<>>
<1>1. <<>> \in Seq(Message)
  BY WholeNothing
<1>2. file' \in [Session -> File] /\ kept' \in [Session -> Seq(Message)]
  BY <1>1, Facts
<1>3. /\ file'[f] = new /\ kept'[f] = <<>>
      /\ \A g \in Session : g # f => file'[g] = file[g] /\ kept'[g] = kept[g]
  BY Facts
<1>4. Files'
  <2> SUFFICES ASSUME NEW g \in Session PROVE FileSound(file'[g])
    BY DEF Files
  <2>1. FileSound(file[g])
    BY DEF ConvInv, Files
  <2>2. QED
    BY <1>3, <2>1
<1>5. Lasting'
  <2> SUFFICES ASSUME NEW g \in Session PROVE Lasts(file'[g], kept'[g])
    BY DEF Lasting
  <2>1. Lasts(file[g], kept[g])
    BY DEF ConvInv, Lasting
  <2>2. QED
    BY <1>3, <2>1 DEF Lasts
<1>6. QED
  BY <1>2, <1>3, <1>4, <1>5

LEMMA UnusedIs ==
  ASSUME ConvInv, NEW f \in Unused
  PROVE  /\ f \in Session /\ file[f] = NoFile /\ kept[f] = <<>>
         /\ kept = [kept EXCEPT ![f] = <<>>]
BY Facts DEF Unused

LEMMA CreateKeeps ==
  ASSUME ConvInv, Create
  PROVE  ConvInv'
<1>1. PICK f \in Unused : file' = [file EXCEPT ![f] = NewFile] /\ cur' = f
  BY DEF Create
<1>2. /\ pc = "down" /\ ctx' = <<System>> /\ pc' = "idle" /\ cursor' = 0 /\ disabled' = FALSE
      /\ steps' = steps /\ job' = job /\ fresh' = fresh /\ kept' = kept
  BY DEF Create
<1>3. f \in Session /\ kept' = [kept EXCEPT ![f] = <<>>]
  BY <1>2, UnusedIs
<1>4. file' \in [Session -> File] /\ Files' /\ Lasting' /\ file'[f] = NewFile
  BY <1>1, <1>3, NewFileIs, OneFile
<1>5. job = NoJob
  BY <1>2 DEF ConvInv, JobThere
<1>6. TypeOK'
  BY <1>1, <1>2, <1>3, <1>4, <1>5, SystemIs DEF ConvInv, TypeOK, PC
<1>7. JobThere' /\ Writes'
  BY <1>2, <1>5 DEF JobThere, Writes
<1>8. Contexts'
  BY <1>2, SystemIs DEF Contexts, AsWhole
<1>9. InStep(NewFile, <<System>>, 0, "idle")
  <2>1. SubSeq(<<System>>, 1, 0) = <<>>
    <3>1. 0 \in 0 .. Len(<<System>>)
      BY SystemIs
    <3>2. SubSeq(<<System>>, 1, 0) \in Seq(Message) /\ Len(SubSeq(<<System>>, 1, 0)) = 0
      BY <3>1, SystemIs, Beginning
    <3>3. QED
      BY <3>2, EmptySeq
  <2>2. Records(NewFile, SubSeq(<<System>>, 1, 0))
    BY <2>1, NewFileIs DEF Records
  <2> DEFINE c == <<System>>
  <2>3. Len(c) = 1 /\ Records(NewFile, SubSeq(c, 1, 0))
    BY <2>2, SystemIs
  <2> HIDE DEF c
  <2>4. InStep(NewFile, c, 0, "idle")
    BY <2>3 DEF InStep, Ahead
  <2>5. QED
    BY <2>4 DEF c
<1>10. Recorder'
  BY <1>1, <1>2, <1>4, <1>9 DEF Recorder
<1>11. QED
  BY <1>4, <1>6, <1>7, <1>8, <1>10 DEF ConvInv

(* What can be loaded is whole.                                            *)
LEMMA LoadedIs ==
  ASSUME ConvInv, NEW f \in Session, Loads(file[f])
  PROVE  Loaded(file[f]) \in Seq(Message) /\ WholeTurns(Loaded(file[f]))
<1>1. Tail(Readable(file[f])) \in Seq(Message) /\ NearlyWhole(Tail(Readable(file[f])))
  BY DEF ConvInv, Files, FileSound
<1>2. QED
  BY <1>1, WholeAgain DEF Loaded

(* The file in use never needs a repair while its recorder is at rest.     *)
LEMMA InUse ==
  ASSUME ConvInv, pc = "idle", ~disabled
  PROVE  /\ file[cur] # NoFile /\ (Loads(file[cur]) => ~Warns(file[cur]))
         /\ InStep(file[cur], ctx, cursor, "idle")
<1> DEFINE c == SubSeq(ctx, 1, cursor)
           fl == file[cur]
<1>1. /\ InStep(fl, ctx, cursor, "idle") /\ WholeTurns(ctx) /\ ctx \in Seq(Message)
      /\ cursor \in Nat /\ Len(ctx) \in Nat /\ fl \in File
  BY Facts DEF AsWhole
<1>2. /\ Records(fl, c) /\ cursor =< Len(ctx)
      /\ Len(ctx) =< cursor \/ cursor = 0
  BY <1>1 DEF InStep, Ahead
<1>3. c \in Seq(Message) /\ Len(c) = cursor
  BY <1>1, <1>2, Beginning
<1>4. WholeTurns(c)
  <2>1. CASE cursor = Len(ctx)
    <3>1. c = ctx
      BY <1>1, <2>1, SubSeqFull
    <3>2. QED
      BY <1>1, <3>1
  <2>2. CASE cursor = 0
    <3>1. c = <<>>
      BY <1>3, <2>2, EmptySeq
    <3>2. QED
      BY <3>1, WholeNothing
  <2>3. QED
    BY <1>1, <1>2, <2>1, <2>2
<1> HIDE DEF c, fl
<1>5. CASE Spoiled(fl)
  <2>1. ~Loads(fl)
    BY <1>1, <1>5, SpoiledNoLoad
  <2>2. fl # NoFile
    <3>1. DOMAIN NoFile.lines = {}
      BY DEF NoFile
    <3>2. QED
      BY <1>5, <3>1 DEF Spoiled
  <2>3. QED
    BY <1>1, <2>1, <2>2 DEF fl
<1>6. CASE fl.lines = Text(c) /\ fl.tail # "half"
  <2>1. Loaded(fl) = DropDangling(c)
    BY <1>3, <1>6, TextFile
  <2>2. DropDangling(c) = c
    BY <1>3, <1>4, WholeAgain DEF NearlyWhole
  <2>3. ~Warns(fl)
    BY <1>6, <2>1, <2>2 DEF Warns, Text
  <2>4. Text(c) # <<>>
    BY <1>3, TextIs
  <2>5. fl # NoFile
    BY <1>6, <2>4 DEF NoFile
  <2>6. QED
    BY <1>1, <2>3, <2>5 DEF fl
<1>7. QED
  BY <1>2, <1>5, <1>6 DEF Records

(* A write of the whole of c to a file that has nothing to lose.           *)
LEMMA Replace ==
  ASSUME ConvInv, pc \in {"down", "idle"}, pc' = "write",
         NEW f \in Session, NEW new \in File, FileSound(new), Clean(new), Keeps(new, <<>>),
         NEW c \in Seq(Message), WholeTurns(c), NEW kind \in {"reopen", "candidate"},
         NEW td \in Seq(Message \cup {Header}), Underway(new, c, td),
         pc = "idle" /\ ~disabled => f # cur,
         file' = [file EXCEPT ![f] = new], kept' = [kept EXCEPT ![f] = <<>>],
         job' = [kind |-> kind, file |-> f, msgs |-> c, next |-> "idle", fail |-> pc, todo |-> td],
         UNCHANGED <<ctx, steps, cur, cursor, disabled, fresh>>
  PROVE  ConvInv'
<1>1. /\ file' \in [Session -> File] /\ kept' \in [Session -> Seq(Message)] /\ Files' /\ Lasting'
      /\ file'[f] = new /\ \A g \in Session : g # f => file'[g] = file[g]
      /\ kept'[f] = <<>>
  BY OneFile
<1>2. /\ job' \in Job /\ job'.kind = kind /\ job'.file = f /\ job'.msgs = c /\ job'.next = "idle"
      /\ job'.fail = pc /\ job'.todo = td
  BY DEF Job, PC
<1>3. TypeOK'
  BY <1>1, <1>2 DEF ConvInv, TypeOK, PC
<1>4. JobThere' /\ Contexts' /\ Recorder'
  BY <1>2 DEF JobThere, Contexts, Recorder
<1>5. pc = "idle" => WholeTurns(ctx)
  BY Facts DEF AsWhole
<1>6. pc = "idle" /\ ~disabled => f # cur /\ InStep(file'[cur], ctx, cursor, "idle")
  BY <1>1, Facts, InUse
<1>7. Replacing(job)'
  BY <1>1, <1>2, <1>5, <1>6 DEF Replacing
<1>8. Writes'
  BY <1>1, <1>2, <1>7 DEF Writes, NearlyWhole
<1>9. QED
  BY <1>1, <1>3, <1>4, <1>8 DEF ConvInv

LEMMA OpenKeeps ==
  ASSUME ConvInv, Open
  PROVE  ConvInv'
<1>1. PICK f \in Session :
        /\ Loads(file[f])
        /\ LET c == Loaded(file[f]) IN
           \/ /\ Warns(file[f])
              /\ pc' = "write" /\ Truncate(f)
              /\ job' = [kind |-> "reopen", file |-> f, msgs |-> c, next |-> "idle",
                         fail |-> pc, todo |-> <<Header>> \o c]
              /\ UNCHANGED <<ctx, cur, cursor, disabled>>
           \/ ~Warns(file[f]) /\ Adopt(f, c, "idle") /\ UNCHANGED <<file, job>>
  BY DEF Open
<1>2. pc \in {"down", "idle"} /\ steps' = steps /\ fresh' = fresh /\ job = NoJob
  BY DEF Open, ConvInv, JobThere
<1> DEFINE c == Loaded(file[f])
<1>3. c \in Seq(Message) /\ WholeTurns(c)
  BY <1>1, LoadedIs
<1> HIDE DEF c
<1>4. CASE /\ Warns(file[f]) /\ pc' = "write" /\ Truncate(f)
           /\ job' = [kind |-> "reopen", file |-> f, msgs |-> c, next |-> "idle",
                      fail |-> pc, todo |-> <<Header>> \o c]
           /\ UNCHANGED <<ctx, cur, cursor, disabled>>
  <2>1. file' = [file EXCEPT ![f] = NoFile] /\ kept' = [kept EXCEPT ![f] = <<>>]
    BY <1>4 DEF Truncate
  <2>2. pc = "idle" /\ ~disabled => f # cur
    BY <1>1, <1>4, InUse
  <2>3. Text(c) \in Seq(Message \cup {Header})
    BY <1>3, LineKinds, SeqMonotonic, ConcatProperties DEF Text
  <2>4. job' = [kind |-> "reopen", file |-> f, msgs |-> c, next |-> "idle", fail |-> pc, todo |-> Text(c)]
    BY <1>4 DEF Text
  <2>5. Underway(NoFile, c, Text(c))
    BY <1>3, NoFileIs
  <2>6. QED
    BY <1>2, <1>3, <1>4, <2>1, <2>2, <2>3, <2>4, <2>5, NoFileIs, Replace
<1>5. CASE ~Warns(file[f]) /\ Adopt(f, c, "idle") /\ UNCHANGED <<file, job>>
  <2>1. Records(file[f], c)
    BY <1>5 DEF Warns, Records, Text, c
  <2>2. AsWhole(c, "idle")
    BY <1>3 DEF AsWhole
  <2>3. QED
    BY <1>2, <1>3, <1>5, <2>1, <2>2, AdoptKeeps
<1>6. QED
  BY <1>1, <1>4, <1>5 DEF c

LEMMA ClearKeeps ==
  ASSUME ConvInv, Clear
  PROVE  ConvInv'
<1> DEFINE c == <<System>>
<1>1. PICK f \in Unused :
        /\ file' = [file EXCEPT ![f] = NewFile]
        /\ job' = [kind |-> "candidate", file |-> f, msgs |-> c, todo |-> c,
                   next |-> "idle", fail |-> "idle"]
  BY DEF Clear
<1>2. pc = "idle" /\ pc' = "write" /\ UNCHANGED <<ctx, steps, cur, cursor, disabled, fresh, kept>>
  BY DEF Clear
<1>3. c \in Seq(Message) /\ WholeTurns(c)
  BY SystemIs
<1> HIDE DEF c
<1>4. f \in Session /\ file[f] = NoFile /\ kept' = [kept EXCEPT ![f] = <<>>]
  BY <1>2, UnusedIs
<1>5. ~disabled => f # cur
  BY <1>2, <1>4, InUse
<1>6. c \in Seq(Message \cup {Header})
  BY <1>3, SeqMonotonic
<1>7. Underway(NewFile, c, c)
  <2>1. <<>> \in Seq(Line)
    OBVIOUS
  <2>2. Text(<<>>) = <<Header>>
    BY LineKinds, ConcatEmptySeq DEF Text
  <2>3. QED
    BY <2>2, NewFileIs DEF Underway, Text
<1>8. job' = [kind |-> "candidate", file |-> f, msgs |-> c, next |-> "idle", fail |-> pc, todo |-> c]
  BY <1>1, <1>2
<1>9. QED
  BY <1>1, <1>2, <1>3, <1>4, <1>5, <1>6, <1>7, <1>8, NewFileIs, Replace

LEMMA ForkKeeps ==
  ASSUME ConvInv, Fork
  PROVE  ConvInv'
<1>1. PICK f \in Unused :
        /\ file' = [file EXCEPT ![f] = NewFile]
        /\ cur' = f /\ cursor' = 0 /\ disabled' = FALSE
        /\ job' = [kind |-> "sync", file |-> f, msgs |-> ctx, todo |-> ctx,
                   next |-> "idle", fail |-> "idle"]
  BY DEF Fork
<1>2. /\ pc = "idle" /\ pc' = "write" /\ ctx' = ctx /\ steps' = steps /\ fresh' = fresh /\ kept' = kept
      /\ WholeTurns(ctx) /\ ctx \in Seq(Message)
  BY Facts DEF Fork, AsWhole
<1>3. f \in Session /\ kept' = [kept EXCEPT ![f] = <<>>]
  BY <1>2, UnusedIs
<1>4. file' \in [Session -> File] /\ Files' /\ Lasting' /\ file'[f] = NewFile
  BY <1>1, <1>3, NewFileIs, OneFile
<1>5. ctx \in Seq(Message \cup {Header})
  BY <1>2, SeqMonotonic
<1>6. /\ job' \in Job /\ job'.kind = "sync" /\ job'.file = f /\ job'.msgs = ctx /\ job'.next = "idle"
      /\ job'.fail = "idle" /\ job'.todo = ctx
  BY <1>1, <1>2, <1>3, <1>5 DEF Job, PC
<1>7. TypeOK'
  BY <1>1, <1>2, <1>3, <1>4, <1>6 DEF ConvInv, TypeOK, PC
<1>8. JobThere' /\ Contexts' /\ Recorder'
  BY <1>2, <1>6 DEF JobThere, Contexts, Recorder
<1>9. Underway(NewFile, ctx, ctx)
  <2>1. Text(<<>>) = <<Header>>
    BY LineKinds, ConcatEmptySeq DEF Text
  <2>2. QED
    BY <2>1, NewFileIs DEF Underway, Text
<1>10. Syncing(job)'
  BY <1>1, <1>2, <1>6 DEF Syncing, AsWhole
<1>11. Writes'
  BY <1>2, <1>4, <1>6, <1>9, <1>10 DEF Writes, NearlyWhole
<1>12. QED
  BY <1>4, <1>7, <1>8, <1>11 DEF ConvInv

-----------------------------------------------------------------------------
(* The theorems                                                            *)

LEMMA ConvInit ==
  ASSUME Init
  PROVE  ConvInv
<1>1. /\ ctx = <<>> /\ pc = "down" /\ steps = 0 /\ file = [f \in Session |-> NoFile]
      /\ cur \in Session /\ cursor = 0 /\ disabled = FALSE /\ job = NoJob
      /\ fresh = 0 /\ kept = [f \in Session |-> <<>>]
  BY DEF Init
<1>2. TypeOK
  <2>1. <<>> \in Seq(Message) /\ NoFile \in File
    BY WholeNothing, NoFileIs
  <2>2. 0 \in 0 .. MaxSteps /\ 0 \in 0 .. MaxMessages
    BY LimitAssumption
  <2>3. QED
    BY <1>1, <2>1, <2>2 DEF TypeOK, PC
<1>3. JobThere /\ Contexts /\ Recorder /\ Writes
  BY <1>1 DEF JobThere, Contexts, Recorder, Writes
<1>4. Files /\ Lasting
  BY <1>1, NoFileIs DEF Files, Lasting, Lasts
<1>5. QED
  BY <1>2, <1>3, <1>4 DEF ConvInv

LEMMA ConvStep ==
  ASSUME CompactionsShrink, ConvInv, [Next]_vars
  PROVE  ConvInv'
<1>1. CASE Writing
  BY <1>1, WriteLineKeeps, WrittenKeeps, WriteFailsKeeps DEF Writing
<1>2. CASE Crash
  BY <1>2, CrashKeeps
<1>3. CASE Off \/ UNCHANGED vars
  <2>1. UNCHANGED vars
    BY <1>3 DEF Off
  <2>2. UNCHANGED <<ctx, pc, steps, file, cur, cursor, disabled, job, fresh, kept>>
    BY <2>1 DEF vars
  <2>3. TypeOK' /\ JobThere' /\ Contexts' /\ Files' /\ Recorder'
    BY <2>2 DEF ConvInv, TypeOK, JobThere, Contexts, Files, Recorder
  <2>4. Writes' /\ Lasting'
    BY <2>2 DEF ConvInv, Writes, Lasting, Syncing, Replacing
  <2>5. QED
    BY <2>3, <2>4 DEF ConvInv
<1>4. CASE Sessions
  BY <1>4, CreateKeeps, OpenKeeps, ForkKeeps, ClearKeeps DEF Sessions
<1>5. CASE Commands
  BY <1>5, CompactSyncs, RewindSyncs, RunGrows, ShellSyncs DEF Commands
<1>6. CASE Loop
  BY <1>6, QuietSteps, AnswerGrows, BeforeModelSyncs, EndSyncs DEF Loop
<1>7. QED
  BY <1>1, <1>2, <1>3, <1>4, <1>5, <1>6 DEF Next

(***************************************************************************)
(* Type correctness, and what the chat endpoints ask for: whatever was     *)
(* said, failed, compacted, rewound, repaired, resumed or torn by a crash, *)
(* every model call of the agent loop is shown whole turns.                *)
(***************************************************************************)
THEOREM ContextSafety ==
  ASSUME CompactionsShrink
  PROVE  Spec => []ContextSound
<1>1. Init => ConvInv
  BY ConvInit
<1>2. ConvInv /\ [Next]_vars => ConvInv'
  BY ConvStep
<1>3. ConvInv => ContextSound
  BY DEF ConvInv, Contexts, AsWhole, ContextSound, ModelSeesWholeTurns
<1>4. QED
  BY <1>1, <1>2, <1>3, PTL DEF Spec

LEMMA PrefixIs ==
  ASSUME NEW S, NEW s \in Seq(S), NEW t \in Seq(S), Len(s) =< Len(t),
         \A i \in 1 .. Len(s) : s[i] = t[i]
  PROVE  IsPrefix(s, t)
<1>1. Len(s) \in 0 .. Len(s)
  BY LenProperties
<1>2. SubSeq(t, 1, Len(s)) = SubSeq(s, 1, Len(s))
  BY <1>1, SameBeginning
<1>3. QED
  BY <1>2 DEF IsPrefix

LEMMA DropIs ==
  ASSUME NEW c \in Seq(Message)
  PROVE  /\ DropDangling(c) \in Seq(Message)
         /\ Len(DropDangling(c)) \in Nat
         /\ Len(DropDangling(c)) = (IF c # <<>> /\ Last(c).k = "calls" THEN Len(c) - 1 ELSE Len(c))
         /\ \A i \in 1 .. Len(DropDangling(c)) : DropDangling(c)[i] = c[i]
<1>1. CASE c # <<>> /\ Last(c).k = "calls"
  <2>1. /\ Front(c) \in Seq(Message) /\ Len(Front(c)) = Len(c) - 1
        /\ \A i \in 1 .. Len(c) - 1 : Front(c)[i] = c[i]
    BY <1>1, FrontIs
  <2>2. DropDangling(c) = Front(c) /\ Len(Front(c)) \in Nat
    BY <1>1, <2>1, LenProperties DEF DropDangling
  <2>3. QED
    BY <1>1, <2>1, <2>2
<1>2. CASE ~(c # <<>> /\ Last(c).k = "calls")
  <2>1. DropDangling(c) = c /\ Len(c) \in Nat
    BY <1>2, LenProperties DEF DropDangling
  <2>2. QED
    BY <1>2, <2>1
<1>3. QED
  BY <1>1, <1>2

(* What was once on file loads again, calls without results excepted.      *)
LEMMA LoadsAgain ==
  ASSUME NEW fl \in File, Clean(fl), NEW c \in Seq(Message), c # <<>>, Keeps(fl, c), FileSound(fl)
  PROVE  Loads(fl) /\ IsPrefix(DropDangling(c), Loaded(fl))
<1> DEFINE ls == fl.lines
           d == Tail(ls)
<1>1. /\ ls \in Seq(Line) /\ Len(ls) \in Nat /\ Len(c) \in Nat /\ Len(c) # 0
  BY FileIs, LenProperties, EmptySeq
<1>2. Len(c) + 1 =< Len(ls) /\ \A i \in 1 .. Len(c) + 1 : ls[i] = Text(c)[i]
  BY DEF Keeps
<1>3. Text(c)[1] = Header /\ \A i \in 1 .. Len(c) : Text(c)[i + 1] = c[i]
  BY TextIs
<1>4. Readable(fl) = ls
  <2>1. ls # <<>> /\ Len(ls) \in DOMAIN ls
    BY <1>1, <1>2, EmptySeq, LenProperties
  <2>2. Last(ls) \notin Unreadable
    BY <2>1 DEF Last, Clean
  <2>3. QED
    BY <2>2 DEF Readable
<1>5. ls # <<>>
  BY <1>1, <1>2, EmptySeq
<1>6. ls[1] = Header
  BY <1>1, <1>2, <1>3
<1>7. Loads(fl)
  BY <1>4, <1>5, <1>6 DEF Loads, Clean
<1>8. d \in Seq(Message)
  BY <1>4, <1>7 DEF FileSound
<1>9. Len(d) = Len(ls) - 1 /\ \A i \in 1 .. Len(d) : d[i] = ls[i + 1]
  BY <1>1, <1>5, HeadTailProperties
<1> HIDE DEF ls, d
<1>10. Len(c) =< Len(d) /\ Len(d) \in Nat
  BY <1>1, <1>2, <1>9
<1>11. ASSUME NEW i \in 1 .. Len(c) PROVE d[i] = c[i]
  <2>1. i + 1 \in 1 .. Len(c) + 1 /\ i \in 1 .. Len(d)
    BY <1>1, <1>10
  <2>2. QED
    BY <1>2, <1>3, <1>9, <2>1
<1> DEFINE a == DropDangling(c)
           b == DropDangling(d)
<1>12. /\ a \in Seq(Message) /\ Len(a) \in Nat /\ \A i \in 1 .. Len(a) : a[i] = c[i]
       /\ Len(a) = (IF c # <<>> /\ Last(c).k = "calls" THEN Len(c) - 1 ELSE Len(c))
  BY DropIs
<1>13. /\ b \in Seq(Message) /\ Len(b) \in Nat /\ \A i \in 1 .. Len(b) : b[i] = d[i]
       /\ Len(b) = (IF d # <<>> /\ Last(d).k = "calls" THEN Len(d) - 1 ELSE Len(d))
  BY <1>8, DropIs
<1> HIDE DEF a, b
<1>14. Len(a) =< Len(b) /\ Len(a) =< Len(c)
  <2>1. Len(a) =< Len(c)
    BY <1>1, <1>12
  <2>2. CASE Len(c) = Len(d)
    <3>1. c = d
      BY <1>8, <1>11, <2>2, SeqEqual
    <3>2. QED
      BY <1>1, <1>12, <1>13, <2>1, <3>1 DEF a, b
  <2>3. CASE Len(c) # Len(d)
    <3>1. Len(c) =< Len(d) - 1
      BY <1>1, <1>10, <2>3
    <3>2. Len(b) >= Len(d) - 1
      BY <1>10, <1>13
    <3>3. QED
      BY <1>1, <1>10, <1>12, <1>13, <2>1, <3>1, <3>2
  <2>4. QED
    BY <2>2, <2>3
<1>15. ASSUME NEW i \in 1 .. Len(a) PROVE a[i] = b[i]
  <2>1. i \in 1 .. Len(c) /\ i \in 1 .. Len(b)
    BY <1>1, <1>12, <1>13, <1>14
  <2>2. QED
    BY <1>11, <1>12, <1>13, <2>1
<1>16. IsPrefix(a, b)
  BY <1>12, <1>13, <1>14, <1>15, PrefixIs
<1>17. Loaded(fl) = b
  BY <1>4 DEF Loaded, b, d, ls
<1>18. QED
  BY <1>7, <1>16, <1>17 DEF a

LEMMA FileFollows ==
  ASSUME ConvInv
  PROVE  FileFaithful
<1>1. FileMirrorsContext
  <2> SUFFICES ASSUME pc \in {"model", "idle"}, ~disabled, cursor > 0, ~RanTogether(file[cur])
               PROVE  file[cur].lines = <<Header>> \o ctx /\ file[cur].tail # "half"
    BY DEF FileMirrorsContext
  <2>1. /\ InStep(file[cur], ctx, cursor, pc) /\ ctx \in Seq(Message) /\ Len(ctx) \in Nat
        /\ cursor \in Nat /\ cur \in Session
    BY Facts
  <2>2. Records(file[cur], SubSeq(ctx, 1, cursor)) /\ cursor = Len(ctx)
    BY <2>1 DEF InStep, Ahead
  <2>3. SubSeq(ctx, 1, cursor) = ctx
    BY <2>1, <2>2, SubSeqFull
  <2>4. Clean(file[cur])
    BY <2>1 DEF ConvInv, Lasting, Lasts
  <2>5. QED
    BY <2>2, <2>3, <2>4, CleanIs DEF Records, Text
<1>2. Recoverable
  <2> SUFFICES ASSUME NEW f \in Session, ~RanTogether(file[f]), kept[f] # <<>>
               PROVE  Loads(file[f]) /\ IsPrefix(DropDangling(kept[f]), Loaded(file[f]))
    BY DEF Recoverable, StillHolds
  <2> DEFINE fl == file[f]
             k == kept[f]
  <2>1. /\ fl \in File /\ k \in Seq(Message) /\ Clean(fl) /\ Keeps(fl, k)
        /\ FileSound(fl)
    BY Facts DEF ConvInv, Lasting, Lasts, Files
  <2>2. QED
    BY <2>1, LoadsAgain
<1>3. QED
  BY <1>1, <1>2 DEF FileFaithful

(***************************************************************************)
(* At every model call and at every command the file holds the context,    *)
(* and what was once on file can be loaded, whatever crash or write error  *)
(* came in between and wherever in a line, until a message is appended to  *)
(* a line of which only the newline is missing.                            *)
(***************************************************************************)
THEOREM FileSafety ==
  ASSUME CompactionsShrink
  PROVE  Spec => []FileFaithful
<1>1. Init => ConvInv
  BY ConvInit
<1>2. ConvInv /\ [Next]_vars => ConvInv'
  BY ConvStep
<1>3. ConvInv => FileFaithful
  BY FileFollows
<1>4. QED
  BY <1>1, <1>2, <1>3, PTL DEF Spec
=============================================================================
