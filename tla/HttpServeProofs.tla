--------------------------- MODULE HttpServeProofs ---------------------------
(***************************************************************************)
(* Proofs about HttpServe: every request is handled as it was sent and     *)
(* answered for what it is, and no model call costs more than five         *)
(* requests.                                                               *)
(*                                                                         *)
(* The argument follows the bytes.  What a client has sent is at any time  *)
(* cut into what the server took, what waits in the stream and what is     *)
(* still to come; a connection is in the backlog, with the server or done, *)
(* and the stage of the server says what is known of the one it holds.     *)
(***************************************************************************)
EXTENDS HttpServe, SequenceTheorems, WellFoundedInduction, TLAPS

Pcs    == {"accept", "head", "body", "route", "handler", "model", "reply"}
Phases == {"idle", "sending", "sent", "sleeping", "answered", "failed"}

Origins == {"none", "file", "handler", "model"}

Answers == [status : Nat, from : Origins]

Connections ==
  [phase : {"away", "open", "done"}, message : Messages \cup {NoMessage},
   rest : Seq(Int), stream : Seq(Int), closed : BOOLEAN, reply : Answers]

Servers ==
  [pc : Pcs, client : Clients \cup {"none"}, buf : Seq(Int), body : Seq(Int), reply : Answers]

Values == Texts \cup Unreadable \cup {"none"}

Exchanges ==
  [phase : Phases, type : {"String", "Enum"}, attempt : Nat, sent : Nat, value : Values, waited : Nat,
   demanded : Nat]

Shapes ==
  /\ conn \in [Clients -> Connections]
  /\ backlog \in Seq(Clients)
  /\ server \in Servers
  /\ exchange \in Exchanges
  /\ {wire, calls, dropped} \subseteq Nat
  /\ handled \subseteq [client : Clients, body : Seq(Int)]

-----------------------------------------------------------------------------
(* The bill *)

\* The delay after n others, without a header and a cap.
Doubled(n) == 500 * 2^n

\* The sum of the first n delays without a header.
Slept(n) == 500 * (2^n - 1)

\* How many requests an exchange has sent, and how long it has waited.
Paced(x) ==
  /\ x.phase = "idle" => x = Idle
  /\ x.attempt <= MaxRetries
  /\ x.phase = "sending" => x.sent = x.attempt
  /\ x.phase \in {"sent", "sleeping"} => x.sent = x.attempt + 1
  /\ x.phase = "sleeping" => x.attempt < MaxRetries
  /\ x.phase \in {"sending", "sent"} => x.waited <= x.demanded + Slept(x.attempt)
  /\ x.phase = "sleeping" => x.waited <= x.demanded + Slept(x.attempt + 1)
  /\ x.sent <= MaxRetries + 1
  /\ x.waited <= x.demanded + Slept(MaxRetries)

\* Requests were sent for calls that ended, were dropped, or are in progress.
Billed ==
  /\ Paced(exchange)
  /\ wire <= (MaxRetries + 1) * (calls + dropped) + exchange.sent
  /\ calls <= MaxModelCalls
  /\ IF At("model") THEN exchange.phase # "idle" /\ calls < MaxModelCalls ELSE exchange = Idle

-----------------------------------------------------------------------------
(* One connection and what the server knows of it *)

\* A request is what was taken of it and what is left of it.
Cut(m, taken, left) == taken \o left = Bytes(m)

\* Nothing of the connection's bytes was read.
Unread(x) ==
  /\ x.phase = "open"
  /\ x.message \in Messages
  /\ x.stream \o x.rest = Bytes(x.message)

\* A body that may be handed to the handler.
Whole(x, body) ==
  /\ IsPrefix(body, x.message.body) /\ Len(body) <= x.message.length
  /\ Len(body) < x.message.length => x.closed

\* RightReplies, of one reply.
Right(x, r, called) ==
  /\ r.from = "file" => x.message.method = "GET" /\ ~called /\ IsPrefix(Root, Resolve(x.message.path))
  /\ r.from \in {"handler", "model"} \/ r.status = 500 => called
  /\ r.status = 400 =>
       x.closed \/ x.message.words < 2 \/ x.message.padding + x.message.words > HeaderLimit
  /\ r.from = "handler" => Handler[x.message.path] \in {"page", "json"}
  /\ r.from = "model" => Handler[x.message.path] = "ask"

\* What the server, at a place of its loop, knows of the connection x it reads.
Knows(s, x, called) ==
  /\ x.phase = "open" /\ x.message \in Messages
  /\ s.pc \in {"head", "body", "route"} => ~called
  /\ s.pc \in {"handler", "model"} => called
  /\ s.pc = "head" => /\ Cut(x.message, s.buf, x.stream \o x.rest)
                      /\ \A i \in 1..Len(s.buf) : s.buf[i] # End
  /\ s.pc = "body" => s.body \o (x.stream \o x.rest) = x.message.body
  /\ s.pc = "route" => Whole(x, s.body)
  /\ s.pc = "model" => Handler[x.message.path] \in {"ask", "ask_with_tools"}
  /\ s.pc = "reply" => Right(x, s.reply, called)

Called(c) == \E h \in handled : h.client = c

\* A refused call never answers.
Refused == At("model") /\ Does # "ask" => exchange.phase = "failed"

Serving == ~At("accept") => server.client \in Clients /\ Knows(server, Current, Called(server.client))

Waiting ==
  /\ \A i \in 1..Len(backlog) : /\ Unread(conn[backlog[i]])
                                /\ ~At("accept") => backlog[i] # server.client
  /\ \A i, j \in 1..Len(backlog) : backlog[i] = backlog[j] => i = j

\* Which connections have had their handler called.
Untouched ==
  \A c \in Clients : conn[c].phase = "away" \/ (\E i \in 1..Len(backlog) : backlog[i] = c) => ~Called(c)

Done == \A c \in Clients : conn[c].phase = "done" => Right(conn[c], conn[c].reply, Called(c))

Handed == \A h \in handled : conn[h.client].phase # "away" /\ Whole(conn[h.client], h.body)

IInv ==
  /\ Shapes
  /\ Billed
  /\ Refused
  /\ Serving
  /\ Waiting
  /\ Untouched
  /\ Done
  /\ Handed

-----------------------------------------------------------------------------
(* Sequences *)

(* The elements of a concatenation are those of its two parts.             *)
LEMMA Joined ==
  ASSUME NEW S, NEW a \in Seq(S), NEW b \in Seq(S)
  PROVE  /\ a \o b \in Seq(S)
         /\ Len(a \o b) = Len(a) + Len(b)
         /\ \A i \in 1..Len(a) : (a \o b)[i] = a[i]
         /\ \A i \in 1..Len(b) : (a \o b)[Len(a) + i] = b[i]
         /\ \A i \in 1..(Len(a) + Len(b)) : i > Len(a) => i - Len(a) \in 1..Len(b)
                                                   /\ (a \o b)[i] = b[i - Len(a)]
  OBVIOUS

(* What is appended comes last.                                            *)
LEMMA Appended ==
  ASSUME NEW S, NEW s \in Seq(S), NEW e \in S
  PROVE  /\ Append(s, e) \in Seq(S)
         /\ Len(Append(s, e)) = Len(s) + 1
         /\ Append(s, e)[Len(s) + 1] = e
         /\ \A i \in 1..Len(s) : Append(s, e)[i] = s[i]
  OBVIOUS

(* What is taken from a stream and what is left of it are the stream.      *)
LEMMA TakenAndLeft ==
  ASSUME NEW S, NEW a \in Seq(S), NEW n \in 0..Len(a)
  PROVE  /\ SubSeq(a, 1, n) \in Seq(S) /\ Len(SubSeq(a, 1, n)) = n
         /\ SubSeq(a, n + 1, Len(a)) \in Seq(S)
         /\ SubSeq(a, 1, n) \o SubSeq(a, n + 1, Len(a)) = a
  <1> DEFINE front == SubSeq(a, 1, n)
             back  == SubSeq(a, n + 1, Len(a))
  <1>1. /\ front \in Seq(S) /\ Len(front) = n
        /\ \A i \in 1..n : front[i] = a[i]
    BY SubSeqProperties
  <1>2. /\ back \in Seq(S) /\ Len(back) = Len(a) - n
        /\ \A i \in 1..(Len(a) - n) : back[i] = a[n + i]
    BY SubSeqProperties
  <1>3. front \o back \in Seq(S) /\ Len(front \o back) = Len(a)
    <2> HIDE DEF front, back
    <2>1. Len(a) \in Nat /\ n \in Nat
      BY LenProperties
    <2>2. /\ front \o back \in Seq(S) /\ Len(front \o back) = Len(front) + Len(back)
      BY <1>1, <1>2, Joined
    <2>3. n + (Len(a) - n) = Len(a)
      BY <2>1
    <2> QED BY <1>1, <1>2, <2>2, <2>3, Zenon
  <1>4. \A i \in 1..Len(a) : (front \o back)[i] = a[i]
    <2> SUFFICES ASSUME NEW i \in 1..Len(a) PROVE (front \o back)[i] = a[i]
      OBVIOUS
    <2> HIDE DEF front, back
    <2>0. Len(a) \in Nat /\ n \in Nat
      BY LenProperties
    <2>1. CASE i <= n
      BY <1>1, <1>2, <2>0, <2>1, Joined
    <2>2. CASE i > n
      <3>1. (front \o back)[i] = back[i - n]
        BY <1>1, <1>2, <2>0, <2>2, Joined
      <3>2. i - n \in 1..(Len(a) - n) /\ n + (i - n) = i
        BY <2>0, <2>2
      <3> QED BY <1>2, <3>1, <3>2
    <2>3. i <= n \/ i > n
      BY <2>0
    <2> QED BY <2>1, <2>2, <2>3, Zenon
  <1>5. front \o back = a
    BY <1>3, <1>4, SeqEqual
  <1> QED BY <1>1, <1>2, <1>5

(* Concatenation is associative.                                           *)
LEMMA Regrouped ==
  ASSUME NEW S, NEW a \in Seq(S), NEW b \in Seq(S), NEW c \in Seq(S)
  PROVE  (a \o b) \o c = a \o (b \o c)
  OBVIOUS

(* A prefix has the first elements of what it is a prefix of.               *)
LEMMA PrefixElements ==
  ASSUME NEW S, NEW p \in Seq(S), NEW s \in Seq(S)
  PROVE  IsPrefix(p, s) <=> Len(p) <= Len(s) /\ \A i \in 1..Len(p) : p[i] = s[i]
  <1>1. ASSUME Len(p) <= Len(s)
        PROVE  SubSeq(p, 1, Len(p)) = SubSeq(s, 1, Len(p)) <=> \A i \in 1..Len(p) : p[i] = s[i]
    <2>0. Len(p) \in Nat /\ Len(s) \in Nat
      BY LenProperties
    <2> DEFINE ps == SubSeq(p, 1, Len(p))
               ss == SubSeq(s, 1, Len(p))
    <2>1. /\ ps \in Seq(S) /\ Len(ps) = Len(p)
          /\ \A i \in 1..Len(p) : ps[i] = p[i]
      BY <2>0, SubSeqProperties
    <2>2. /\ ss \in Seq(S) /\ Len(ss) = Len(p)
          /\ \A i \in 1..Len(p) : ss[i] = s[i]
      BY <1>1, <2>0, SubSeqProperties
    <2> HIDE DEF ps, ss
    <2>3. ASSUME ps = ss, NEW i \in 1..Len(p) PROVE p[i] = s[i]
      BY <2>1, <2>2, <2>3, Zenon
    <2>4. ASSUME \A i \in 1..Len(p) : p[i] = s[i] PROVE ps = ss
      BY <2>1, <2>2, <2>4, SeqEqual
    <2> QED BY <2>3, <2>4 DEF ps, ss
  <1> QED BY <1>1, Zenon DEF IsPrefix

(* A prefix of a sequence is a prefix of what the sequence grows into.     *)
LEMMA PrefixGrows ==
  ASSUME NEW S, NEW p \in Seq(S), NEW s \in Seq(S), NEW t \in Seq(S), IsPrefix(p, s)
  PROVE  IsPrefix(p, s \o t)
  <1> DEFINE w == s \o t
  <1>1. Len(p) \in Nat /\ Len(s) \in Nat /\ Len(t) \in Nat
    BY LenProperties
  <1>2. /\ w \in Seq(S) /\ Len(w) = Len(s) + Len(t)
        /\ \A i \in 1..Len(s) : w[i] = s[i]
    BY Joined
  <1> HIDE DEF w
  <1>3. Len(p) <= Len(s) /\ \A i \in 1..Len(p) : p[i] = s[i]
    BY PrefixElements
  <1>4. Len(p) <= Len(w) /\ \A i \in 1..Len(p) : p[i] = w[i]
    BY <1>1, <1>2, <1>3
  <1>5. IsPrefix(p, w)
    BY <1>2, <1>4, PrefixElements
  <1> QED BY <1>5 DEF w

(* The beginning of a sequence is a prefix of the whole of it.             *)
LEMMA BeginningIsPrefix ==
  ASSUME NEW S, NEW a \in Seq(S), NEW b \in Seq(S), NEW n \in 0..Len(a)
  PROVE  IsPrefix(SubSeq(a, 1, n), a \o b)
  <1> DEFINE front == SubSeq(a, 1, n)
             whole == a \o b
  <1>1. /\ front \in Seq(S) /\ Len(front) = n
        /\ \A i \in 1..n : front[i] = a[i]
    BY SubSeqProperties
  <1>2. /\ whole \in Seq(S) /\ Len(whole) = Len(a) + Len(b)
        /\ \A i \in 1..n : whole[i] = a[i]
    OBVIOUS
  <1> HIDE DEF front, whole
  <1>3. /\ SubSeq(front, 1, n) \in Seq(S) /\ Len(SubSeq(front, 1, n)) = n
        /\ \A i \in 1..n : SubSeq(front, 1, n)[i] = front[i]
    BY <1>1, SubSeqProperties
  <1>4. /\ SubSeq(whole, 1, n) \in Seq(S) /\ Len(SubSeq(whole, 1, n)) = n
        /\ \A i \in 1..n : SubSeq(whole, 1, n)[i] = whole[i]
    BY <1>2, SubSeqProperties
  <1>5. SubSeq(front, 1, n) = SubSeq(whole, 1, n)
    BY <1>1, <1>2, <1>3, <1>4, SeqEqual
  <1> QED BY <1>1, <1>2, <1>5 DEF IsPrefix, front, whole

-----------------------------------------------------------------------------
(* The bytes of a request *)

(* The parts of a request have their sorts.                                *)
LEMMA MessageParts ==
  ASSUME NEW m \in Messages
  PROVE  m.words \in Nat /\ m.padding \in Nat /\ m.body \in Seq(Nat \ {0})
  BY ServeAssumption

(* A request has one blank line, and its body after it.                    *)
LEMMA OneBlankLine ==
  ASSUME NEW m \in Messages
  PROVE  /\ Bytes(m) \in Seq(Int)
         /\ Len(Bytes(m)) = m.words + m.padding + 1 + Len(m.body)
         /\ \A i \in 1..Len(Bytes(m)) : Bytes(m)[i] = End <=> i = m.words + m.padding + 1
         /\ \A i \in 1..Len(m.body) : m.body[i] = Bytes(m)[m.words + m.padding + 1 + i]
  <1> DEFINE h == m.words + m.padding
             line == Repeat(m.words, Line)
             pads == Repeat(m.padding, Pad)
  <1>1. m.words \in Nat /\ m.padding \in Nat /\ m.body \in Seq(Nat \ {0})
    BY MessageParts
  <1>2. line \in Seq(Int) /\ Len(line) = m.words /\ \A i \in 1..m.words : line[i] = 0
    BY <1>1 DEF Repeat, Line
  <1>3. pads \in Seq(Int) /\ Len(pads) = m.padding /\ \A i \in 1..m.padding : pads[i] = -1
    BY <1>1 DEF Repeat, Pad
  <1>4. m.body \in Seq(Int) /\ \A i \in 1..Len(m.body) : m.body[i] \in Nat \ {0}
    BY <1>1
  <1>5. Bytes(m) = ((line \o pads) \o <<-2>>) \o m.body
    BY <1>2, <1>3, <1>4 DEF Bytes, End
  <1> HIDE DEF line, pads
  <1> DEFINE front == line \o pads
  <1>6. front \in Seq(Int) /\ Len(front) = h /\ \A i \in 1..h : front[i] # -2
    <2> HIDE DEF line, pads
    <2>s. line \in Seq(Int) /\ pads \in Seq(Int)
      BY <1>2, <1>3
    <2>0. /\ front \in Seq(Int) /\ Len(front) = Len(line) + Len(pads)
          /\ \A i \in 1..Len(line) : front[i] = line[i]
          /\ \A i \in 1..(Len(line) + Len(pads)) : i > Len(line) => /\ i - Len(line) \in 1..Len(pads)
                                                               /\ front[i] = pads[i - Len(line)]
      BY <2>s, Joined
    <2> HIDE DEF front
    <2>1. front \in Seq(Int) /\ Len(front) = h
      BY <1>1, <1>2, <1>3, <2>0
    <2>2. ASSUME NEW i \in 1..h PROVE front[i] # -2
      <3>1. CASE i <= m.words
        <4>1. i \in 1..Len(line) /\ i \in 1..m.words
          BY <1>1, <1>2, <3>1
        <4>2. front[i] = 0
          BY <1>2, <2>0, <4>1
        <4> QED BY <4>2
      <3>2. CASE i > m.words
        <4>1. i - m.words \in 1..m.padding /\ front[i] = pads[i - m.words]
          BY <1>1, <1>2, <1>3, <2>0, <3>2
        <4> QED BY <1>3, <4>1
      <3>3. i <= m.words \/ i > m.words
        BY <1>1
      <3> QED BY <3>1, <3>2, <3>3, Zenon
    <2> QED BY <2>1, <2>2
  <1> HIDE DEF front
  <1> DEFINE head == front \o <<-2>>
  <1>7. /\ head \in Seq(Int) /\ Len(head) = h + 1
        /\ \A i \in 1..(h + 1) : head[i] = -2 <=> i = h + 1
    BY <1>1, <1>6
  <1> HIDE DEF head
  <1>8. Bytes(m) = head \o m.body
    BY <1>5 DEF head, front
  <1> DEFINE all == head \o m.body
  <1>9. /\ all \in Seq(Int) /\ Len(all) = h + 1 + Len(m.body)
        /\ \A i \in 1..(h + 1) : all[i] = head[i]
        /\ \A i \in 1..Len(m.body) : all[h + 1 + i] = m.body[i]
    <2>1. h + 1 \in Nat /\ Len(m.body) \in Nat
      BY <1>1, LenProperties
    <2> HIDE DEF h
    <2>s. head \in Seq(Int) /\ m.body \in Seq(Int)
      BY <1>4, <1>7
    <2>2. /\ all \in Seq(Int) /\ Len(all) = Len(head) + Len(m.body)
          /\ \A i \in 1..Len(head) : all[i] = head[i]
          /\ \A i \in 1..Len(m.body) : all[Len(head) + i] = m.body[i]
      BY <2>s, Joined
    <2> HIDE DEF all
    <2> QED BY <1>7, <2>1, <2>2
  <1> HIDE DEF all
  <1>10. \A i \in 1..Len(all) : all[i] = -2 <=> i = h + 1
    <2> SUFFICES ASSUME NEW i \in 1..Len(all) PROVE all[i] = -2 <=> i = h + 1
      OBVIOUS
    <2>1. CASE i <= h + 1
      BY <1>1, <1>7, <1>9, <2>1
    <2>2. CASE i > h + 1
      <3>1. i - (h + 1) \in 1..Len(m.body) /\ h + 1 + (i - (h + 1)) = i
        <4>1. h + 1 \in Nat /\ Len(m.body) \in Nat
          BY <1>1, LenProperties
        <4> HIDE DEF h
        <4> QED BY <1>9, <2>2, <4>1
      <3>2. all[i] = m.body[i - (h + 1)]
        BY <1>9, <3>1
      <3>3. all[i] # -2
        BY <1>4, <3>1, <3>2
      <3> QED BY <2>2, <3>3, <1>1
    <2> QED BY <1>1, <2>1, <2>2, <1>9
  <1> QED BY <1>8, <1>9, <1>10 DEF all, End


(* The blank line is found when it was read, and nothing else is: what     *)
(* follows it, with all that was not read, is the body.                    *)
LEMMA HeadFound ==
  ASSUME NEW m \in Messages, NEW buf \in Seq(Int), NEW tail \in Seq(Int),
          Cut(m, buf, tail)
  PROVE  /\ EndOfHead(buf) \in 0..Len(buf)
         /\ EndOfHead(buf) > 0 => /\ SubSeq(buf, EndOfHead(buf) + 1, Len(buf)) \in Seq(Int)
                                  /\ SubSeq(buf, EndOfHead(buf) + 1, Len(buf)) \o tail = m.body
         /\ EndOfHead(buf) = 0 => /\ \A i \in 1..Len(buf) : buf[i] # End
                                  /\ Len(buf) <= m.words + m.padding
  <1> DEFINE h == m.words + m.padding
             ends == {i \in 1..Len(buf) : buf[i] = End}
             all == buf \o tail
  <1>1. /\ h \in Nat /\ m.body \in Seq(Int)
        /\ Len(m.body) \in Nat /\ Len(buf) \in Nat /\ Len(tail) \in Nat
    BY ServeAssumption, LenProperties
  <1>2. /\ Len(all) = h + 1 + Len(m.body)
        /\ \A i \in 1..Len(all) : all[i] = End <=> i = h + 1
        /\ \A i \in 1..Len(m.body) : m.body[i] = all[h + 1 + i]
    <2>1. all = Bytes(m)
      BY DEF Cut
    <2> HIDE DEF all
    <2> QED BY <2>1, OneBlankLine
  <1>3. /\ all \in Seq(Int) /\ Len(all) = Len(buf) + Len(tail)
        /\ \A i \in 1..Len(buf) : all[i] = buf[i]
        /\ \A i \in 1..Len(tail) : all[Len(buf) + i] = tail[i]
    BY Joined
  <1> HIDE DEF h, all, ends
  <1>4. \A i \in 1..Len(buf) : buf[i] = End <=> i = h + 1
    <2> SUFFICES ASSUME NEW i \in 1..Len(buf) PROVE buf[i] = End <=> i = h + 1
      OBVIOUS
    <2>1. i \in 1..Len(all)
      BY <1>1, <1>3
    <2>2. all[i] = End <=> i = h + 1
      BY <1>2, <2>1, Zenon
    <2>3. all[i] = buf[i]
      BY <1>3, Zenon
    <2> QED BY <2>2, <2>3, Zenon
  <1>5. CASE h + 1 <= Len(buf)
    <2>1. h + 1 \in 1..Len(buf)
      BY <1>1, <1>5
    <2>2. ends = {h + 1}
      BY <1>4, <2>1 DEF ends
    <2>3. EndOfHead(buf) = h + 1
      BY <1>1, <2>2 DEF EndOfHead, Min, ends
    <2> DEFINE body == SubSeq(buf, h + 2, Len(buf))
    <2>4. /\ body \in Seq(Int) /\ Len(body) = Len(buf) - (h + 1)
          /\ \A i \in 1..(Len(buf) - (h + 1)) : body[i] = buf[h + 1 + i]
      BY <1>1, <1>5, SubSeqProperties
    <2> HIDE DEF body
    <2> DEFINE got == body \o tail
    <2>5. /\ got \in Seq(Int) /\ Len(got) = Len(body) + Len(tail)
          /\ \A i \in 1..Len(body) : got[i] = body[i]
          /\ \A i \in 1..(Len(body) + Len(tail)) :
               i > Len(body) => i - Len(body) \in 1..Len(tail) /\ got[i] = tail[i - Len(body)]
      <3> HIDE DEF got
      <3>1. got = body \o tail
        BY DEF got
      <3>2. /\ body \o tail \in Seq(Int) /\ Len(body \o tail) = Len(body) + Len(tail)
            /\ \A i \in 1..Len(body) : (body \o tail)[i] = body[i]
            /\ \A i \in 1..(Len(body) + Len(tail)) : i > Len(body) =>
                 i - Len(body) \in 1..Len(tail) /\ (body \o tail)[i] = tail[i - Len(body)]
        <4>1. body \in Seq(Int) /\ tail \in Seq(Int)
          BY <2>4
        <4> QED BY <4>1, Joined, SMTT(60)
      <3> QED BY <3>1, <3>2, Zenon
    <2> HIDE DEF got
    <2>6. Len(got) = Len(m.body)
      <3>1. Len(all) = h + 1 + Len(m.body) /\ Len(all) = Len(buf) + Len(tail)
        BY <1>2, <1>3
      <3>2. Len(body) = Len(buf) - (h + 1) /\ Len(got) = Len(body) + Len(tail)
        BY <2>4, <2>5
      <3> DEFINE b == Len(buf)
                 t == Len(tail)
                 lm == Len(m.body)
                 ly == Len(body)
                 lg == Len(got)
                 la == Len(all)
      <3>3. /\ b \in Nat /\ t \in Nat /\ lm \in Nat /\ h \in Nat
            /\ la = h + 1 + lm /\ la = b + t /\ ly = b - (h + 1) /\ lg = ly + t
        BY <1>1, <3>1, <3>2, Zenon
      <3> HIDE DEF b, t, lm, ly, lg, la
      <3>4. lg = lm
        BY <3>3
      <3> QED BY <3>4 DEF lg, lm
    <2>7. ASSUME NEW i \in 1..Len(got) PROVE got[i] = m.body[i]
      <3>1. m.body[i] = all[h + 1 + i]
        BY <1>2, <2>6
      <3>2. CASE i <= Len(body)
        <4>1. i \in 1..Len(body) /\ h + 1 + i \in 1..Len(buf)
          BY <1>1, <1>5, <2>4, <3>2
        <4>2. got[i] = buf[h + 1 + i]
          BY <2>4, <2>5, <4>1
        <4> QED BY <1>3, <3>1, <4>1, <4>2
      <3>3. CASE i > Len(body)
        <4>1. i - Len(body) \in 1..Len(tail) /\ got[i] = tail[i - Len(body)]
          BY <2>5, <3>3
        <4>2. h + 1 + i = Len(buf) + (i - Len(body))
          BY <1>1, <2>4
        <4> QED BY <1>3, <3>1, <4>1, <4>2
      <3>4. i <= Len(body) \/ i > Len(body)
        BY <1>1, <1>5, <2>4
      <3> QED BY <3>2, <3>3, <3>4, Zenon
    <2>8. got = m.body
      BY <1>1, <2>5, <2>6, <2>7, SeqEqual
    <2>9. h + 1 + 1 = h + 2 /\ h + 1 > 0 /\ h + 1 # 0
      BY <1>1
    <2>10. EndOfHead(buf) \in 0..Len(buf)
      BY <1>1, <1>5, <2>3
    <2>11. body = SubSeq(buf, EndOfHead(buf) + 1, Len(buf))
      BY <2>3, <2>9 DEF body
    <2> QED BY <2>3, <2>4, <2>8, <2>9, <2>10, <2>11, Zenon DEF got
  <1>6. CASE h + 1 > Len(buf)
    <2>1. ends = {}
      BY <1>1, <1>4, <1>6 DEF ends
    <2>2. EndOfHead(buf) = 0
      BY <2>1 DEF EndOfHead, ends
    <2>3. \A i \in 1..Len(buf) : buf[i] # End
      BY <2>1 DEF ends
    <2>4. Len(buf) <= h /\ 0 \in 0..Len(buf) /\ ~(0 > 0)
      BY <1>1, <1>6
    <2> QED BY <2>2, <2>3, <2>4 DEF h
  <1>7. h + 1 <= Len(buf) \/ h + 1 > Len(buf)
    BY <1>1
  <1> QED BY <1>5, <1>6, <1>7, Zenon

-----------------------------------------------------------------------------
(* Files *)

(* A path that is safe leads to a file under the root: appending plain     *)
(* segments never leaves it.                                               *)
LEMMA SafePathsStayInside ==
  ASSUME NEW path \in Seq(STRING), SafeAssetPath(path)
  PROVE  IsPrefix(Root, Resolve(path))
  <1> DEFINE n == Len(path)
             Steps(at) == [i \in 0..Len(path) |->
               CASE i = 0 -> Root
                 [] i > 0 /\ path[i] \in {"", "."} -> at[i - 1]
                 [] i > 0 /\ path[i] = ".." -> IF at[i - 1] = <<>> THEN <<>> ELSE Front(at[i - 1])
                 [] OTHER -> Append(at[i - 1], path[i])]
  <1>1. PICK F : Resolve(path) = F[Len(path)] /\ F = CHOOSE at : at = Steps(at)
    BY DEF Resolve
  <1>2. n \in Nat /\ \A i \in 1..n : path[i] \in STRING /\ Plain(path[i])
    BY LenProperties DEF SafeAssetPath
  <1>3. Root \in Seq(STRING)
    BY ServeAssumption
  <1>s. ASSUME NEW at PROVE /\ Steps(at)[0] = Root
                            /\ \A i \in 1..n : Steps(at)[i] = Append(at[i - 1], path[i])
    <2>1. 0 \in 0..n /\ \A i \in 1..n : i \in 0..n /\ i > 0 /\ i # 0
      BY <1>2
    <2>2. Steps(at)[0] = Root
      BY <2>1
    <2>3. ASSUME NEW i \in 1..n PROVE Steps(at)[i] = Append(at[i - 1], path[i])
      <3>1. path[i] \notin {"", "."} /\ path[i] # ".."
        BY <1>2, Zenon DEF Plain
      <3>2. i \in 0..n /\ i > 0 /\ i # 0
        BY <2>1
      <3> QED BY <3>1, <3>2, Zenon
    <2> QED BY <2>2, <2>3
  <1>4. \E at : at = Steps(at)
    <2> DEFINE W == [i \in 0..n |-> Root \o SubSeq(path, 1, i)]
    <2>1. W[0] = Root
      <3>1. SubSeq(path, 1, 0) = <<>>
        BY SubSeqEmpty
      <3>2. Root \o <<>> = Root
        BY <1>3, ConcatEmptySeq
      <3>3. 0 \in 0..n
        BY <1>2
      <3> QED BY <3>1, <3>2, <3>3
    <2>2. ASSUME NEW i \in 1..n PROVE W[i] = Append(W[i - 1], path[i])
      <3> DEFINE short == SubSeq(path, 1, i - 1)
                 long  == SubSeq(path, 1, i)
      <3>a. i \in Nat /\ i - 1 \in Nat /\ 1 <= i /\ i \in 0..n /\ i - 1 \in 0..n
        BY <1>2
      <3>b. (\A j \in 1..i : path[j] \in STRING) /\ \A j \in 1..(i - 1) : path[j] \in STRING
        BY <1>2
      <3>1. /\ long \in Seq(STRING) /\ Len(long) = i
            /\ \A j \in 1..i : long[j] = path[j]
        BY <3>a, <3>b, SubSeqProperties
      <3>2. /\ short \in Seq(STRING) /\ Len(short) = i - 1
            /\ \A j \in 1..(i - 1) : short[j] = path[j]
        BY <3>a, <3>b, SubSeqProperties
      <3>3. W[i] = Root \o long /\ W[i - 1] = Root \o short
        BY <3>a
      <3> HIDE DEF short, long, W
      <3>4. long = Append(short, path[i])
        BY <1>2, <3>1, <3>2
      <3>5. Root \o Append(short, path[i]) = Append(Root \o short, path[i])
        BY <1>2, <1>3, <3>2
      <3> QED BY <3>3, <3>4, <3>5
    <2> HIDE DEF W
    <2>3. ASSUME NEW i \in 0..n PROVE Steps(W)[i] = W[i]
      <3>1. i = 0 \/ i \in 1..n
        BY <1>2
      <3> QED BY <1>s, <2>1, <2>2, <3>1, Zenon
    <2>4. DOMAIN W = 0..n /\ W = [i \in 0..n |-> W[i]]
      BY DEF W
    <2>5. \A i \in 0..n : Steps(W)[i] = W[i]
      BY <2>3
    <2>6. Steps(W) = W
      BY <2>4, <2>5, Zenon
    <2> QED BY <2>6, Zenon
  <1>5. F = Steps(F)
    BY <1>1, <1>4, Zenon
  <1>6. /\ F[0] = Root
        /\ \A i \in 1..n : F[i] = Append(F[i - 1], path[i])
    BY <1>s, <1>5, Zenon
  <1> HIDE DEF Steps
  <1> DEFINE Inside(i) == F[i] \in Seq(STRING) /\ IsPrefix(Root, F[i])
             Bad == {i \in 0..n : ~Inside(i)}
  <1>7. Inside(0)
    BY <1>3, <1>6 DEF IsPrefix
  <1>8. ASSUME NEW i \in 1..n, Inside(i - 1) PROVE Inside(i)
    <2> DEFINE was == F[i - 1]
    <2>1. F[i] = was \o <<path[i]>> /\ was \in Seq(STRING) /\ <<path[i]>> \in Seq(STRING)
      <3>1. was \in Seq(STRING)
        BY <1>8, Zenon
      <3>2. F[i] = Append(was, path[i]) /\ path[i] \in STRING
        BY <1>2, <1>6, Zenon
      <3> HIDE DEF was
      <3> QED BY <3>1, <3>2
    <2> HIDE DEF was
    <2>2. was \o <<path[i]>> \in Seq(STRING)
      BY <2>1, Joined
    <2>3. IsPrefix(Root, was \o <<path[i]>>)
      BY <1>3, <1>8, <2>1, PrefixGrows DEF was
    <2> QED BY <2>1, <2>2, <2>3, Zenon
  <1>9. Bad = {}
    <2> SUFFICES ASSUME Bad # {} PROVE FALSE
      OBVIOUS
    <2> DEFINE R == OpToRel(<, Nat)
    <2>1. IsWellFoundedOn(R, Nat)
      BY NatLessThanWellFounded, Zenon
    <2>2. \A i, j \in Nat : j < i <=> <<j, i>> \in R
      BY DEF OpToRel
    <2>3. Bad \subseteq Nat
      BY <1>2
    <2> HIDE DEF Bad, R
    <2>4. PICK i \in Bad : \A j \in Bad : ~(<<j, i>> \in R)
      BY <2>1, <2>3, WFMin
    <2>5. i \in 0..n /\ ~Inside(i)
      BY DEF Bad
    <2>6. i # 0
      BY <1>7, <2>5
    <2>7. i - 1 \in 0..n /\ i - 1 \in Nat /\ i \in Nat /\ i \in 1..n /\ i - 1 < i
      BY <1>2, <2>5, <2>6
    <2>8. i - 1 \notin Bad
      BY <2>2, <2>4, <2>7, Zenon
    <2>9. Inside(i - 1)
      BY <2>7, <2>8, Zenon DEF Bad
    <2> QED BY <1>8, <2>5, <2>7, <2>9, Zenon
  <1>10. Inside(n)
    BY <1>2, <1>9
  <1> QED BY <1>1, <1>10


-----------------------------------------------------------------------------
(* The model adapter *)

(* The delays double, and all of them together are 7.5 seconds.            *)
LEMMA DelaysAddUp ==
  /\ Slept(0) = 0 /\ Slept(4) = 7500
  /\ \A a \in 0..3 : /\ Doubled(a) \in Nat /\ Slept(a) \in Nat /\ Slept(a) <= 7500
                     /\ Slept(a + 1) = Slept(a) + Doubled(a)
  <1>1. 2^0 = 1 /\ 2^1 = 2 /\ 2^2 = 4 /\ 2^3 = 8 /\ 2^4 = 16
    OBVIOUS
  <1>2. Slept(0) = 0 /\ Slept(1) = 500 /\ Slept(2) = 1500 /\ Slept(3) = 3500 /\ Slept(4) = 7500
    BY <1>1 DEF Slept
  <1>3. \A a \in 0..3 : a = 0 \/ a = 1 \/ a = 2 \/ a = 3
    OBVIOUS
  <1>4. Doubled(0) = 500 /\ Doubled(1) = 1000 /\ Doubled(2) = 2000 /\ Doubled(3) = 4000
    BY <1>1 DEF Doubled
  <1> QED BY <1>2, <1>3, <1>4

(* Without a header the adapter sleeps its own doubled delay, capped.      *)
LEMMA DelayWithoutHeader ==
  ASSUME NEW x
  PROVE  Delay(x, NoHeader) = Smaller(Doubled(x.attempt), RetryCap)
  BY Zenon DEF Delay, Doubled

(* A step of the adapter keeps the pace, counts what it sends, and is      *)
(* taken only by a call that is not over.                                  *)
LEMMA AdapterKeepsPace ==
  ASSUME exchange \in Exchanges, Paced(exchange), wire \in Nat, AdapterStep
  PROVE  /\ exchange' \in Exchanges /\ Paced(exchange')
         /\ wire' \in Nat /\ wire' - wire = exchange'.sent - exchange.sent
         /\ exchange.phase \in {"sending", "sent", "sleeping"} /\ exchange'.phase # "idle"
  <1>p. "idle" \in Phases /\ "sending" \in Phases /\ "sent" \in Phases /\ "sleeping" \in Phases
        /\ "answered" \in Phases /\ "failed" \in Phases
    BY DEF Phases
  <1>1. CASE Send
    <2>1. /\ exchange.phase = "sending" /\ wire' = wire + 1
          /\ exchange' = [exchange EXCEPT !.phase = "sent", !.sent = @ + 1]
      BY <1>1 DEF Send
    <2>2. exchange' \in Exchanges
      <3>1. exchange.sent + 1 \in Nat
        BY DEF Exchanges
      <3> QED BY <1>p, <2>1, <3>1, Zenon DEF Exchanges
    <2>3. /\ exchange'.phase = "sent" /\ exchange'.sent = exchange.sent + 1
          /\ exchange'.attempt = exchange.attempt /\ exchange'.waited = exchange.waited
          /\ exchange'.demanded = exchange.demanded
      BY <2>1 DEF Exchanges
    <2>4. exchange.attempt \in Nat /\ exchange.sent \in Nat
      BY DEF Exchanges
    <2>5. Paced(exchange')
      BY <2>1, <2>3, <2>4 DEF Paced, MaxRetries
    <2> QED BY <2>1, <2>2, <2>3, <2>4, <2>5
  <1>2. CASE exchange.phase = "sent" /\ exchange' = Failed(exchange) /\ UNCHANGED wire
    <2>1. Paced(exchange')
      BY <1>2, DelaysAddUp DEF Failed, Exchanges, Paced, MaxRetries
    <2> QED BY <1>p, <1>2, <2>1 DEF Failed, Exchanges
  <1>3. CASE ModelUnreachable
    BY <1>2, <1>3 DEF ModelUnreachable
  <1>4. CASE EndOfDelay
    <2>1. /\ exchange.phase = "sleeping" /\ wire' = wire
          /\ exchange' = [exchange EXCEPT !.phase = "sending", !.attempt = @ + 1]
      BY <1>4 DEF EndOfDelay
    <2>2. exchange' \in Exchanges
      <3>1. exchange.attempt + 1 \in Nat
        BY DEF Exchanges
      <3> QED BY <1>p, <2>1, <3>1, Zenon DEF Exchanges
    <2>3. /\ exchange'.phase = "sending" /\ exchange'.sent = exchange.sent
          /\ exchange'.attempt = exchange.attempt + 1 /\ exchange'.waited = exchange.waited
          /\ exchange'.demanded = exchange.demanded
      BY <2>1 DEF Exchanges
    <2>4. exchange.attempt \in Nat /\ exchange.sent \in Nat
      BY DEF Exchanges
    <2>5. Paced(exchange')
      BY <2>1, <2>3, <2>4 DEF Paced, MaxRetries
    <2> QED BY <2>1, <2>2, <2>3, <2>4, <2>5
  <1>5. ASSUME NEW status \in Statuses, Succeeds(status),
               NEW body \in Texts \cup Unreadable, ModelResponds(status, NoHeader, body)
        PROVE  /\ exchange' \in Exchanges /\ Paced(exchange')
               /\ wire' \in Nat /\ wire' - wire = exchange'.sent - exchange.sent
               /\ exchange.phase = "sent" /\ exchange'.phase # "idle"
    <2>1. exchange.phase = "sent" /\ exchange' = Answered(exchange, body) /\ UNCHANGED wire
      BY <1>5 DEF ModelResponds
    <2>2. CASE exchange' = Failed(exchange)
      BY <1>2, <2>1, <2>2
    <2>3. CASE exchange' = [exchange EXCEPT !.phase = "answered", !.value = body]
      <3>1. Paced(exchange')
        BY <2>1, <2>3 DEF Exchanges, Paced, MaxRetries
      <3>2. body \in Values
        BY DEF Values
      <3>3. exchange' \in Exchanges
        BY <1>p, <2>3, <3>2, Zenon DEF Exchanges
      <3>4. exchange'.sent = exchange.sent /\ exchange.sent \in Nat /\ exchange'.phase = "answered"
        BY <2>3 DEF Exchanges
      <3> QED BY <2>1, <3>1, <3>3, <3>4
    <2> QED BY <2>1, <2>2, <2>3 DEF Answered
  <1>6. ASSUME NEW status \in Statuses, ~Succeeds(status),
               NEW header \in Seconds \cup {NoHeader},
               ModelResponds(status, header, "none")
        PROVE  /\ exchange' \in Exchanges /\ Paced(exchange')
               /\ wire' \in Nat /\ wire' - wire = exchange'.sent - exchange.sent
               /\ exchange.phase = "sent" /\ exchange'.phase # "idle"
    <2>1. exchange.phase = "sent" /\ UNCHANGED wire
      BY <1>6 DEF ModelResponds
    <2>2. CASE exchange' = Failed(exchange)
      BY <1>2, <2>1, <2>2
    <2>3. CASE exchange' = Backoff(exchange, header) /\ ~Exhausted(exchange)
      <3> DEFINE a == exchange.attempt
                 demand == IF header = NoHeader THEN 0 ELSE 1000 * header
      <3>1. a \in 0..3
        BY <2>3 DEF Exchanges, Exhausted, MaxRetries
      <3>2. demand \in Nat /\ Delay(exchange, header) \in Nat
            /\ Delay(exchange, header) <= demand + Doubled(a)
        <4>1. CASE header = NoHeader
          <5> DEFINE d == Doubled(a)
          <5>1. d \in Nat
            BY <3>1, DelaysAddUp
          <5>2. Delay(exchange, header) = Smaller(d, RetryCap) /\ demand = 0
            <6>1. Delay(exchange, header) = Smaller(d, RetryCap)
              BY <4>1, DelayWithoutHeader
            <6>2. demand = 0
              BY <4>1, Zenon
            <6> QED BY <6>1, <6>2
          <5> HIDE DEF d, demand
          <5>3. Delay(exchange, header) \in Nat /\ Delay(exchange, header) <= 0 + d
            BY <5>1, <5>2 DEF Smaller, RetryCap
          <5> QED BY <5>2, <5>3 DEF d
        <4>2. CASE header \in Seconds /\ header # NoHeader
          <5> DEFINE d == Doubled(a)
          <5>1. d \in Nat
            BY <3>1, DelaysAddUp
          <5>2. Delay(exchange, header) = 1000 * header /\ demand = 1000 * header
            BY <4>2, Zenon DEF Delay
          <5>3. header \in Nat
            BY <4>2, AdapterAssumption
          <5>4. 1000 * header \in Nat
            BY <5>3
          <5> HIDE DEF d, demand
          <5>5. demand <= demand + d
            BY <5>1, <5>2, <5>4
          <5> QED BY <5>2, <5>4, <5>5 DEF d
        <4> QED BY <4>1, <4>2
      <3>3. exchange' = [exchange EXCEPT !.phase = "sleeping",
                                         !.waited = @ + Delay(exchange, header),
                                         !.demanded = @ + demand]
        BY <2>3 DEF Backoff
      <3> HIDE DEF demand
      <3>4. exchange' \in Exchanges
        <4>1. exchange.waited + Delay(exchange, header) \in Nat /\ exchange.demanded + demand \in Nat
          BY <3>2 DEF Exchanges
        <4> QED BY <1>p, <3>3, <4>1, Zenon DEF Exchanges
      <3>5. /\ exchange'.phase = "sleeping" /\ exchange'.attempt = a
            /\ exchange'.sent = exchange.sent /\ exchange.sent = a + 1
            /\ exchange'.waited = exchange.waited + Delay(exchange, header)
            /\ exchange'.demanded = exchange.demanded + demand
            /\ exchange.waited <= exchange.demanded + Slept(a)
        BY <2>1, <3>3 DEF Exchanges, Paced
      <3>6. exchange'.waited <= exchange'.demanded + Slept(a + 1)
        <4>1. exchange.waited \in Nat /\ exchange.demanded \in Nat
          BY DEF Exchanges
        <4> DEFINE d == Doubled(a)
                   sa == Slept(a)
                   sb == Slept(a + 1)
                   w == exchange.waited
                   dm == exchange.demanded
                   dl == Delay(exchange, header)
        <4>2. d \in Nat /\ sa \in Nat /\ sb = sa + d
          BY <3>1, DelaysAddUp
        <4>3. dl \in Nat /\ dl <= demand + d /\ w <= dm + sa /\ demand \in Nat
              /\ exchange'.waited = w + dl /\ exchange'.demanded = dm + demand
          BY <3>2, <3>5
        <4> HIDE DEF d, sa, sb, w, dm, dl
        <4>4. w \in Nat /\ dm \in Nat
          BY <4>1 DEF w, dm
        <4>5. w + dl <= (dm + demand) + sb
          BY <4>2, <4>3, <4>4
        <4> QED BY <4>3, <4>5 DEF sb
      <3>7. Slept(a + 1) <= Slept(4) /\ Slept(a + 1) \in Nat /\ Slept(4) \in Nat
        <4>1. a + 1 \in 0..3 \/ a + 1 = 4
          BY <3>1
        <4> QED BY <4>1, DelaysAddUp
      <3>8. exchange'.waited <= exchange'.demanded + Slept(4)
        BY <3>4, <3>6, <3>7 DEF Exchanges
      <3>9. Paced(exchange')
        BY <3>1, <3>5, <3>6, <3>8 DEF Paced, MaxRetries
      <3> QED BY <2>1, <3>4, <3>5, <3>9 DEF Exchanges
    <2> QED BY <1>6, <2>2, <2>3 DEF ModelResponds
  <1> QED BY <1>1, <1>2, <1>3, <1>4, <1>5, <1>6 DEF AdapterStep

-----------------------------------------------------------------------------
(* Connections *)

\* What may happen to a connection meanwhile.
Later(x, y) ==
  /\ y.phase = x.phase /\ y.message = x.message /\ y.reply = x.reply
  /\ y.stream \o y.rest = x.stream \o x.rest
  /\ x.closed => y.closed

(* What the server knows of a connection, and what holds of a connection   *)
(* that waits or is done, stays true whatever the client does meanwhile.   *)
LEMMA StaysTrue ==
  ASSUME NEW x, NEW y, Later(x, y), NEW called
  PROVE  /\ \A s : Knows(s, x, called) => Knows(s, y, called)
         /\ Unread(x) => Unread(y)
         /\ \A r : Right(x, r, called) => Right(y, r, called)
         /\ \A b : Whole(x, b) => Whole(y, b)
  <1>1. y.message = x.message /\ y.phase = x.phase /\ (x.closed => y.closed)
        /\ y.stream \o y.rest = x.stream \o x.rest
    BY DEF Later
  <1>2. Unread(x) => Unread(y)
    BY <1>1, Zenon DEF Unread
  <1>3. \A b : Whole(x, b) => Whole(y, b)
    BY <1>1, Zenon DEF Whole
  <1>4. \A r : Right(x, r, called) => Right(y, r, called)
    <2> SUFFICES ASSUME NEW r, Right(x, r, called) PROVE Right(y, r, called)
      OBVIOUS
    <2>1. r.status = 400 =>
            y.closed \/ y.message.words < 2 \/ y.message.padding + y.message.words > HeaderLimit
      BY <1>1, Zenon DEF Right
    <2>2. /\ r.from = "file" =>
               y.message.method = "GET" /\ ~called /\ IsPrefix(Root, Resolve(y.message.path))
          /\ r.from = "handler" => Handler[y.message.path] \in {"page", "json"}
          /\ r.from = "model" => Handler[y.message.path] = "ask"
      BY <1>1, Zenon DEF Right
    <2>3. r.from \in {"handler", "model"} \/ r.status = 500 => called
      BY Zenon DEF Right
    <2> QED BY <2>1, <2>2, <2>3, Zenon DEF Right
  <1>5. ASSUME NEW s, Knows(s, x, called) PROVE Knows(s, y, called)
    BY <1>1, <1>3, <1>4, <1>5, Zenon DEF Knows
  <1> QED BY <1>2, <1>3, <1>4, <1>5

(* A client's own steps keep the invariant.                                *)
LEMMA ClientKeeps ==
  ASSUME IInv, NEW c \in Clients, NEW y \in Connections, Later(conn[c], y),
         conn' = [conn EXCEPT ![c] = y],
         UNCHANGED <<adapterVars, backlog, server, calls, dropped, handled>>
  PROVE  IInv'
  <1> USE DEF adapterVars
  <1>1. conn \in [Clients -> Connections] /\ conn' \in [Clients -> Connections]
    BY DEF IInv, Shapes
  <1>2. \A d \in Clients : Later(conn[d], conn'[d])
    BY <1>1 DEF Later
  <1>3. Shapes'
    BY <1>1 DEF IInv, Shapes
  <1>4. Billed'
    BY DEF IInv, Billed, At
  <1>5. ASSUME ~At("accept")
        PROVE  server.client \in Clients
    BY <1>5 DEF IInv, Serving
  <1>6. Refused'
    <2> SUFFICES ASSUME At("model"), Does' # "ask" PROVE exchange.phase = "failed"
      BY DEF Refused, At
    <2>1. server.client \in Clients
      BY <1>5 DEF At
    <2>2. Does' = Does
      BY <1>2, <2>1 DEF Does, Message, Current, Later
    <2> QED BY <2>2 DEF IInv, Refused
  <1>7. Serving'
    <2> SUFFICES ASSUME ~At("accept")
                 PROVE  server.client \in Clients
                        /\ Knows(server, conn'[server.client], Called(server.client))
      BY DEF Serving, At, Current, Called
    <2>1. Knows(server, conn[server.client], Called(server.client)) /\ server.client \in Clients
      BY DEF IInv, Serving, Current
    <2> QED BY <1>2, <2>1, StaysTrue
  <1>8. Waiting'
    <2>1. \A i \in 1..Len(backlog) : backlog[i] \in Clients
      BY DEF IInv, Shapes
    <2>2. ASSUME NEW i \in 1..Len(backlog) PROVE Unread(conn'[backlog[i]])
      <3>1. Unread(conn[backlog[i]])
        BY DEF IInv, Waiting
      <3> QED BY <1>2, <2>1, <3>1, StaysTrue
    <2> QED BY <2>2 DEF IInv, Waiting, At
  <1>9. Untouched'
    <2>1. \A d \in Clients : conn'[d].phase = conn[d].phase
      BY <1>2 DEF Later
    <2>2. \A d \in Clients : Called(d)' <=> Called(d)
      BY DEF Called
    <2>3. Untouched
      BY DEF IInv
    <2> QED BY <2>1, <2>2, <2>3 DEF Untouched
  <1>10. Done'
    <2> SUFFICES ASSUME NEW d \in Clients, conn'[d].phase = "done"
                 PROVE  Right(conn'[d], conn'[d].reply, Called(d))
      BY DEF Done, Called
    <2>1. conn[d].phase = "done" /\ conn'[d].reply = conn[d].reply
      BY <1>2 DEF Later
    <2>2. Right(conn[d], conn[d].reply, Called(d))
      BY <2>1 DEF IInv, Done
    <2> QED BY <1>2, <2>1, <2>2, StaysTrue
  <1>11. Handed'
    <2> SUFFICES ASSUME NEW h \in handled
                 PROVE  conn'[h.client].phase # "away" /\ Whole(conn'[h.client], h.body)
      BY DEF Handed
    <2>1. h.client \in Clients
      BY DEF IInv, Shapes
    <2>2. conn[h.client].phase # "away" /\ Whole(conn[h.client], h.body)
      BY DEF IInv, Handed
    <2>3. conn'[h.client].phase = conn[h.client].phase
      BY <1>2, <2>1 DEF Later
    <2> QED BY <1>2, <2>1, <2>2, <2>3, StaysTrue
  <1> QED BY <1>3, <1>4, <1>6, <1>7, <1>8, <1>9, <1>10, <1>11 DEF IInv

(* More bytes arrive.                                                      *)
LEMMA ArriveKeeps ==
  ASSUME IInv, NEW c \in Clients, NEW n \in 1..Len(conn[c].rest), Arrive(c, n)
  PROVE  IInv'
  <1> DEFINE x == conn[c]
             front == SubSeq(x.rest, 1, n)
             back  == SubSeq(x.rest, n + 1, Len(x.rest))
             y == [x EXCEPT !.stream = @ \o front, !.rest = back]
  <1>1. x \in Connections /\ conn \in [Clients -> Connections]
    BY DEF IInv, Shapes
  <1>2. x.rest \in Seq(Int) /\ x.stream \in Seq(Int)
    BY <1>1 DEF Connections
  <1>3. n \in 0..Len(x.rest)
    BY <1>2, LenProperties
  <1>4. front \in Seq(Int) /\ back \in Seq(Int) /\ front \o back = x.rest
    BY <1>2, <1>3, TakenAndLeft
  <1>5. conn' = [conn EXCEPT ![c] = y]
    BY <1>1 DEF Arrive, Connections
  <1> HIDE DEF front, back
  <1>6. x.stream \o front \in Seq(Int)
    BY <1>2, <1>4, Joined
  <1>7. y \in Connections
    BY <1>1, <1>4, <1>6, Zenon DEF Connections
  <1>8. (x.stream \o front) \o back = x.stream \o x.rest
    <2> DEFINE st == x.stream
    <2>1. st \in Seq(Int)
      BY <1>2
    <2> HIDE DEF st
    <2>2. front \in Seq(Int) /\ back \in Seq(Int)
      BY <1>4
    <2>3. (st \o front) \o back = st \o (front \o back)
      BY <2>1, <2>2, Regrouped
    <2> QED BY <1>4, <2>3, Zenon DEF st
  <1>9. Later(x, y)
    BY <1>1, <1>8 DEF Later, Connections
  <1> HIDE DEF y
  <1> QED BY <1>5, <1>7, <1>9, ClientKeeps DEF Arrive

(* A client goes away.                                                     *)
LEMMA HangupKeeps ==
  ASSUME IInv, NEW c \in Clients, Hangup(c)
  PROVE  IInv'
  <1> DEFINE x == conn[c]
             y == [x EXCEPT !.closed = TRUE]
  <1>1. x \in Connections /\ conn \in [Clients -> Connections]
    BY DEF IInv, Shapes
  <1>2. conn' = [conn EXCEPT ![c] = y]
    BY DEF Hangup
  <1>3. y \in Connections
    <2>1. TRUE \in BOOLEAN
      OBVIOUS
    <2> QED BY <1>1, <2>1, Zenon DEF Connections
  <1>4. Later(x, y)
    BY <1>1 DEF Connections, Later
  <1> HIDE DEF y
  <1> QED BY <1>2, <1>3, <1>4, ClientKeeps DEF Hangup


(* A client that never connected.                                          *)
LEMMA AwayIsConnection ==
  /\ Away \in Connections /\ Listening \in Servers
  /\ Away.phase = "away" /\ Away.stream = <<>>
  <1>1. Away.reply \in Answers
    <2>1. 0 \in Nat
      OBVIOUS
    <2>2. Away.reply = [status |-> 0, from |-> "none"]
      BY DEF Away
    <2>3. "none" \in Origins
      BY Zenon DEF Origins
    <2>4. [status |-> 0, from |-> "none"] \in Answers
      BY <2>1, <2>3 DEF Answers
    <2> QED BY <2>2, <2>4, Zenon
  <1>2. <<>> \in Seq(Int) /\ FALSE \in BOOLEAN
    OBVIOUS
  <1> DEFINE r == Away.reply
  <1>3. Away = [phase |-> "away", message |-> NoMessage, rest |-> <<>>, stream |-> <<>>,
                closed |-> FALSE, reply |-> r]
    BY DEF Away
  <1>4. Listening = [pc |-> "accept", client |-> "none", buf |-> <<>>, body |-> <<>>, reply |-> r]
    BY Zenon DEF Listening
  <1> HIDE DEF r
  <1>5. Away \in Connections
    <2>1. "away" \in {"away", "open", "done"} /\ NoMessage \in Messages \cup {NoMessage} /\ r \in Answers
      BY <1>1, Zenon DEF r
    <2> QED BY <1>2, <1>3, <2>1, Zenon DEF Connections
  <1>6. Listening \in Servers
    <2>1. "accept" \in Pcs /\ "none" \in Clients \cup {"none"} /\ r \in Answers
      BY <1>1, Zenon DEF r, Pcs
    <2> QED BY <1>2, <1>4, <2>1, Zenon DEF Servers
  <1> QED BY <1>3, <1>5, <1>6

(* A client connects, for the first time.                                  *)
LEMMA ConnectKeeps ==
  ASSUME IInv, NEW c \in Clients, NEW m \in Messages, Connect(c, m)
  PROVE  IInv'
  <1> USE DEF adapterVars
  <1> DEFINE y == [Away EXCEPT !.phase = "open", !.message = m, !.rest = Bytes(m)]
             n == Len(backlog)
  <1>1. /\ conn[c].phase = "away" /\ conn' = [conn EXCEPT ![c] = y]
        /\ backlog' = Append(backlog, c)
        /\ UNCHANGED <<exchange, wire, server, calls, dropped, handled>>
    BY DEF Connect
  <1>2. conn \in [Clients -> Connections] /\ backlog \in Seq(Clients) /\ n \in Nat
    BY LenProperties DEF IInv, Shapes
  <1>3. Bytes(m) \in Seq(Int)
    BY OneBlankLine
  <1>4. /\ y.phase = "open" /\ y.message = m /\ y.rest = Bytes(m) /\ y.stream = <<>>
        /\ y \in Connections
    <2>1. Away \in Connections /\ Away.stream = <<>> /\ "open" \in {"away", "open", "done"}
      BY AwayIsConnection
    <2>2. y.phase = "open" /\ y.message = m /\ y.rest = Bytes(m) /\ y.stream = Away.stream
      BY <2>1 DEF Connections
    <2>3. y \in Connections
      BY <1>3, <2>1, Zenon DEF Connections
    <2> HIDE DEF y
    <2> QED BY <2>1, <2>2, <2>3
  <1>5. Unread(y)
    <2>1. <<>> \o Bytes(m) = Bytes(m)
      BY <1>3, ConcatEmptySeq
    <2> QED BY <1>4, <2>1 DEF Unread
  <1> HIDE DEF y
  <1>6. conn'[c] = y /\ \A d \in Clients : d # c => conn'[d] = conn[d]
    BY <1>1, <1>2
  <1>7. /\ Len(backlog') = n + 1 /\ backlog'[n + 1] = c
        /\ \A i \in 1..n : backlog'[i] = backlog[i]
    <2>1. /\ Len(Append(backlog, c)) = n + 1 /\ Append(backlog, c)[n + 1] = c
          /\ \A i \in 1..n : Append(backlog, c)[i] = backlog[i]
      BY <1>2, Appended
    <2>2. backlog' = Append(backlog, c)
      BY <1>1
    <2> QED BY <2>1, <2>2, Zenon
  <1>8. \A i \in 1..n : backlog[i] \in Clients /\ backlog[i] # c
    <2> SUFFICES ASSUME NEW i \in 1..n PROVE backlog[i] \in Clients /\ backlog[i] # c
      OBVIOUS
    <2>1. backlog[i] \in Clients
      BY <1>2, ElementOfSeq
    <2>2. conn[backlog[i]].phase = "open"
      BY DEF IInv, Waiting, Unread
    <2> QED BY <1>1, <2>1, <2>2
  <1>9. ~At("accept") => server.client \in Clients /\ server.client # c
    BY <1>1 DEF IInv, Serving, Knows, Current
  <1>10. ~Called(c)
    BY <1>1 DEF IInv, Untouched
  <1>11. \A h \in handled : h.client \in Clients /\ h.client # c
    BY <1>10 DEF Called, IInv, Shapes
  <1>12. \A i \in 1..(n + 1) : i \in 1..n \/ i = n + 1
    BY <1>2
  <1>13. Shapes'
    <2>1. conn' \in [Clients -> Connections]
      BY <1>1, <1>2, <1>4
    <2>2. backlog' \in Seq(Clients)
      BY <1>1, <1>2
    <2> QED BY <1>1, <2>1, <2>2 DEF IInv, Shapes
  <1>14. Billed'
    BY <1>1 DEF IInv, Billed, At
  <1>15. Refused'
    <2> SUFFICES ASSUME At("model"), Does' # "ask" PROVE exchange.phase = "failed"
      BY <1>1 DEF Refused, At
    <2>1. Does' = Does
      BY <1>1, <1>6, <1>9 DEF Does, Message, Current, At
    <2> QED BY <2>1 DEF IInv, Refused
  <1>16. Serving'
    BY <1>1, <1>6, <1>9 DEF IInv, Serving, Current, Called, At
  <1>17. Waiting'
    <2>1. ASSUME NEW i \in 1..(n + 1)
          PROVE  Unread(conn'[backlog'[i]]) /\ (~At("accept") => backlog'[i] # server.client)
      BY <1>5, <1>6, <1>7, <1>8, <1>9, <1>12 DEF IInv, Waiting
    <2>2. ASSUME NEW i \in 1..(n + 1), NEW j \in 1..(n + 1), backlog'[i] = backlog'[j] PROVE i = j
      <3>1. CASE i \in 1..n /\ j \in 1..n
        BY <1>7, <2>2, <3>1 DEF IInv, Waiting
      <3>2. CASE i = n + 1 \/ j = n + 1
        BY <1>7, <1>8, <1>12, <2>2, <3>2
      <3> QED BY <1>12, <3>1, <3>2
    <2> QED BY <1>1, <1>7, <2>1, <2>2 DEF Waiting, At
  <1>18. Untouched'
    <2> SUFFICES ASSUME NEW d \in Clients,
                        conn'[d].phase = "away" \/ \E i \in 1..(n + 1) : backlog'[i] = d
                 PROVE  ~Called(d)
      BY <1>1, <1>7 DEF Untouched, Called
    <2>1. CASE d = c
      BY <1>10, <2>1
    <2>2. CASE d # c
      <3>1. conn[d].phase = "away" \/ \E i \in 1..n : backlog[i] = d
        BY <1>6, <1>7, <1>12, <2>2
      <3> QED BY <3>1 DEF IInv, Untouched
    <2> QED BY <2>1, <2>2
  <1>19. Done'
    BY <1>1, <1>4, <1>6 DEF IInv, Done, Called
  <1>20. Handed'
    BY <1>1, <1>6, <1>11 DEF IInv, Handed
  <1> QED BY <1>13, <1>14, <1>15, <1>16, <1>17, <1>18, <1>19, <1>20 DEF IInv


-----------------------------------------------------------------------------
(* The server *)

\* Of the connections only the one being served changes, and that only in what is left to read.
OnlyCurrent ==
  /\ conn' \in [Clients -> Connections]
  /\ \A d \in Clients : d # server.client => conn'[d] = conn[d]
  /\ server.client \in Clients =>
       LET x == conn[server.client]
           y == conn'[server.client]
       IN y.phase = x.phase /\ y.message = x.message /\ y.closed = x.closed

(* Between two requests the server changes nothing that others see: what   *)
(* it knows next of its own connection is all there is to show.            *)
LEMMA ServerKeeps ==
  ASSUME IInv, ~At("accept"), server'.pc # "accept", server'.client = server.client,
         UNCHANGED <<backlog, handled>>, OnlyCurrent,
         Knows(server', conn'[server.client], Called(server.client))
  PROVE  Serving' /\ Waiting' /\ Untouched' /\ Done' /\ Handed'
  <1>1. server.client \in Clients /\ conn[server.client].phase = "open"
    BY DEF IInv, Serving, Knows, Current
  <1>2. \A d \in Clients : conn'[d].phase = conn[d].phase
    BY <1>1 DEF OnlyCurrent
  <1>3. \A d \in Clients : d # server.client => conn'[d] = conn[d]
    BY DEF OnlyCurrent
  <1>4. Called(server.client)' = Called(server.client) /\ \A d \in Clients : Called(d)' = Called(d)
    BY DEF Called
  <1>5. Serving'
    BY <1>1, <1>4 DEF Serving, Current
  <1>6. Waiting'
    <2>1. ASSUME NEW i \in 1..Len(backlog)
          PROVE  Unread(conn'[backlog[i]]) /\ backlog[i] # server.client
      <3>1. backlog[i] \in Clients
        BY ElementOfSeq DEF IInv, Shapes
      <3>2. Unread(conn[backlog[i]]) /\ backlog[i] # server.client
        BY DEF IInv, Waiting
      <3> QED BY <1>3, <3>1, <3>2
    <2> QED BY <2>1 DEF IInv, Waiting, At
  <1>7. Untouched'
    BY <1>2, <1>4 DEF IInv, Untouched
  <1>8. Done'
    <2> SUFFICES ASSUME NEW d \in Clients, conn'[d].phase = "done"
                 PROVE  Right(conn'[d], conn'[d].reply, Called(d))
      BY <1>4 DEF Done
    <2>1. conn[d].phase = "done" /\ conn'[d] = conn[d]
      BY <1>1, <1>2, <1>3
    <2> QED BY <2>1 DEF IInv, Done
  <1>9. Handed'
    <2> SUFFICES ASSUME NEW h \in handled
                 PROVE  conn'[h.client].phase # "away" /\ Whole(conn'[h.client], h.body)
      BY DEF Handed
    <2>1. h.client \in Clients
      BY DEF IInv, Shapes
    <2>2. conn[h.client].phase # "away" /\ Whole(conn[h.client], h.body)
      BY DEF IInv, Handed
    <2>3. conn'[h.client].message = conn[h.client].message /\ conn'[h.client].closed = conn[h.client].closed
      BY <1>1, <1>3, <2>1 DEF OnlyCurrent
    <2> QED BY <1>2, <2>1, <2>2, <2>3 DEF Whole
  <1> QED BY <1>5, <1>6, <1>7, <1>8, <1>9

(* Away from the model nothing is billed.                                  *)
LEMMA NothingBilled ==
  ASSUME IInv, ~At("model"), server'.pc # "model", UNCHANGED <<exchange, wire, calls, dropped>>
  PROVE  Billed' /\ Refused'
  BY DEF IInv, Billed, Refused, At

(* Replying.                                                               *)
LEMMA RepliesOnce ==
  ASSUME server \in Servers, NEW status \in Nat, NEW from \in Origins,
         Replies(status, from)
  PROVE  /\ server' \in Servers
         /\ server'.pc = "reply" /\ server'.client = server.client
         /\ server'.reply = [status |-> status, from |-> from]
  <1>1. "reply" \in Pcs
    BY DEF Pcs
  <1>2. [status |-> status, from |-> from] \in Answers
    BY DEF Answers
  <1> DEFINE r == [status |-> status, from |-> from]
  <1>3. server' = [server EXCEPT !.pc = "reply", !.reply = r]
    BY DEF Replies
  <1>4. r \in Answers
    BY <1>2
  <1> HIDE DEF r
  <1>5. server' \in Servers
    BY <1>1, <1>3, <1>4, Zenon DEF Servers
  <1>6. server'.pc = "reply" /\ server'.client = server.client /\ server'.reply = r
    BY <1>3 DEF Servers
  <1> QED BY <1>5, <1>6 DEF r

(* A reply that is right for its connection, with nothing else done.       *)
LEMMA RightReplyKeeps ==
  ASSUME IInv, ~At("accept"), ~At("model"), OnlyCurrent,
         UNCHANGED <<exchange, wire, backlog, calls, dropped, handled>>,
         NEW status \in Nat, NEW from \in Origins,
         Replies(status, from),
         Right(conn'[server.client], [status |-> status, from |-> from],
               Called(server.client))
  PROVE  IInv'
  <1> DEFINE r == [status |-> status, from |-> from]
             y == conn'[server.client]
             called == Called(server.client)
  <1>1. server \in Servers
    BY DEF IInv, Shapes
  <1>2. server' \in Servers /\ server'.pc = "reply" /\ server'.client = server.client /\ server'.reply = r
    BY <1>1, RepliesOnce
  <1>3. Shapes'
    BY <1>2 DEF IInv, Shapes, OnlyCurrent
  <1>4. y.phase = "open" /\ y.message \in Messages
    BY DEF IInv, Serving, Knows, Current, OnlyCurrent
  <1>5. Right(y, r, called)
    OBVIOUS
  <1> HIDE DEF r, y, called
  <1>6. Knows(server', y, called)
    BY <1>2, <1>4, <1>5 DEF Knows
  <1>7. Serving' /\ Waiting' /\ Untouched' /\ Done' /\ Handed'
    BY <1>2, <1>6, ServerKeeps DEF y, called
  <1>8. Billed' /\ Refused'
    BY <1>2, NothingBilled
  <1> QED BY <1>3, <1>7, <1>8 DEF IInv


(* Reading takes the beginning of the stream.                              *)
LEMMA ConsumeTakes ==
  ASSUME IInv, ~At("accept"), Consume
  PROVE  /\ OnlyCurrent
         /\ conn'[server.client].rest = Current.rest
         /\ conn'[server.client].stream \in Seq(Int) /\ Taken \in Seq(Int)
         /\ Taken \o conn'[server.client].stream = Current.stream
  <1> DEFINE c == server.client
             x == conn[c]
             n == Smaller(Chunk, Len(x.stream))
             left == SubSeq(x.stream, n + 1, Len(x.stream))
             y == [x EXCEPT !.stream = left]
  <1>1. c \in Clients /\ conn \in [Clients -> Connections] /\ x \in Connections
    BY DEF IInv, Serving, Shapes
  <1>2. x.stream \in Seq(Int) /\ x.rest \in Seq(Int) /\ Len(x.stream) \in Nat
    BY <1>1, LenProperties DEF Connections
  <1>3. n \in 0..Len(x.stream)
    BY <1>2, ServeAssumption DEF Smaller
  <1>4. Taken = SubSeq(x.stream, 1, n)
    BY DEF Taken, Current
  <1>5. /\ Taken \in Seq(Int) /\ Len(Taken) = n /\ left \in Seq(Int)
        /\ Taken \o left = x.stream
    BY <1>2, <1>3, <1>4, TakenAndLeft
  <1>6. conn' = [conn EXCEPT ![c] = y]
    BY <1>5 DEF Consume
  <1> HIDE DEF n, left
  <1>7. /\ y.phase = x.phase /\ y.message = x.message /\ y.closed = x.closed
        /\ y.stream = left /\ y.rest = x.rest
    BY <1>1 DEF Connections
  <1>8. y \in Connections
    BY <1>1, <1>5, Zenon DEF Connections
  <1> HIDE DEF y
  <1>9. conn' \in [Clients -> Connections] /\ conn'[c] = y /\ \A d \in Clients : d # c => conn'[d] = conn[d]
    BY <1>1, <1>6, <1>8
  <1> QED BY <1>5, <1>7, <1>9 DEF OnlyCurrent, Current

\* t was at the beginning of what is left, and is now at the end of what was taken.
Moves(b, t, s, r) == (b \o t) \o (s \o r) = b \o ((t \o s) \o r)

(* The bytes taken move from what is left of a request to what was taken.  *)
LEMMA CutMoves ==
  ASSUME NEW b \in Seq(Int), NEW t \in Seq(Int), NEW s \in Seq(Int), NEW r \in Seq(Int)
  PROVE  Moves(b, t, s, r)
  <1>4. (t \o s) \o r = t \o (s \o r)
    OBVIOUS
  <1>1. s \o r \in Seq(Int)
    BY Joined
  <1>2. PICK q \in Seq(Int) : q = s \o r
    BY <1>1
  <1>3. (b \o t) \o q = b \o (t \o q)
    OBVIOUS
  <1> QED BY <1>2, <1>3, <1>4, Zenon DEF Moves

(* One read of the headers.                                                *)
LEMMA ReadHeadKeeps ==
  ASSUME IInv, ReadHead
  PROVE  IInv'
  <1> USE DEF adapterVars
  <1> DEFINE c == server.client
             x == conn[c]
             y == conn'[c]
             called == Called(c)
             buf == server.buf \o Taken
             end == EndOfHead(buf)
             tail == y.stream \o y.rest
             m == y.message
             body == SubSeq(buf, end + 1, Len(buf))
  <1>1. /\ At("head") /\ Consume
        /\ UNCHANGED <<exchange, wire, backlog, calls, dropped, handled>>
    BY DEF ReadHead
  <1>2. ~At("accept") /\ ~At("model")
    BY <1>1 DEF At
  <1>3. server \in Servers /\ c \in Clients /\ x \in Connections
    BY <1>2 DEF IInv, Serving, Shapes
  <1>4. /\ OnlyCurrent /\ y.rest = x.rest
        /\ y.stream \in Seq(Int) /\ Taken \in Seq(Int) /\ Taken \o y.stream = x.stream
    BY <1>1, <1>2, ConsumeTakes DEF Current
  <1>5. y.phase = "open" /\ y.message = x.message /\ y.closed = x.closed /\ m \in Messages
    BY <1>2, <1>3, <1>4 DEF IInv, Serving, Knows, Current, OnlyCurrent
  <1>6. /\ Cut(m, server.buf, x.stream \o x.rest) /\ ~called
        /\ \A i \in 1..Len(server.buf) : server.buf[i] # End
    BY <1>1, <1>2, <1>5 DEF IInv, Serving, Knows, Current, At
  <1>7. server.buf \in Seq(Int) /\ x.rest \in Seq(Int) /\ y.rest \in Seq(Int)
    BY <1>3, <1>4 DEF Servers, Connections
  <1>8. buf \in Seq(Int) /\ tail \in Seq(Int)
    <2>1. buf \in Seq(Int)
      BY <1>4, <1>7, Joined, Zenon
    <2>2. tail \in Seq(Int)
      BY <1>4, <1>7, Joined, Zenon
    <2> QED BY <2>1, <2>2
  <1>9. buf \o tail = server.buf \o (x.stream \o x.rest)
    <2> DEFINE b == server.buf
               t == Taken
               st == y.stream
               r == y.rest
    <2>1. b \in Seq(Int) /\ t \in Seq(Int) /\ st \in Seq(Int) /\ r \in Seq(Int)
      BY <1>4, <1>7
    <2> HIDE DEF b, t, st, r
    <2>2. (b \o t) \o (st \o r) = b \o ((t \o st) \o r)
      <3>1. Moves(b, t, st, r)
        BY <2>1, CutMoves
      <3> QED BY <3>1, Zenon DEF Moves
    <2>3. t \o st = x.stream /\ r = x.rest
      BY <1>4 DEF t, st, r
    <2>4. buf = b \o t /\ tail = st \o r
      BY DEF b, t, st, r
    <2> HIDE DEF buf, tail, x
    <2>5. b \o ((t \o st) \o r) = b \o (x.stream \o x.rest)
      BY <2>3, Zenon
    <2>6. buf \o tail = b \o (x.stream \o x.rest)
      BY <2>2, <2>4, <2>5, Zenon
    <2> QED BY <2>6, Zenon DEF b
  <1>10. Cut(m, buf, tail)
    BY <1>6, <1>9 DEF Cut
  <1> HIDE DEF buf, tail
  <1>11. /\ end \in 0..Len(buf)
         /\ end > 0 => body \in Seq(Int) /\ body \o tail = m.body
         /\ end = 0 => (\A i \in 1..Len(buf) : buf[i] # End) /\ Len(buf) <= m.words + m.padding
    BY <1>5, <1>8, <1>10, HeadFound
  <1>12. Len(buf) \in Nat /\ m.words \in Nat /\ m.padding \in Nat /\ HeaderLimit \in Nat /\ end \in Nat
    <2>1. Len(buf) \in Nat
      BY <1>8, LenProperties
    <2>2. m.words \in Nat /\ m.padding \in Nat
      <3>1. m \in Messages
        BY <1>5, Zenon
      <3> HIDE DEF m
      <3> QED BY <3>1, MessageParts
    <2>3. HeaderLimit \in Nat
      BY ServeAssumption
    <2>4. end \in Nat
      BY <1>11, <2>1
    <2> QED BY <2>1, <2>2, <2>3, <2>4
  <1>13. Message = x.message
    BY DEF Message, Current
  <1>14. \/ end > 0 /\ m.words >= 2 /\ server' = [server EXCEPT !.pc = "body", !.buf = buf, !.body = body]
         \/ end > 0 /\ m.words < 2 /\ Replies(400, "none")
         \/ end = 0 /\ Len(buf) > HeaderLimit /\ Replies(400, "none")
         \/ end = 0 /\ server' = [server EXCEPT !.buf = buf]
    <2> DEFINE w == Message.words
               lb == Len(buf)
    <2>1. CASE end > 0 /\ w >= 2
      BY <1>5, <1>13, <2>1 DEF ReadHead, buf
    <2>2. CASE end > 0 /\ w < 2
      BY <1>5, <1>13, <2>2 DEF ReadHead, buf
    <2>3. CASE end = 0 /\ lb > HeaderLimit
      BY <1>5, <1>13, <2>3 DEF ReadHead, buf
    <2>4. CASE end = 0 /\ lb <= HeaderLimit
      BY <1>5, <1>13, <2>4 DEF ReadHead, buf
    <2>5. \/ end > 0 /\ w >= 2
          \/ end > 0 /\ w < 2
          \/ end = 0 /\ lb > HeaderLimit
          \/ end = 0 /\ lb <= HeaderLimit
      BY <1>5, <1>12, <1>13
    <2> QED BY <2>1, <2>2, <2>3, <2>4, <2>5, Zenon
  <1>15. 400 \in Nat /\ "none" \in Origins
    <2>1. 400 \in Nat
      OBVIOUS
    <2> QED BY <2>1, Zenon DEF Origins
  <1>16. ASSUME Replies(400, "none"), m.words < 2 \/ m.padding + m.words > HeaderLimit
         PROVE  IInv'
    <2>1. Right(y, [status |-> 400, from |-> "none"], called)
      BY <1>16 DEF Right
    <2> QED BY <1>1, <1>2, <1>4, <1>15, <1>16, <2>1, RightReplyKeeps
  <1>17. ASSUME server' \in Servers, server'.client = c, server'.pc \in {"head", "body"},
                Knows(server', y, called)
         PROVE  IInv'
    <2>1. Shapes'
      BY <1>1, <1>4, <1>17 DEF IInv, Shapes, OnlyCurrent
    <2>2. Serving' /\ Waiting' /\ Untouched' /\ Done' /\ Handed'
      BY <1>1, <1>2, <1>4, <1>17, ServerKeeps
    <2>3. Billed' /\ Refused'
      BY <1>1, <1>2, <1>17, NothingBilled
    <2> QED BY <2>1, <2>2, <2>3 DEF IInv
  <1> HIDE DEF end, body, y, called
  <1>18. CASE end > 0 /\ m.words >= 2
              /\ server' = [server EXCEPT !.pc = "body", !.buf = buf, !.body = body]
    <2>1. "body" \in Pcs
      BY DEF Pcs
    <2>2. server' \in Servers
      BY <1>3, <1>8, <1>11, <1>18, <2>1, Zenon DEF Servers
    <2>3. server'.pc = "body" /\ server'.client = c /\ server'.body = body
      BY <1>3, <1>18 DEF Servers
    <2>4. Knows(server', y, called)
      BY <1>5, <1>6, <1>11, <1>18, <2>3 DEF Knows, tail
    <2> QED BY <1>17, <2>2, <2>3, <2>4
  <1>19. CASE end = 0 /\ server' = [server EXCEPT !.buf = buf]
    <2>1. server' \in Servers
      BY <1>3, <1>8, <1>19, Zenon DEF Servers
    <2>2. server'.pc = "head" /\ server'.client = c /\ server'.buf = buf
      BY <1>1, <1>3, <1>19 DEF Servers, At
    <2>3. Knows(server', y, called)
      BY <1>5, <1>6, <1>10, <1>11, <1>19, <2>2 DEF Knows, tail
    <2> QED BY <1>17, <2>1, <2>2, <2>3
  <1>20. ASSUME end = 0, Len(buf) > HeaderLimit PROVE m.padding + m.words > HeaderLimit
    BY <1>11, <1>12, <1>20
  <1> QED BY <1>14, <1>16, <1>18, <1>19, <1>20


(* The connection ends, or fails, before the request is complete.          *)
LEMMA EarlyEndKeeps ==
  ASSUME IInv, HeadEnds \/ BodyFails
  PROVE  IInv'
  <1> USE DEF adapterVars
  <1> DEFINE y == conn'[server.client]
  <1>1. /\ server.pc \in {"head", "body"} /\ Current.closed
        /\ Replies(400, "none") /\ conn' = conn
        /\ UNCHANGED <<exchange, wire, backlog, calls, dropped, handled>>
    BY DEF HeadEnds, BodyFails, AtEnd, At
  <1>2. ~At("accept") /\ ~At("model")
    BY <1>1 DEF At
  <1>3. OnlyCurrent
    BY <1>1 DEF OnlyCurrent, IInv, Shapes
  <1>4. y.closed
    BY <1>1 DEF Current
  <1>5. 400 \in Nat /\ "none" \in Origins
    <2>1. 400 \in Nat
      OBVIOUS
    <2> QED BY <2>1, Zenon DEF Origins
  <1>6. Right(y, [status |-> 400, from |-> "none"], Called(server.client))
    BY <1>4 DEF Right
  <1> QED BY <1>1, <1>2, <1>3, <1>5, <1>6, RightReplyKeeps

(* A step that changes the server, and perhaps what is left to read.       *)
LEMMA ServerStepKeeps ==
  ASSUME IInv, ~At("accept"), ~At("model"), server' \in Servers,
         server'.pc \notin {"accept", "model"}, server'.client = server.client, OnlyCurrent,
         UNCHANGED <<exchange, wire, backlog, calls, dropped, handled>>,
         Knows(server', conn'[server.client], Called(server.client))
  PROVE  IInv'
  <1>1. Shapes'
    BY DEF IInv, Shapes, OnlyCurrent
  <1>2. Serving' /\ Waiting' /\ Untouched' /\ Done' /\ Handed'
    BY ServerKeeps
  <1>3. Billed' /\ Refused'
    BY NothingBilled
  <1> QED BY <1>1, <1>2, <1>3 DEF IInv

(* One read of the body.                                                   *)
LEMMA ReadBodyKeeps ==
  ASSUME IInv, ReadBody
  PROVE  IInv'
  <1> USE DEF adapterVars
  <1> DEFINE c == server.client
             x == conn[c]
             y == conn'[c]
             called == Called(c)
             body == server.body \o Taken
  <1>1. /\ At("body") /\ Consume /\ server' = [server EXCEPT !.body = body]
        /\ UNCHANGED <<exchange, wire, backlog, calls, dropped, handled>>
    BY DEF ReadBody
  <1>2. ~At("accept") /\ ~At("model")
    BY <1>1 DEF At
  <1>3. server \in Servers /\ c \in Clients /\ x \in Connections
    BY <1>2 DEF IInv, Serving, Shapes
  <1>4. /\ OnlyCurrent /\ y.rest = x.rest
        /\ y.stream \in Seq(Int) /\ Taken \in Seq(Int) /\ Taken \o y.stream = x.stream
    BY <1>1, <1>2, ConsumeTakes DEF Current
  <1>5. y.phase = "open" /\ y.message = x.message /\ y.closed = x.closed /\ y.message \in Messages
    BY <1>2, <1>3, <1>4 DEF IInv, Serving, Knows, Current, OnlyCurrent
  <1>6. server.body \o (x.stream \o x.rest) = x.message.body /\ ~called
    BY <1>1, <1>2 DEF IInv, Serving, Knows, Current, At
  <1>7. server.body \in Seq(Int) /\ x.rest \in Seq(Int) /\ y.rest \in Seq(Int)
    BY <1>3, <1>4 DEF Servers, Connections
  <1>8. body \in Seq(Int)
    BY <1>4, <1>7, Joined, Zenon
  <1>9. body \o (y.stream \o y.rest) = x.message.body
    <2> DEFINE b == server.body
               t == Taken
               st == y.stream
               r == y.rest
    <2>1. b \in Seq(Int) /\ t \in Seq(Int) /\ st \in Seq(Int) /\ r \in Seq(Int)
      BY <1>4, <1>7
    <2> HIDE DEF b, t, st, r
    <2>2. Moves(b, t, st, r)
      BY <2>1, CutMoves
    <2>3. t \o st = x.stream /\ r = x.rest
      BY <1>4 DEF t, st, r
    <2>4. b \o ((t \o st) \o r) = x.message.body
      BY <1>6, <2>3, Zenon DEF b
    <2> QED BY <2>2, <2>4, Zenon DEF Moves, b, t, st, r
  <1> HIDE DEF body
  <1>10. server' \in Servers
    BY <1>1, <1>3, <1>8, Zenon DEF Servers
  <1>11. server'.pc = "body" /\ server'.client = c /\ server'.body = body
    BY <1>1, <1>3 DEF Servers, At
  <1>12. Knows(server', y, called)
    BY <1>5, <1>6, <1>9, <1>11 DEF Knows
  <1> QED BY <1>1, <1>2, <1>4, <1>10, <1>11, <1>12, ServerStepKeeps

(* The body ends, whole or cut short by a client that went away.           *)
LEMMA BodyEndsKeeps ==
  ASSUME IInv, BodyEnds
  PROVE  IInv'
  <1> USE DEF adapterVars
  <1> DEFINE c == server.client
             x == conn[c]
             called == Called(c)
             b == server.body
             left == x.stream \o x.rest
             n == Smaller(x.message.length, Len(b))
             body == SubSeq(b, 1, n)
  <1>1. /\ At("body") /\ (Len(b) >= x.message.length \/ x.closed) /\ conn' = conn
        /\ server' = [server EXCEPT !.pc = "route", !.body = body]
        /\ UNCHANGED <<exchange, wire, backlog, calls, dropped, handled>>
    <2>1. server \in Servers
      BY DEF IInv, Shapes
    <2>2. Len(b) \in Nat
      BY <2>1, LenProperties DEF Servers
    <2>3. At("body") /\ Message = x.message /\ Knows(server, x, called)
      BY DEF BodyEnds, At, Message, Current, IInv, Serving
    <2>4. x.message.length \in Nat
      BY <2>3, ServeAssumption DEF Knows
    <2> QED BY <2>2, <2>3, <2>4 DEF BodyEnds, BodyMissing, AtEnd, Current
  <1>2. ~At("accept") /\ ~At("model")
    BY <1>1 DEF At
  <1>3. server \in Servers /\ c \in Clients /\ x \in Connections
    BY <1>2 DEF IInv, Serving, Shapes
  <1>4. x.phase = "open" /\ x.message \in Messages /\ ~called /\ b \o left = x.message.body
    BY <1>1, <1>2 DEF IInv, Serving, Knows, Current, At
  <1>5. b \in Seq(Int) /\ Len(b) \in Nat /\ x.message.length \in Nat
    BY <1>3, <1>4, LenProperties, ServeAssumption DEF Servers
  <1>6. left \in Seq(Int)
    BY <1>3, Joined DEF Connections
  <1>7. n \in 0..Len(b) /\ n <= x.message.length /\ (n < x.message.length => n = Len(b))
    BY <1>5 DEF Smaller
  <1> HIDE DEF n, left
  <1>8. body \in Seq(Int) /\ Len(body) = n
    BY <1>5, <1>7, TakenAndLeft
  <1>9. IsPrefix(body, x.message.body)
    <2>1. IsPrefix(body, b \o left)
      BY <1>5, <1>6, <1>7, BeginningIsPrefix
    <2> QED BY <1>4, <2>1, Zenon
  <1>10. Whole(x, body)
    BY <1>1, <1>5, <1>7, <1>8, <1>9 DEF Whole
  <1> HIDE DEF body
  <1>11. "route" \in Pcs
    BY DEF Pcs
  <1>12. server' \in Servers
    BY <1>1, <1>3, <1>8, <1>11, Zenon DEF Servers
  <1>13. server'.pc = "route" /\ server'.client = c /\ server'.body = body
    BY <1>1, <1>3 DEF Servers
  <1>14. Knows(server', x, called)
    BY <1>4, <1>10, <1>13 DEF Knows
  <1>15. OnlyCurrent
    BY <1>1 DEF OnlyCurrent, IInv, Shapes
  <1> QED BY <1>1, <1>2, <1>12, <1>13, <1>14, <1>15, ServerStepKeeps

(* A file is served.                                                       *)
LEMMA ServeAssetKeeps ==
  ASSUME IInv, ServeAsset
  PROVE  IInv'
  <1> USE DEF adapterVars
  <1> DEFINE c == server.client
             x == conn[c]
  <1>1. /\ At("route") /\ IsAsset(x.message) /\ Replies(200, "file") /\ conn' = conn
        /\ UNCHANGED <<exchange, wire, backlog, calls, dropped, handled>>
    BY DEF ServeAsset, Message, Current
  <1>2. ~At("accept") /\ ~At("model")
    BY <1>1 DEF At
  <1>3. x.message \in Messages /\ ~Called(c)
    BY <1>1, <1>2 DEF IInv, Serving, Knows, Current, At
  <1>4. IsPrefix(Root, Resolve(x.message.path)) /\ x.message.method = "GET"
    <2>1. x.message.path \in Seq(STRING) /\ SafeAssetPath(x.message.path) /\ x.message.method = "GET"
      BY <1>1, <1>3, ServeAssumption DEF IsAsset
    <2> QED BY <2>1, SafePathsStayInside
  <1>5. 200 \in Nat /\ "file" \in Origins
    <2>1. 200 \in Nat
      OBVIOUS
    <2> QED BY <2>1, Zenon DEF Origins
  <1>6. Right(conn'[c], [status |-> 200, from |-> "file"], Called(c))
    BY <1>1, <1>3, <1>4 DEF Right
  <1>7. OnlyCurrent
    BY <1>1 DEF OnlyCurrent, IInv, Shapes
  <1> QED BY <1>1, <1>2, <1>5, <1>6, <1>7, RightReplyKeeps


(* The handler is called with the body that was read.                      *)
LEMMA CallHandlerKeeps ==
  ASSUME IInv, CallHandler
  PROVE  IInv'
  <1> USE DEF adapterVars
  <1> DEFINE c == server.client
             x == conn[c]
             new == [client |-> c, body |-> server.body]
  <1>1. /\ At("route") /\ handled' = handled \cup {new}
        /\ server' = [server EXCEPT !.pc = "handler"]
        /\ UNCHANGED <<exchange, wire, conn, backlog, calls, dropped>>
    BY DEF CallHandler
  <1>2. ~At("accept") /\ ~At("model")
    BY <1>1 DEF At
  <1>3. server \in Servers /\ c \in Clients /\ x \in Connections
    BY <1>2 DEF IInv, Serving, Shapes
  <1>4. x.phase = "open" /\ x.message \in Messages /\ Whole(x, server.body)
    BY <1>1, <1>2 DEF IInv, Serving, Knows, Current, At
  <1>5. new \in [client : Clients, body : Seq(Int)] /\ new.client = c /\ new.body = server.body
    BY <1>3 DEF Servers
  <1> HIDE DEF new
  <1>6. Called(c)' /\ \A d \in Clients : d # c => (Called(d)' <=> Called(d))
    BY <1>1, <1>5 DEF Called
  <1>7. server' \in Servers
    <2>1. "handler" \in Pcs
      BY DEF Pcs
    <2> QED BY <1>1, <1>3, <2>1, Zenon DEF Servers
  <1>8. server'.pc = "handler" /\ server'.client = c
    BY <1>1, <1>3 DEF Servers
  <1>9. Shapes'
    BY <1>1, <1>5, <1>7 DEF IInv, Shapes
  <1>10. Billed' /\ Refused'
    BY <1>1, <1>2, <1>8, NothingBilled
  <1>11. Serving'
    <2>1. Knows(server', x, TRUE)
      BY <1>4, <1>8 DEF Knows
    <2>2. Knows(server', x, Called(c)')
      BY <1>6, <2>1, Zenon DEF Knows
    <2> QED BY <1>1, <1>3, <1>8, <2>2 DEF Serving, Current
  <1>12. Waiting'
    BY <1>1, <1>2, <1>8 DEF IInv, Waiting, At
  <1>13. Untouched'
    <2> SUFFICES ASSUME NEW d \in Clients,
                        conn[d].phase = "away" \/ \E i \in 1..Len(backlog) : backlog[i] = d
                 PROVE  ~Called(d)'
      BY <1>1 DEF Untouched
    <2>1. d # c
      BY <1>2, <1>4 DEF IInv, Waiting
    <2> QED BY <1>6, <2>1 DEF IInv, Untouched
  <1>14. Done'
    <2> SUFFICES ASSUME NEW d \in Clients, conn[d].phase = "done"
                 PROVE  Right(conn[d], conn[d].reply, Called(d)')
      BY <1>1 DEF Done
    <2>1. d # c /\ Right(conn[d], conn[d].reply, Called(d))
      BY <1>4 DEF IInv, Done
    <2> QED BY <1>6, <2>1, Zenon DEF Right
  <1>15. Handed'
    BY <1>1, <1>4, <1>5 DEF IInv, Handed
  <1> QED BY <1>9, <1>10, <1>11, <1>12, <1>13, <1>14, <1>15 DEF IInv

(* The handler returns, without having asked the model.                    *)
LEMMA HandlerEndsKeeps ==
  ASSUME IInv, HandlerEnds
  PROVE  IInv'
  <1> USE DEF adapterVars
  <1> DEFINE c == server.client
             x == conn[c]
             does == Handler[x.message.path]
  <1>1. /\ At("handler") /\ does \notin {"ask", "ask_with_tools"} /\ conn' = conn
        /\ UNCHANGED <<exchange, wire, backlog, calls, dropped, handled>>
    BY DEF HandlerEnds, Asks, Does, Message, Current
  <1>2. ~At("accept") /\ ~At("model")
    BY <1>1 DEF At
  <1>3. x.message \in Messages /\ Called(c)
    BY <1>1, <1>2 DEF IInv, Serving, Knows, Current, At
  <1>4. does \in Outcomes
    BY <1>3, ServeAssumption
  <1>5. \/ does \in {"page", "json"} /\ Replies(200, "handler")
        \/ Replies(500, "none")
    <2>1. Does = does
      BY DEF Does, Message, Current
    <2>2. does \in {"page", "json"} \/ does \in {"number", "error"}
      BY <1>1, <1>4 DEF Outcomes
    <2> HIDE DEF does
    <2>3. CASE does \in {"page", "json"}
      BY <2>1, <2>3 DEF HandlerEnds
    <2>4. CASE does \in {"number", "error"}
      BY <2>1, <2>4 DEF HandlerEnds
    <2> QED BY <2>2, <2>3, <2>4
  <1>6. OnlyCurrent
    BY <1>1 DEF OnlyCurrent, IInv, Shapes
  <1>7. 200 \in Nat /\ 500 \in Nat /\ "handler" \in Origins /\ "none" \in Origins
    <2>1. 200 \in Nat /\ 500 \in Nat
      OBVIOUS
    <2> QED BY <2>1, Zenon DEF Origins
  <1>8. CASE Replies(500, "none")
    <2>1. Right(conn'[c], [status |-> 500, from |-> "none"], Called(c))
      BY <1>3 DEF Right
    <2> QED BY <1>1, <1>2, <1>6, <1>7, <1>8, <2>1, RightReplyKeeps
  <1>9. CASE does \in {"page", "json"} /\ Replies(200, "handler")
    <2>1. Right(conn'[c], [status |-> 200, from |-> "handler"], Called(c))
      BY <1>1, <1>3, <1>9 DEF Right
    <2> QED BY <1>1, <1>2, <1>6, <1>7, <1>9, <2>1, RightReplyKeeps
  <1> QED BY <1>5, <1>8, <1>9


(* What is known while the handler runs.                                   *)
LEMMA InHandler ==
  ASSUME IInv, At("handler") \/ At("model")
  PROVE  /\ ~At("accept") /\ server \in Servers /\ server.client \in Clients
         /\ Current.phase = "open" /\ Current.message \in Messages /\ Called(server.client)
         /\ Message = Current.message /\ Does = Handler[Current.message.path]
  BY DEF IInv, Shapes, Serving, Knows, At, Message, Does

(* The replies after a call of the model, or instead of one.               *)
LEMMA ModelReplyKeeps ==
  ASSUME IInv, At("handler") \/ At("model"), UNCHANGED <<conn, backlog, handled>>,
         \/ Replies(500, "none")
         \/ Replies(200, "model") /\ Does = "ask"
  PROVE  /\ server' \in Servers /\ server'.pc = "reply"
         /\ Serving' /\ Waiting' /\ Untouched' /\ Done' /\ Handed'
  <1> DEFINE c == server.client
             x == conn[c]
  <1>1. /\ ~At("accept") /\ server \in Servers /\ c \in Clients /\ x.phase = "open"
        /\ x.message \in Messages /\ Called(c) /\ Message = x.message /\ Does = Handler[x.message.path]
    BY InHandler DEF Current
  <1>2. OnlyCurrent
    BY DEF OnlyCurrent, IInv, Shapes
  <1>3. 200 \in Nat /\ 500 \in Nat /\ "model" \in Origins /\ "none" \in Origins
    <2>1. 200 \in Nat /\ 500 \in Nat
      OBVIOUS
    <2> QED BY <2>1, Zenon DEF Origins
  <1>4. ASSUME NEW status \in Nat, NEW from \in Origins,
               Replies(status, from),
               Right(x, [status |-> status, from |-> from], Called(c))
        PROVE  /\ server' \in Servers /\ server'.pc = "reply"
               /\ Serving' /\ Waiting' /\ Untouched' /\ Done' /\ Handed'
    <2> DEFINE r == [status |-> status, from |-> from]
    <2>1. server' \in Servers /\ server'.pc = "reply" /\ server'.client = c /\ server'.reply = r
      BY <1>1, <1>4, RepliesOnce
    <2>2. Right(x, r, Called(c))
      BY <1>4
    <2> HIDE DEF r
    <2>3. Knows(server', x, Called(c))
      BY <1>1, <2>1, <2>2 DEF Knows
    <2> QED BY <1>1, <1>2, <2>1, <2>3, ServerKeeps
  <1>5. CASE Replies(500, "none")
    <2>1. Right(x, [status |-> 500, from |-> "none"], Called(c))
      BY <1>1 DEF Right
    <2> QED BY <1>3, <1>4, <1>5, <2>1
  <1>6. CASE Replies(200, "model") /\ Does = "ask"
    <2>1. Right(x, [status |-> 200, from |-> "model"], Called(c))
      BY <1>1, <1>6 DEF Right
    <2> QED BY <1>3, <1>4, <1>6, <2>1
  <1> QED BY <1>5, <1>6

(* The idle exchange.                                                      *)
LEMMA IdleExchange ==
  Idle \in Exchanges /\ Paced(Idle) /\ Idle.sent = 0 /\ Idle.phase = "idle"
  <1>1. "idle" \in Phases /\ "none" \in Values /\ "String" \in {"String", "Enum"}
    BY Zenon DEF Phases, Values
  <1>2. 0 \in Nat
    OBVIOUS
  <1>3. Idle \in Exchanges
    BY <1>1, <1>2, Zenon DEF Idle, Exchanges
  <1>4. /\ Idle.sent = 0 /\ Idle.phase = "idle" /\ Idle.attempt = 0 /\ Idle.waited = 0
        /\ Idle.demanded = 0
    BY DEF Idle
  <1>5. Paced(Idle)
    BY <1>4, DelaysAddUp DEF Paced, MaxRetries
  <1> QED BY <1>3, <1>4, <1>5

(* The budget is checked, then the model is asked.                         *)
LEMMA AskModelKeeps ==
  ASSUME IInv, AskModel
  PROVE  IInv'
  <1> USE DEF adapterVars
  <1>1. At("handler") /\ Asks /\ UNCHANGED <<conn, backlog, calls, dropped, handled>>
    BY DEF AskModel
  <1>2. /\ ~At("accept") /\ server \in Servers /\ server.client \in Clients
        /\ Current.phase = "open" /\ Current.message \in Messages /\ Called(server.client)
        /\ Does = Handler[Current.message.path] /\ ~At("model")
    BY <1>1, InHandler DEF At
  <1>3. CASE calls >= MaxModelCalls
    <2>1. Replies(500, "none") /\ UNCHANGED <<exchange, wire>>
      BY <1>3 DEF AskModel
    <2>2. /\ server' \in Servers /\ server'.pc = "reply"
          /\ Serving' /\ Waiting' /\ Untouched' /\ Done' /\ Handed'
      BY <1>1, <2>1, ModelReplyKeeps
    <2>3. Billed' /\ Refused'
      BY <1>1, <1>2, <2>1, <2>2, NothingBilled
    <2>4. Shapes'
      BY <1>1, <2>1, <2>2 DEF IInv, Shapes
    <2> QED BY <2>2, <2>3, <2>4 DEF IInv
  <1>4. CASE ~(calls >= MaxModelCalls)
    <2> DEFINE tools == Does = "ask_with_tools"
    <2>1. /\ Infer("Enum", tools) /\ server' = [server EXCEPT !.pc = "model"]
      BY <1>4 DEF AskModel
    <2>2. exchange = Idle
      BY <1>2 DEF IInv, Billed
    <2>3. /\ UNCHANGED wire
          /\ exchange' = IF tools THEN [Idle EXCEPT !.phase = "failed"]
                         ELSE [Idle EXCEPT !.phase = "sending", !.type = "Enum"]
      BY <2>1 DEF Infer, Failed
    <2>4. /\ exchange'.phase = IF tools THEN "failed" ELSE "sending"
          /\ exchange'.sent = 0 /\ exchange'.attempt = 0 /\ exchange'.waited = 0
          /\ exchange'.demanded = 0
      BY <2>3 DEF Idle
    <2>5. exchange' \in Exchanges
      <3>1. "failed" \in Phases /\ "sending" \in Phases /\ "Enum" \in {"String", "Enum"}
        BY Zenon DEF Phases
      <3> QED BY <2>3, <3>1, IdleExchange, Zenon DEF Exchanges
    <2>6. Paced(exchange')
      BY <2>4, DelaysAddUp DEF Paced, MaxRetries
    <2>7. server' \in Servers /\ server'.pc = "model" /\ server'.client = server.client
      <3>1. "model" \in Pcs
        BY DEF Pcs
      <3>2. server' \in Servers
        BY <1>2, <2>1, <3>1, Zenon DEF Servers
      <3> QED BY <1>2, <2>1, <3>2 DEF Servers
    <2>8. Shapes'
      BY <1>1, <2>3, <2>5, <2>7 DEF IInv, Shapes
    <2>9. Billed'
      <3>1. calls \in Nat /\ MaxModelCalls \in Nat /\ calls < MaxModelCalls
        BY <1>4, ServeAssumption DEF IInv, Shapes
      <3>2. exchange'.phase # "idle"
        BY <2>4
      <3>3. wire <= (MaxRetries + 1) * (calls + dropped) + exchange'.sent
        BY <2>2, <2>4, IdleExchange DEF IInv, Billed
      <3> QED BY <1>1, <2>3, <2>6, <2>7, <3>1, <3>2, <3>3 DEF Billed, At
    <2>10. Refused'
      <3>1. Does' = Does
        BY <1>1, <2>7 DEF Does, Message, Current
      <3>2. Does # "ask" => tools
        BY <1>1 DEF Asks
      <3> QED BY <2>4, <3>1, <3>2 DEF Refused
    <2>11. Knows(server', conn'[server.client], Called(server.client))
      BY <1>1, <1>2, <2>7 DEF Knows, Current, Asks
    <2>12. OnlyCurrent
      BY <1>1 DEF OnlyCurrent, IInv, Shapes
    <2>13. Serving' /\ Waiting' /\ Untouched' /\ Done' /\ Handed'
      BY <1>1, <1>2, <2>7, <2>11, <2>12, ServerKeeps
    <2> QED BY <2>8, <2>9, <2>10, <2>13 DEF IInv
  <1> QED BY <1>3, <1>4


(* The exchange goes on.                                                   *)
LEMMA ModelStepsKeeps ==
  ASSUME IInv, ModelSteps
  PROVE  IInv'
  <1> USE DEF serveVars
  <1>1. At("model") /\ AdapterStep /\ UNCHANGED <<conn, backlog, server, calls, dropped, handled>>
    BY DEF ModelSteps
  <1>2. exchange \in Exchanges /\ Paced(exchange) /\ wire \in Nat /\ calls \in Nat /\ dropped \in Nat
    BY DEF IInv, Shapes, Billed
  <1>3. /\ exchange' \in Exchanges /\ Paced(exchange')
        /\ wire' \in Nat /\ wire' - wire = exchange'.sent - exchange.sent
        /\ exchange.phase \in {"sending", "sent", "sleeping"} /\ exchange'.phase # "idle"
    BY <1>1, <1>2, AdapterKeepsPace
  <1>4. Shapes'
    BY <1>1, <1>3 DEF IInv, Shapes
  <1>5. Billed'
    <2> DEFINE bill == (MaxRetries + 1) * (calls + dropped)
               s == exchange.sent
               t == exchange'.sent
    <2>1. bill \in Nat
      BY <1>2 DEF MaxRetries
    <2>2. s \in Nat /\ t \in Nat /\ wire \in Nat /\ wire' \in Nat
      BY <1>2, <1>3 DEF Exchanges
    <2>3. wire <= bill + s
      BY DEF IInv, Billed
    <2> HIDE DEF bill, s, t
    <2>4. wire' - wire = t - s
      BY <1>3 DEF s, t
    <2>5. wire' <= bill + t
      <3>1. PICK w \in Nat, v \in Nat, b \in Nat : w = wire /\ v = wire' /\ b = bill
        BY <2>1, <2>2
      <3>2. w <= b + s /\ v - w = t - s
        BY <2>3, <2>4, <3>1
      <3>3. v <= b + t
        BY <2>2, <3>2
      <3> QED BY <3>1, <3>3
    <2>6. wire' <= (MaxRetries + 1) * (calls' + dropped') + exchange'.sent
      BY <1>1, <2>5 DEF bill, t
    <2>7. calls <= MaxModelCalls /\ calls < MaxModelCalls
      BY <1>1 DEF IInv, Billed
    <2> QED BY <1>1, <1>3, <2>6, <2>7 DEF Billed, At
  <1>6. Refused'
    BY <1>1, <1>3 DEF IInv, Refused, At, Does, Message, Current
  <1>7. Serving' /\ Waiting' /\ Untouched' /\ Done' /\ Handed'
    BY <1>1 DEF IInv, Serving, Waiting, Untouched, Done, Handed, At, Current, Called
  <1> QED BY <1>4, <1>5, <1>6, <1>7 DEF IInv

(* What a call has sent is billed when the call is counted or dropped.     *)
LEMMA ReleaseKeeps ==
  ASSUME IInv, At("model"), Release, server'.pc = "reply",
         \/ calls' = calls + 1 /\ dropped' = dropped
         \/ calls' = calls /\ dropped' = dropped + 1
  PROVE  /\ exchange' \in Exchanges /\ {wire', calls', dropped'} \subseteq Nat
         /\ Billed' /\ Refused'
  <1>1. exchange' = Idle /\ wire' = wire
    BY DEF Release
  <1>2. /\ wire \in Nat /\ calls \in Nat /\ dropped \in Nat /\ exchange.sent \in Nat
        /\ exchange.sent <= 5 /\ calls < MaxModelCalls /\ MaxModelCalls \in Nat
    BY ServeAssumption DEF IInv, Shapes, Exchanges, Billed, Paced, MaxRetries
  <1>3. wire <= 5 * (calls + dropped) + exchange.sent
    BY DEF IInv, Billed, MaxRetries
  <1>4. calls' \in Nat /\ dropped' \in Nat /\ calls' + dropped' = calls + dropped + 1
    BY <1>2
  <1>5. wire <= 5 * (calls' + dropped') + 0
    <2>1. PICK k \in Nat : k = calls + dropped
      BY <1>2
    <2>2. calls' + dropped' = k + 1
      BY <1>4, <2>1
    <2>3. wire <= 5 * k + exchange.sent
      BY <1>3, <2>1
    <2>4. wire <= 5 * (k + 1) + 0
      BY <1>2, <2>3
    <2> QED BY <2>2, <2>4
  <1>6. calls' <= MaxModelCalls
    BY <1>2
  <1>7. Billed'
    BY <1>1, <1>5, <1>6, IdleExchange DEF Billed, At, MaxRetries
  <1> QED BY <1>1, <1>2, <1>4, <1>7, IdleExchange DEF Refused, At

(* The exchange is over.                                                   *)
LEMMA ModelEndsKeeps ==
  ASSUME IInv, ModelEnds
  PROVE  IInv'
  <1>1. /\ At("model") /\ Release /\ calls' = calls + 1
        /\ UNCHANGED <<conn, backlog, dropped, handled>>
    BY DEF ModelEnds
  <1>2. \/ Replies(500, "none")
        \/ Replies(200, "model") /\ Does = "ask"
    <2>1. CASE exchange.phase = "answered" /\ exchange.value \in Variants
      <3>1. Does = "ask"
        BY <1>1, <2>1 DEF IInv, Refused
      <3> QED BY <2>1, <3>1 DEF ModelEnds
    <2>2. CASE ~(exchange.phase = "answered" /\ exchange.value \in Variants)
      BY <2>2 DEF ModelEnds
    <2> QED BY <2>1, <2>2
  <1>3. /\ server' \in Servers /\ server'.pc = "reply"
        /\ Serving' /\ Waiting' /\ Untouched' /\ Done' /\ Handed'
    BY <1>1, <1>2, ModelReplyKeeps
  <1>4. /\ exchange' \in Exchanges /\ {wire', calls', dropped'} \subseteq Nat
        /\ Billed' /\ Refused'
    BY <1>1, <1>3, ReleaseKeeps
  <1>5. Shapes'
    BY <1>1, <1>3, <1>4 DEF IInv, Shapes
  <1> QED BY <1>3, <1>4, <1>5 DEF IInv

(* The call is dropped.                                                    *)
LEMMA ModelTimeoutKeeps ==
  ASSUME IInv, ModelTimeout
  PROVE  IInv'
  <1>1. /\ At("model") /\ Release /\ dropped' = dropped + 1 /\ Replies(500, "none")
        /\ UNCHANGED <<conn, backlog, calls, handled>>
    BY DEF ModelTimeout
  <1>2. /\ server' \in Servers /\ server'.pc = "reply"
        /\ Serving' /\ Waiting' /\ Untouched' /\ Done' /\ Handed'
    BY <1>1, ModelReplyKeeps
  <1>3. /\ exchange' \in Exchanges /\ {wire', calls', dropped'} \subseteq Nat
        /\ Billed' /\ Refused'
    BY <1>1, <1>2, ReleaseKeeps
  <1>4. Shapes'
    BY <1>1, <1>2, <1>3 DEF IInv, Shapes
  <1> QED BY <1>2, <1>3, <1>4 DEF IInv

(* The answer is written and the connection closed.                        *)
LEMMA ReplyKeeps ==
  ASSUME IInv, Reply
  PROVE  IInv'
  <1> USE DEF adapterVars
  <1> DEFINE c == server.client
             x == conn[c]
             y == [x EXCEPT !.phase = "done", !.reply = server.reply]
  <1>1. /\ At("reply") /\ server' = Listening
        /\ UNCHANGED <<exchange, wire, backlog, calls, dropped, handled>>
    BY DEF Reply
  <1>2. ~At("accept") /\ ~At("model")
    BY <1>1 DEF At
  <1>3. /\ server \in Servers /\ c \in Clients /\ x \in Connections
        /\ conn \in [Clients -> Connections]
    BY <1>2 DEF IInv, Serving, Shapes
  <1>4. x.phase = "open" /\ Right(x, server.reply, Called(c))
    BY <1>1, <1>2 DEF IInv, Serving, Knows, Current, At
  <1>5. conn' = [conn EXCEPT ![c] = y]
    BY <1>3, Zenon DEF Reply
  <1>6. /\ y.phase = "done" /\ y.reply = server.reply /\ y.message = x.message
        /\ y.closed = x.closed
    BY <1>3 DEF Connections
  <1>7. y \in Connections
    <2>1. "done" \in {"away", "open", "done"} /\ server.reply \in Answers
      BY <1>3 DEF Servers
    <2> QED BY <1>3, <2>1, Zenon DEF Connections
  <1> HIDE DEF y
  <1>8. conn'[c] = y /\ (\A d \in Clients : d # c => conn'[d] = conn[d]) /\ conn' \in [Clients -> Connections]
    BY <1>3, <1>5, <1>7
  <1>9. server'.pc = "accept" /\ server' \in Servers
    BY <1>1, AwayIsConnection DEF Listening
  <1>10. Shapes'
    BY <1>1, <1>8, <1>9 DEF IInv, Shapes
  <1>11. Billed' /\ Refused'
    BY <1>1, <1>2, <1>9, NothingBilled
  <1>12. Serving'
    BY <1>9 DEF Serving, At
  <1>13. \A i \in 1..Len(backlog) : backlog[i] \in Clients /\ backlog[i] # c
    BY <1>2, ElementOfSeq DEF IInv, Shapes, Waiting
  <1>14. Waiting'
    BY <1>1, <1>8, <1>9, <1>13 DEF IInv, Waiting, At
  <1>15. Untouched'
    <2>1. \A d \in Clients : Called(d)' <=> Called(d)
      BY <1>1 DEF Called
    <2>2. Untouched
      BY DEF IInv
    <2> QED BY <1>1, <1>6, <1>8, <1>13, <2>1, <2>2 DEF Untouched
  <1>16. Done'
    <2> SUFFICES ASSUME NEW d \in Clients, conn'[d].phase = "done"
                 PROVE  Right(conn'[d], conn'[d].reply, Called(d))
      BY <1>1 DEF Done, Called
    <2>1. CASE d = c
      BY <1>4, <1>6, <1>8, <2>1 DEF Right
    <2>2. CASE d # c
      BY <1>8, <2>2 DEF IInv, Done
    <2> QED BY <2>1, <2>2
  <1>17. Handed'
    <2> SUFFICES ASSUME NEW h \in handled
                 PROVE  conn'[h.client].phase # "away" /\ Whole(conn'[h.client], h.body)
      BY <1>1 DEF Handed
    <2>1. h.client \in Clients /\ conn[h.client].phase # "away" /\ Whole(conn[h.client], h.body)
      BY DEF IInv, Shapes, Handed
    <2>2. CASE h.client = c
      BY <1>6, <1>8, <2>1, <2>2 DEF Whole
    <2>3. CASE h.client # c
      BY <1>8, <2>1, <2>3
    <2> QED BY <2>2, <2>3
  <1> QED BY <1>10, <1>11, <1>12, <1>14, <1>15, <1>16, <1>17 DEF IInv


(* The next connection is taken from the backlog.                          *)
LEMMA AcceptKeeps ==
  ASSUME IInv, Accept
  PROVE  IInv'
  <1> USE DEF adapterVars
  <1> DEFINE c == Head(backlog)
             x == conn[c]
             n == Len(backlog)
  <1>1. /\ At("accept") /\ backlog # <<>> /\ backlog' = Tail(backlog)
        /\ server' = [Listening EXCEPT !.pc = "head", !.client = Head(backlog)]
        /\ UNCHANGED <<exchange, wire, conn, calls, dropped, handled>>
    BY DEF Accept
  <1>2. backlog \in Seq(Clients) /\ n \in Nat /\ n > 0
    BY <1>1, LenProperties, EmptySeq DEF IInv, Shapes
  <1>3. /\ c = backlog[1] /\ c \in Clients /\ backlog' \in Seq(Clients) /\ Len(backlog') = n - 1
        /\ \A i \in 1..(n - 1) : backlog'[i] = backlog[i + 1]
    BY <1>1, <1>2, HeadTailProperties
  <1> HIDE DEF c
  <1>4. 1 \in 1..n /\ \A i \in 1..(n - 1) : i + 1 \in 1..n /\ i + 1 # 1
    BY <1>2
  <1>5. Unread(x) /\ ~Called(c) /\ x \in Connections
    BY <1>3, <1>4 DEF IInv, Shapes, Waiting, Untouched
  <1>6. /\ Listening \in Servers /\ Listening.buf = <<>>
        /\ server' = [Listening EXCEPT !.pc = "head", !.client = c]
    BY <1>1, AwayIsConnection DEF Listening, c
  <1>7. server' \in Servers
    <2>1. "head" \in Pcs /\ c \in Clients \cup {"none"}
      BY <1>3 DEF Pcs
    <2> QED BY <1>6, <2>1, Zenon DEF Servers
  <1>8. server'.pc = "head" /\ server'.client = c /\ server'.buf = <<>>
    BY <1>6 DEF Servers
  <1>9. Shapes'
    BY <1>1, <1>3, <1>7 DEF IInv, Shapes
  <1>10. Billed' /\ Refused'
    BY <1>1, <1>8, NothingBilled DEF At
  <1>11. Serving'
    <2>1. x.phase = "open" /\ x.message \in Messages /\ x.stream \o x.rest = Bytes(x.message)
      BY <1>5 DEF Unread
    <2>2. Cut(x.message, <<>>, x.stream \o x.rest)
      <3>1. x.stream \o x.rest \in Seq(Int)
        BY <2>1, OneBlankLine
      <3>2. <<>> \o (x.stream \o x.rest) = x.stream \o x.rest
        BY <3>1, ConcatEmptySeq
      <3> QED BY <2>1, <3>2, Zenon DEF Cut
    <2>3. Len(<<>>) = 0
      OBVIOUS
    <2>4. Knows(server', x, Called(c))
      BY <1>5, <1>8, <2>1, <2>2, <2>3 DEF Knows
    <2> QED BY <1>1, <1>3, <1>8, <2>4 DEF Serving, Current, Called
  <1>12. Waiting'
    <2>1. ASSUME NEW i \in 1..(n - 1) PROVE Unread(conn[backlog'[i]]) /\ backlog'[i] # c
      BY <1>3, <1>4 DEF IInv, Waiting
    <2>2. ASSUME NEW i \in 1..(n - 1), NEW j \in 1..(n - 1), backlog'[i] = backlog'[j] PROVE i = j
      <3>1. backlog[i + 1] = backlog[j + 1] /\ i + 1 \in 1..n /\ j + 1 \in 1..n
        BY <1>3, <1>4, <2>2
      <3>2. i + 1 = j + 1
        BY <3>1 DEF IInv, Waiting
      <3> QED BY <3>2
    <2> QED BY <1>1, <1>3, <1>8, <2>1, <2>2 DEF Waiting
  <1>13. Untouched'
    <2> SUFFICES ASSUME NEW d \in Clients,
                        conn[d].phase = "away" \/ \E i \in 1..(n - 1) : backlog'[i] = d
                 PROVE  ~Called(d)
      BY <1>1, <1>3 DEF Untouched, Called
    <2>1. conn[d].phase = "away" \/ \E i \in 1..n : backlog[i] = d
      BY <1>3, <1>4
    <2> QED BY <2>1 DEF IInv, Untouched
  <1>14. Done' /\ Handed'
    BY <1>1 DEF IInv, Done, Handed, Called
  <1> QED BY <1>9, <1>10, <1>11, <1>12, <1>13, <1>14 DEF IInv

-----------------------------------------------------------------------------
(* The invariant *)

(* It holds initially.                                                     *)
LEMMA InitHasIInv == Init => IInv
  <1> SUFFICES ASSUME Init PROVE IInv
    OBVIOUS
  <1>1. /\ exchange = Idle /\ wire = 0 /\ conn = [c \in Clients |-> Away] /\ backlog = <<>>
        /\ server = Listening /\ calls = 0 /\ dropped = 0 /\ handled = {}
    BY DEF Init, AdapterInit
  <1>2. server.pc = "accept"
    BY <1>1 DEF Listening
  <1>3. \A c \in Clients : conn[c].phase = "away"
    BY <1>1, AwayIsConnection
  <1>4. Len(backlog) = 0 /\ backlog \in Seq(Clients)
    BY <1>1
  <1>5. Shapes
    <2>1. conn \in [Clients -> Connections]
      BY <1>1, AwayIsConnection
    <2>2. server \in Servers /\ exchange \in Exchanges
      BY <1>1, AwayIsConnection, IdleExchange
    <2>3. {wire, calls, dropped} \subseteq Nat /\ handled \subseteq [client : Clients, body : Seq(Int)]
      BY <1>1
    <2> QED BY <1>4, <2>1, <2>2, <2>3 DEF Shapes
  <1>6. Billed
    <2>1. wire <= (MaxRetries + 1) * (calls + dropped) + exchange.sent
      BY <1>1, IdleExchange DEF MaxRetries
    <2>2. calls <= MaxModelCalls
      BY <1>1, ServeAssumption
    <2> QED BY <1>1, <1>2, <2>1, <2>2, IdleExchange DEF Billed, At
  <1>7. Refused /\ Serving
    BY <1>2 DEF Refused, Serving, At
  <1>8. Waiting /\ Untouched /\ Done /\ Handed
    <2>1. \A c \in Clients : ~Called(c)
      BY <1>1 DEF Called
    <2>2. 1..Len(backlog) = {}
      BY <1>4
    <2>3. Waiting
      BY <2>2, Zenon DEF Waiting
    <2>4. Untouched
      BY <2>1, Zenon DEF Untouched
    <2>5. Done
      BY <1>3 DEF Done
    <2>6. Handed
      BY <1>1 DEF Handed
    <2> QED BY <2>3, <2>4, <2>5, <2>6
  <1> QED BY <1>5, <1>6, <1>7, <1>8 DEF IInv

(* Every step keeps it.                                                    *)
LEMMA NextKeepsIInv == IInv /\ [Next]_vars => IInv'
  <1> SUFFICES ASSUME IInv, [Next]_vars PROVE IInv'
    OBVIOUS
  <1>1. ASSUME NEW c \in Clients, NEW m \in Messages, Connect(c, m) PROVE IInv'
    BY <1>1, ConnectKeeps
  <1>2. ASSUME NEW c \in Clients, NEW n \in 1..Len(conn[c].rest), Arrive(c, n) PROVE IInv'
    BY <1>2, ArriveKeeps
  <1>3. ASSUME NEW c \in Clients, Hangup(c) PROVE IInv'
    BY <1>3, HangupKeeps
  <1>4. CASE ServerStep
    BY <1>4, AcceptKeeps, ReadHeadKeeps, EarlyEndKeeps, ReadBodyKeeps, BodyEndsKeeps, ServeAssetKeeps,
       CallHandlerKeeps, HandlerEndsKeeps, AskModelKeeps, ModelEndsKeeps, ReplyKeeps
       DEF ServerStep
  <1>5. CASE ModelSteps
    BY <1>5, ModelStepsKeeps
  <1>6. CASE ModelTimeout
    BY <1>6, ModelTimeoutKeeps
  <1>7. CASE UNCHANGED vars
    <2>1. UNCHANGED <<exchange, wire, conn, backlog, server, calls, dropped, handled>>
      BY <1>7 DEF vars, adapterVars, serveVars
    <2>2. Shapes' /\ Billed' /\ Refused'
      BY <2>1 DEF IInv, Shapes, Billed, Refused, At, Does, Message, Current
    <2>3. Serving' /\ Waiting'
      BY <2>1 DEF IInv, Serving, Waiting, At, Current, Called
    <2>4. Untouched' /\ Done' /\ Handed'
      BY <2>1 DEF IInv, Untouched, Done, Handed, Called
    <2> QED BY <2>2, <2>3, <2>4 DEF IInv
  <1> QED BY <1>1, <1>2, <1>3, <1>4, <1>5, <1>6, <1>7 DEF Next

(* It holds in every state of every behaviour.                             *)
LEMMA IInvHolds == Spec => []IInv
  BY InitHasIInv, NextKeepsIInv, PTL DEF Spec

(* handle_request gets the beginning of what the client of its connection  *)
(* declared and sent, in order and no more, whatever pieces it arrived in, *)
(* and less only from a client that went away early (read_http_request).   *)
THEOREM RequestsAreWhole == Spec => []WholeRequests
  <1>1. IInv => WholeRequests
    BY DEF IInv, Handed, Whole, WholeRequests
  <1> QED BY <1>1, IInvHolds, PTL

(* Every connection is answered for its own request and by whom it should  *)
(* be: a file under the root, the handler, the model, or with an error its *)
(* request deserves (http_serve).                                          *)
THEOREM RepliesAreRight == Spec => []RightReplies
  <1>1. IInv => RightReplies
    BY DEF IInv, Done, Right, RightReplies, Called
  <1> QED BY <1>1, IInvHolds, PTL

(* However the endpoint answers, a call that is counted, dropped or in     *)
(* progress has sent at most five requests and waited at most the backoff  *)
(* and what the endpoint asked for; and the budget is kept                 *)
(* (send_with_retry, check_model_call_budget).                             *)
THEOREM BillIsBounded == Spec => []WireBounded
  <1>1. IInv => WireBounded
    <2> SUFFICES ASSUME IInv PROVE WireBounded
      OBVIOUS
    <2>1. /\ exchange \in Exchanges /\ wire \in Nat /\ calls \in Nat /\ dropped \in Nat
          /\ exchange.sent \in Nat /\ exchange.sent <= 5
      BY DEF IInv, Shapes, Billed, Paced, Exchanges, MaxRetries
    <2>2. wire <= 5 * (calls + dropped) + exchange.sent
      BY DEF IInv, Billed, MaxRetries
    <2> DEFINE pending == IF AdapterBusy \/ AdapterDone THEN 1 ELSE 0
    <2>3. pending \in Nat /\ exchange.sent <= 5 * pending
      <3>1. CASE exchange.phase = "idle"
        BY <2>1, <3>1, IdleExchange DEF IInv, Billed, Paced, AdapterBusy, AdapterDone
      <3>2. CASE exchange.phase # "idle"
        BY <2>1, <3>2 DEF Exchanges, Phases, AdapterBusy, AdapterDone
      <3> QED BY <3>1, <3>2
    <2> HIDE DEF pending
    <2>4. wire <= 5 * (calls + dropped + pending)
      <3>1. PICK k \in Nat : k = calls + dropped
        BY <2>1
      <3>2. wire <= 5 * (k + pending)
        BY <2>1, <2>2, <2>3, <3>1
      <3> QED BY <3>1, <3>2
    <2>5. exchange.waited <= exchange.demanded + 500 + 1000 + 2000 + 4000
      <3>1. exchange.waited <= exchange.demanded + 7500
        BY DelaysAddUp DEF IInv, Billed, Paced, MaxRetries
      <3> QED BY <2>1, <3>1 DEF Exchanges
    <2>6. calls <= MaxModelCalls
      BY DEF IInv, Billed
    <2> QED BY <2>4, <2>5, <2>6 DEF WireBounded, MaxRetries, pending
  <1> QED BY <1>1, IInvHolds, PTL

=============================================================================
