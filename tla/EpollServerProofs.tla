------------------------- MODULE EpollServerProofs --------------------------
(***************************************************************************)
(* TLAPS proofs about EpollServer, for any number of clients, descriptors, *)
(* requests, failures and departures, and any size of reads and sends.     *)
(*                                                                         *)
(* The streams are described unit by unit: Unit(a, i) is the i-th unit a   *)
(* client sends that asks a, AnswerUnit(i) the i-th unit it is answered.   *)
(* Input and Output say that the places where units of a connection lie    *)
(* follow each other in these streams without gap or repetition. TableInv  *)
(* and EventsInv are what makes the use of descriptors sound: each stands  *)
(* for one open connection, and a batch names each at most once.           *)
(***************************************************************************)
EXTENDS EpollServer, FunctionTheorems, FiniteSetTheorems, SequenceTheorems, TLAPS

Unit(a, i) == [id |-> (i + 1) \div 2, kind |-> a[(i + 1) \div 2], part |-> 2 - (i % 2)]
AnswerUnit(i) == [id |-> (i + 1) \div 2, part |-> 2 - (i % 2)]

Length(a, hf) == 2 * Len(a) - (IF hf THEN 1 ELSE 0)

\* Of a client that asks a, the last request sent by half if hf: h requests are handled, the
\* units that follow are in the read buffer r and then in the socket x.
Input(a, hf, h, r, x) ==
    /\ 2 * h + Len(r) + Len(x) = Length(a, hf)
    /\ \A i \in 1..Len(r) : r[i] = Unit(a, 2 * h + i)
    /\ \A i \in 1..Len(x) : x[i] = Unit(a, 2 * h + Len(r) + i)

\* The client has received g, and o is on its way.
Received(h, g, o) ==
    /\ Len(g) + Len(o) <= 2 * h
    /\ \A i \in 1..Len(g) : g[i] = AnswerUnit(i)
    /\ \A i \in 1..Len(o) : o[i] = AnswerUnit(Len(g) + i)

\* The write buffer w holds the answers after those received and on their way.
Output(h, g, o, w, off) ==
    /\ off <= Len(w)
    /\ Len(g) + Len(o) + (Len(w) - off) = 2 * h
    /\ \A i \in 1..(Len(w) - off) : w[off + i] = AnswerUnit(Len(g) + Len(o) + i)

\* The requests of all clients.
Asked == UNION {{d} \X DOMAIN asked[d] : d \in Conn}

AskedInv ==
    /\ asked \in [Conn -> Seq(Kind)]
    /\ half \in [Conn -> BOOLEAN]
    /\ \A c \in Conn : half[c] => asked[c] # <<>>
    /\ IsFiniteSet(Asked)
    /\ Cardinality(Asked) <= MaxRequests

SocketsInv ==
    /\ inbox \in [Conn -> Seq(RequestUnit)]
    /\ outbox \in [Conn -> Seq(ResponseUnit)]
    /\ got \in [Conn -> Seq(ResponseUnit)]
    /\ peer \in [Conn -> {"up", "fin", "dead"}]
    /\ conn \in [Conn -> {"new", "backlog", "open", "closed"}]
    /\ handled \in [Conn -> Seq(1..MaxRequests)]

\* A descriptor in the table is that of one open connection.
TableInv ==
    /\ clients \in [Fd -> ClientState \cup {None}]
    /\ \A f \in InTable : conn[clients[f].conn] = "open"
    /\ \A f \in InTable : clients[f].out <=> clients[f].write_buffer # <<>>
    /\ \A f, g \in InTable : clients[f].conn = clients[g].conn => f = g

Event == [fd : Fd \cup {0}, conn : Conn \cup {None}, in : BOOLEAN, out : BOOLEAN, hup : BOOLEAN]

\* The event e is still for the connection it came from.
Fresh(e) ==
    e.fd # 0 => /\ clients[e.fd] # None
                /\ clients[e.fd].conn = e.conn
                /\ e.hup => peer[e.conn] = "dead"

\* Every event left is for a descriptor of its own.
EventsInv ==
    /\ pc \in {"wait", "dispatch", "accept", "read", "extract", "write", "stopped"}
    /\ events \in Seq(Event)
    /\ events = <<>> <=> pc \in {"wait", "stopped"}
    /\ pc \in {"read", "extract", "write"} => events[1].fd # 0
    /\ \A i, j \in 1..Len(events) : events[i].fd = events[j].fd => i = j
    /\ \A i \in 1..Len(events) : Fresh(events[i])

\* What the units of a connection are, before it is accepted, while it is open and after.
StreamOf(c) ==
    /\ \A i \in 1..Len(handled[c]) : handled[c][i] = i
    /\ 2 * Len(handled[c]) <= Length(asked[c], half[c])
    /\ Received(Len(handled[c]), got[c], outbox[c])
    /\ conn[c] \in {"new", "backlog"} =>
          handled[c] = <<>> /\ Input(asked[c], half[c], 0, <<>>, inbox[c])

\* What the buffers of the client with descriptor f hold of them.
Served(f) ==
    LET s == clients[f]
        c == s.conn
    IN  /\ Input(asked[c], half[c], Len(handled[c]), s.read_buffer, inbox[c])
        /\ Output(Len(handled[c]), got[c], outbox[c], s.write_buffer, s.write_offset)

StreamInv == (\A c \in Conn : StreamOf(c)) /\ (\A f \in InTable : Served(f))

MembersInv == members \subseteq Consumer /\ MembersConnected

IInv ==
    AskedInv /\ SocketsInv /\ TableInv /\ EventsInv /\ StreamInv /\ MembersInv /\ ClosedForCause

----------------------------------------------------------------------------
(* Streams of units *)

\* What append, concatenation and the cutting of a sequence do.
LEMMA SeqFacts ==
    ASSUME NEW S, NEW s \in Seq(S), NEW e \in S
    PROVE  /\ Len(s) \in Nat
           /\ Append(s, e) \in Seq(S) /\ Len(Append(s, e)) = Len(s) + 1
           /\ Append(s, e)[Len(s) + 1] = e
           /\ \A i \in 1..Len(s) : Append(s, e)[i] = s[i]
OBVIOUS

\* What is left of a sequence without its first element.
LEMMA TailFacts ==
    ASSUME NEW S, NEW s \in Seq(S), s # <<>>
    PROVE  /\ Len(s) \in Nat \ {0} /\ Head(s) = s[1] /\ s[1] \in S
           /\ Tail(s) \in Seq(S) /\ Len(Tail(s)) = Len(s) - 1
           /\ \A i \in 1..(Len(s) - 1) : Tail(s)[i] = s[i + 1]
BY HeadTailProperties

\* A piece of a sequence.
LEMMA PieceFacts ==
    ASSUME NEW S, NEW s \in Seq(S), NEW m \in 1..(Len(s) + 1), NEW n \in (m - 1)..Len(s)
    PROVE  /\ SubSeq(s, m, n) \in Seq(S) /\ Len(SubSeq(s, m, n)) = n - m + 1
           /\ \A i \in 1..(n - m + 1) : SubSeq(s, m, n)[i] = s[m + i - 1]
<1>1. m \in Int /\ n \in Int /\ \A i \in m..n : s[i] \in S
  OBVIOUS
<1>2. /\ SubSeq(s, m, n) \in Seq(S)
      /\ Len(SubSeq(s, m, n)) = IF m <= n THEN n - m + 1 ELSE 0
      /\ \A i \in 1..(n - m + 1) : SubSeq(s, m, n)[i] = s[m + i - 1]
  BY <1>1, SubSeqProperties
<1> QED
  BY <1>2

\* The units of the n-th request and response.
LEMMA UnitFacts ==
    ASSUME NEW a \in Seq(Kind), NEW n \in Nat
    PROVE  /\ Unit(a, 2 * n + 1) = [id |-> n + 1, kind |-> a[n + 1], part |-> 1]
           /\ Unit(a, 2 * n) = [id |-> n, kind |-> a[n], part |-> 2]
           /\ AnswerUnit(2 * n + 1) = [id |-> n + 1, part |-> 1]
           /\ AnswerUnit(2 * n + 2) = [id |-> n + 1, part |-> 2]
           /\ AnswerUnit(2 * n).id = n
<1>1. (2 * n + 1 + 1) \div 2 = n + 1 /\ (2 * n + 1) % 2 = 1
  OBVIOUS
<1>2. (2 * n + 1) \div 2 = n /\ (2 * n) % 2 = 0
  OBVIOUS
<1>3. (2 * n + 2 + 1) \div 2 = n + 1 /\ (2 * n + 2) % 2 = 0
  OBVIOUS
<1>4. 2 - 1 = 1 /\ 2 - 0 = 2
  OBVIOUS
<1> QED
  BY <1>1, <1>2, <1>3, <1>4, Zenon DEF Unit, AnswerUnit

\* The first half of a request is sent.
LEMMA InputBegin ==
    ASSUME NEW a \in Seq(Kind), NEW q \in Kind, NEW h \in Nat,
           NEW r \in Seq(RequestUnit), NEW x \in Seq(RequestUnit), Input(a, FALSE, h, r, x),
           NEW u \in RequestUnit, u = Unit(Append(a, q), 2 * Len(a) + 1)
    PROVE  Input(Append(a, q), TRUE, h, r, Append(x, u))
<1> DEFINE b == Append(a, q)
           y == Append(x, u)
<1>1. Len(a) \in Nat /\ Len(b) = Len(a) + 1 /\ b[Len(a) + 1] = q /\ \A i \in 1..Len(a) : b[i] = a[i]
  BY SeqFacts
<1>2. Len(x) \in Nat /\ Len(y) = Len(x) + 1 /\ y[Len(x) + 1] = u /\ \A i \in 1..Len(x) : y[i] = x[i]
  BY SeqFacts
<1>3. Len(r) \in Nat /\ 2 * h + Len(r) + Len(x) = 2 * Len(a)
  BY DEF Input, Length
<1> HIDE DEF b, y
<1>4. ASSUME NEW i \in 1..(2 * Len(a)) PROVE Unit(b, i) = Unit(a, i)
  <2>1. (i + 1) \div 2 \in 1..Len(a)
    BY <1>1
  <2> QED
    BY <1>1, <2>1 DEF Unit
<1>5. Unit(b, 2 * Len(a) + 1) = u
  BY DEF b
<1>6. 2 * h + Len(r) + Len(y) = Length(b, TRUE)
  <2>1. Len(a) \in Nat /\ Len(b) = Len(a) + 1 /\ Len(x) \in Nat /\ Len(y) = Len(x) + 1
    BY <1>1, <1>2
  <2>2. 2 * h + Len(r) + Len(y) = 2 * Len(b) - 1
    BY <1>3, <2>1
  <2> QED
    BY <2>2 DEF Length
<1>7. ASSUME NEW i \in 1..Len(r) PROVE r[i] = Unit(b, 2 * h + i)
  <2>1. 2 * h + i \in 1..(2 * Len(a))
    BY <1>1, <1>2, <1>3
  <2> QED
    BY <1>4, <2>1 DEF Input
<1>8. ASSUME NEW i \in 1..Len(y) PROVE y[i] = Unit(b, 2 * h + Len(r) + i)
  <2>1. CASE i \in 1..Len(x)
    <3>1. 2 * h + Len(r) + i \in 1..(2 * Len(a))
      BY <1>1, <1>2, <1>3, <2>1
    <3> QED
      BY <1>2, <1>4, <2>1, <3>1 DEF Input
  <2>2. CASE i = Len(x) + 1
    <3>1. 2 * h + Len(r) + i = 2 * Len(a) + 1
      <4>1. Len(a) \in Nat /\ Len(x) \in Nat
        BY <1>1, <1>2
      <4> QED
        BY <1>3, <2>2, <4>1
    <3> QED
      BY <1>2, <1>5, <2>2, <3>1
  <2> QED
    BY <1>2, <2>1, <2>2
<1> QED
  BY <1>6, <1>7, <1>8 DEF Input, b, y

\* The second half is sent.
LEMMA InputEnd ==
    ASSUME NEW a \in Seq(Kind), a # <<>>, NEW h \in Nat,
           NEW r \in Seq(RequestUnit), NEW x \in Seq(RequestUnit), Input(a, TRUE, h, r, x),
           NEW u \in RequestUnit, u = Unit(a, 2 * Len(a))
    PROVE  Input(a, FALSE, h, r, Append(x, u))
<1> DEFINE y == Append(x, u)
<1>1. Len(x) \in Nat /\ Len(y) = Len(x) + 1 /\ y[Len(x) + 1] = u /\ \A i \in 1..Len(x) : y[i] = x[i]
  BY SeqFacts
<1>2. Len(a) \in Nat /\ Len(r) \in Nat /\ 2 * h + Len(r) + Len(x) = 2 * Len(a) - 1
  BY DEF Input, Length
<1> HIDE DEF y
<1>3. 2 * h + Len(r) + Len(y) = Length(a, FALSE)
  BY <1>1, <1>2 DEF Length
<1>4. ASSUME NEW i \in 1..Len(y) PROVE y[i] = Unit(a, 2 * h + Len(r) + i)
  <2>1. CASE i \in 1..Len(x)
    BY <1>1, <2>1 DEF Input
  <2>2. CASE i = Len(x) + 1
    <3>1. 2 * h + Len(r) + i = 2 * Len(a)
      BY <1>1, <1>2, <2>2
    <3> QED
      BY <1>1, <2>2, <3>1
  <2> QED
    BY <1>1, <2>1, <2>2
<1> QED
  BY <1>3, <1>4 DEF Input, y

\* recv() moves units from the socket to the read buffer.
LEMMA InputRecv ==
    ASSUME NEW a \in Seq(Kind), NEW hf \in BOOLEAN, NEW h \in Nat,
           NEW r \in Seq(RequestUnit), NEW x \in Seq(RequestUnit), Input(a, hf, h, r, x),
           NEW n \in 1..Len(x)
    PROVE  /\ r \o SubSeq(x, 1, n) \in Seq(RequestUnit)
           /\ SubSeq(x, n + 1, Len(x)) \in Seq(RequestUnit)
           /\ Input(a, hf, h, r \o SubSeq(x, 1, n), SubSeq(x, n + 1, Len(x)))
<1> DEFINE y == SubSeq(x, 1, n)
           z == SubSeq(x, n + 1, Len(x))
           t == r \o y
<1>1. Len(x) \in Nat /\ Len(r) \in Nat /\ Len(a) \in Nat
  OBVIOUS
<1>2. y \in Seq(RequestUnit) /\ Len(y) = n /\ \A i \in 1..n : y[i] = x[i]
  <2>1. 1 \in 1..(Len(x) + 1) /\ n \in (1 - 1)..Len(x)
    BY <1>1
  <2>2. /\ y \in Seq(RequestUnit) /\ Len(y) = n - 1 + 1
        /\ \A i \in 1..(n - 1 + 1) : y[i] = x[1 + i - 1]
    BY <2>1, PieceFacts
  <2> QED
    BY <2>2
<1>3. z \in Seq(RequestUnit) /\ Len(z) = Len(x) - n /\ \A i \in 1..(Len(x) - n) : z[i] = x[n + i]
  <2>1. n + 1 \in 1..(Len(x) + 1) /\ Len(x) \in (n + 1 - 1)..Len(x)
    BY <1>1
  <2>2. /\ z \in Seq(RequestUnit) /\ Len(z) = Len(x) - (n + 1) + 1
        /\ \A i \in 1..(Len(x) - (n + 1) + 1) : z[i] = x[n + 1 + i - 1]
    BY <2>1, PieceFacts
  <2> QED
    BY <1>1, <2>2
<1>4. /\ t \in Seq(RequestUnit) /\ Len(t) = Len(r) + n
      /\ \A i \in 1..(Len(r) + n) : t[i] = IF i <= Len(r) THEN r[i] ELSE x[i - Len(r)]
  <2> HIDE DEF y
  <2>1. /\ t \in Seq(RequestUnit) /\ Len(t) = Len(r) + Len(y)
        /\ \A i \in 1..(Len(r) + Len(y)) : t[i] = IF i <= Len(r) THEN r[i] ELSE y[i - Len(r)]
    BY <1>2, ConcatProperties
  <2> QED
    BY <1>1, <1>2, <2>1
<1> HIDE DEF y, z, t
<1>5. 2 * h + Len(t) + Len(z) = Length(a, hf)
  BY <1>1, <1>3, <1>4 DEF Input
<1>6. ASSUME NEW i \in 1..Len(t) PROVE t[i] = Unit(a, 2 * h + i)
  <2>1. CASE i <= Len(r)
    <3>1. i \in 1..Len(r) /\ i \in 1..(Len(r) + n)
      BY <1>1, <1>4, <2>1
    <3>2. t[i] = r[i]
      BY <1>4, <2>1, <3>1
    <3> QED
      BY <3>1, <3>2 DEF Input
  <2>2. CASE i > Len(r)
    <3>1. t[i] = x[i - Len(r)] /\ i - Len(r) \in 1..Len(x)
      BY <1>1, <1>4, <2>2
    <3>2. t[i] = Unit(a, 2 * h + Len(r) + (i - Len(r)))
      BY <3>1 DEF Input
    <3>3. 2 * h + Len(r) + (i - Len(r)) = 2 * h + i
      BY <1>1, <1>4
    <3> QED
      BY <3>2, <3>3
  <2> QED
    BY <1>1, <2>1, <2>2
<1>7. ASSUME NEW i \in 1..Len(z) PROVE z[i] = Unit(a, 2 * h + Len(t) + i)
  <2>1. z[i] = x[n + i] /\ n + i \in 1..Len(x)
    BY <1>1, <1>3
  <2>2. z[i] = Unit(a, 2 * h + Len(r) + (n + i))
    BY <2>1 DEF Input
  <2>3. 2 * h + Len(r) + (n + i) = 2 * h + Len(t) + i
    BY <1>1, <1>3, <1>4
  <2> QED
    BY <2>2, <2>3
<1> QED
  BY <1>2, <1>3, <1>4, <1>5, <1>6, <1>7 DEF Input, y, z, t

\* The first units of the read buffer are those of the request after the ones handled.
LEMMA InputFirst ==
    ASSUME NEW a \in Seq(Kind), NEW hf \in BOOLEAN, NEW h \in Nat,
           NEW r \in Seq(RequestUnit), NEW x \in Seq(RequestUnit), Input(a, hf, h, r, x),
           r # <<>>
    PROVE  h + 1 \in 1..Len(a) /\ r[1].id = h + 1 /\ r[1].kind = a[h + 1]
<1>1. Len(r) \in Nat \ {0} /\ Len(x) \in Nat /\ Len(a) \in Nat
  OBVIOUS
<1>2. Unit(a, 2 * h + 1) = [id |-> h + 1, kind |-> a[h + 1], part |-> 1]
  BY UnitFacts
<1>3. r[1] = Unit(a, 2 * h + 1)
  BY <1>1 DEF Input
<1>4. h + 1 \in 1..Len(a)
  BY <1>1 DEF Input, Length
<1>5. r[1].id = h + 1 /\ r[1].kind = a[h + 1]
  BY <1>2, <1>3
<1> QED
  BY <1>4, <1>5

\* A request is handled and its frame erased.
LEMMA InputHandle ==
    ASSUME NEW a \in Seq(Kind), NEW hf \in BOOLEAN, NEW h \in Nat,
           NEW r \in Seq(RequestUnit), NEW x \in Seq(RequestUnit), Input(a, hf, h, r, x),
           Len(r) >= 2
    PROVE  /\ SubSeq(r, 3, Len(r)) \in Seq(RequestUnit)
           /\ Input(a, hf, h + 1, SubSeq(r, 3, Len(r)), x)
<1> DEFINE t == SubSeq(r, 3, Len(r))
<1>1. Len(r) \in Nat /\ Len(x) \in Nat /\ Len(a) \in Nat
  OBVIOUS
<1>2. t \in Seq(RequestUnit) /\ Len(t) = Len(r) - 2 /\ \A i \in 1..(Len(r) - 2) : t[i] = r[i + 2]
  <2>1. 3 \in 1..(Len(r) + 1) /\ Len(r) \in (3 - 1)..Len(r)
    BY <1>1
  <2>2. /\ t \in Seq(RequestUnit) /\ Len(t) = Len(r) - 3 + 1
        /\ \A i \in 1..(Len(r) - 3 + 1) : t[i] = r[3 + i - 1]
    BY <2>1, PieceFacts
  <2>3. \A i \in 1..(Len(r) - 2) : 3 + i - 1 = i + 2
    OBVIOUS
  <2> QED
    BY <1>1, <2>2, <2>3
<1> HIDE DEF t
<1>3. 2 * (h + 1) + Len(t) + Len(x) = Length(a, hf)
  BY <1>1, <1>2 DEF Input
<1>4. ASSUME NEW i \in 1..Len(t) PROVE t[i] = Unit(a, 2 * (h + 1) + i)
  <2>1. t[i] = r[i + 2] /\ i + 2 \in 1..Len(r)
    BY <1>1, <1>2
  <2>2. 2 * h + (i + 2) = 2 * (h + 1) + i
    OBVIOUS
  <2> QED
    BY <2>1, <2>2 DEF Input
<1>5. ASSUME NEW i \in 1..Len(x) PROVE x[i] = Unit(a, 2 * (h + 1) + Len(t) + i)
  <2>1. 2 * h + Len(r) + i = 2 * (h + 1) + Len(t) + i
    BY <1>1, <1>2
  <2> QED
    BY <2>1 DEF Input
<1> QED
  BY <1>2, <1>3, <1>4, <1>5 DEF Input, t

\* Where the units of the next response go: behind the g + o + (w - off) units before them.
LEMMA NextPlaces ==
    ASSUME NEW g \in Nat, NEW o \in Nat, NEW w \in Nat, NEW off \in Nat, NEW h \in Nat, NEW i \in Nat,
           g + o + (w - off) = 2 * h, off + i \in 1..(w + 2)
    PROVE  /\ off + i = w + 1 => g + o + i = 2 * h + 1
           /\ off + i = w + 2 => g + o + i = 2 * h + 2
           /\ off + i <= w \/ off + i = w + 1 \/ off + i = w + 2
  OBVIOUS

\* A response is queued.
LEMMA OutputQueue ==
    ASSUME NEW h \in Nat, NEW g \in Seq(ResponseUnit), NEW o \in Seq(ResponseUnit),
           NEW w \in Seq(ResponseUnit), NEW off \in Nat, Output(h, g, o, w, off),
           NEW u \in ResponseUnit, u = AnswerUnit(2 * h + 1),
           NEW v \in ResponseUnit, v = AnswerUnit(2 * h + 2)
    PROVE  /\ w \o <<u, v>> \in Seq(ResponseUnit) /\ w \o <<u, v>> # <<>>
           /\ Output(h + 1, g, o, w \o <<u, v>>, off)
<1> DEFINE p == <<u, v>>
           t == w \o p
<1>1. Len(g) \in Nat /\ Len(o) \in Nat /\ Len(w) \in Nat
  OBVIOUS
<1>2. p \in Seq(ResponseUnit) /\ Len(p) = 2 /\ p[1] = u /\ p[2] = v
  OBVIOUS
<1> HIDE DEF p
<1>3. /\ t \in Seq(ResponseUnit) /\ Len(t) = Len(w) + 2
      /\ \A i \in 1..(Len(w) + 2) : t[i] = IF i <= Len(w) THEN w[i] ELSE p[i - Len(w)]
  <2>1. /\ t \in Seq(ResponseUnit) /\ Len(t) = Len(w) + Len(p)
        /\ \A i \in 1..(Len(w) + Len(p)) : t[i] = IF i <= Len(w) THEN w[i] ELSE p[i - Len(w)]
    BY <1>2, ConcatProperties
  <2> QED
    BY <1>1, <1>2, <2>1
<1> HIDE DEF t
<1>4. off <= Len(w) /\ Len(g) + Len(o) + (Len(w) - off) = 2 * h
  BY DEF Output
<1>5. off <= Len(t) /\ Len(g) + Len(o) + (Len(t) - off) = 2 * (h + 1)
  BY <1>1, <1>3, <1>4
<1>6. ASSUME NEW i \in 1..(Len(t) - off) PROVE t[off + i] = AnswerUnit(Len(g) + Len(o) + i)
  <2>1. i \in Nat /\ off + i \in 1..(Len(w) + 2)
    BY <1>1, <1>3
  <2>p. PICK lg \in Nat, lo \in Nat, lw \in Nat : lg = Len(g) /\ lo = Len(o) /\ lw = Len(w)
    BY <1>1
  <2>q. lg + lo + (lw - off) = 2 * h /\ off + i \in 1..(lw + 2)
    BY <1>4, <2>1, <2>p
  <2>r. /\ off + i = lw + 1 => lg + lo + i = 2 * h + 1
        /\ off + i = lw + 2 => lg + lo + i = 2 * h + 2
        /\ off + i <= lw \/ off + i = lw + 1 \/ off + i = lw + 2
    BY <2>1, <2>q, NextPlaces
  <2>2. CASE off + i <= Len(w)
    <3>1. i \in 1..(Len(w) - off)
      BY <1>1, <2>1, <2>2
    <3> QED
      BY <1>3, <2>1, <2>2, <3>1 DEF Output
  <2>3. CASE off + i = Len(w) + 1
    <3>1. t[off + i] = p[1]
      BY <1>1, <1>3, <2>1, <2>3
    <3>2. Len(g) + Len(o) + i = 2 * h + 1
      BY <2>3, <2>p, <2>r
    <3> QED
      BY <1>2, <3>1, <3>2
  <2>4. CASE off + i = Len(w) + 2
    <3>1. t[off + i] = p[2]
      BY <1>1, <1>3, <2>1, <2>4
    <3>2. Len(g) + Len(o) + i = 2 * h + 2
      BY <2>4, <2>p, <2>r
    <3> QED
      BY <1>2, <3>1, <3>2
  <2>5. off + i <= Len(w) \/ off + i = Len(w) + 1 \/ off + i = Len(w) + 2
    BY <2>p, <2>r
  <2> QED
    BY <2>2, <2>3, <2>4, <2>5
<1>7. t # <<>>
  BY <1>1, <1>3
<1> QED
  BY <1>3, <1>5, <1>6, <1>7 DEF Output, t, p

\* send() moves units from the write buffer to the socket.
LEMMA OutputSend ==
    ASSUME NEW h \in Nat, NEW g \in Seq(ResponseUnit), NEW o \in Seq(ResponseUnit),
           NEW w \in Seq(ResponseUnit), NEW off \in Nat,
           Received(h, g, o), Output(h, g, o, w, off), NEW n \in 1..(Len(w) - off)
    PROVE  LET p == o \o SubSeq(w, off + 1, off + n)
           IN  p \in Seq(ResponseUnit) /\ Received(h, g, p) /\ Output(h, g, p, w, off + n)
<1> DEFINE y == SubSeq(w, off + 1, off + n)
           p == o \o y
<1>1. Len(g) \in Nat /\ Len(o) \in Nat /\ Len(w) \in Nat
  OBVIOUS
<1>2. off <= Len(w) /\ Len(g) + Len(o) + (Len(w) - off) = 2 * h
  BY DEF Output
<1>3. y \in Seq(ResponseUnit) /\ Len(y) = n /\ \A i \in 1..n : y[i] = w[off + i]
  <2>1. off + 1 \in 1..(Len(w) + 1) /\ off + n \in (off + 1 - 1)..Len(w)
    BY <1>1, <1>2
  <2>2. /\ y \in Seq(ResponseUnit) /\ Len(y) = off + n - (off + 1) + 1
        /\ \A i \in 1..(off + n - (off + 1) + 1) : y[i] = w[off + 1 + i - 1]
    BY <2>1, PieceFacts
  <2>3. off + n - (off + 1) + 1 = n /\ \A i \in 1..n : off + 1 + i - 1 = off + i
    OBVIOUS
  <2> QED
    BY <2>2, <2>3
<1> HIDE DEF y
<1>4. /\ p \in Seq(ResponseUnit) /\ Len(p) = Len(o) + n
      /\ \A i \in 1..(Len(o) + n) : p[i] = IF i <= Len(o) THEN o[i] ELSE y[i - Len(o)]
  <2>1. /\ p \in Seq(ResponseUnit) /\ Len(p) = Len(o) + Len(y)
        /\ \A i \in 1..(Len(o) + Len(y)) : p[i] = IF i <= Len(o) THEN o[i] ELSE y[i - Len(o)]
    BY <1>3, ConcatProperties
  <2> QED
    BY <1>1, <1>3, <2>1
<1> HIDE DEF p
<1>5. Received(h, g, p)
  <2>1. Len(g) + Len(p) <= 2 * h
    BY <1>1, <1>2, <1>4
  <2>2. ASSUME NEW i \in 1..Len(p) PROVE p[i] = AnswerUnit(Len(g) + i)
    <3>1. CASE i <= Len(o)
      <4>1. i \in 1..Len(o) /\ i \in 1..(Len(o) + n)
        BY <1>1, <1>4, <3>1
      <4>2. p[i] = o[i]
        BY <1>4, <3>1, <4>1
      <4> QED
        BY <4>1, <4>2 DEF Received
    <3>2. CASE i > Len(o)
      <4>1. i - Len(o) \in 1..n /\ i - Len(o) \in 1..(Len(w) - off)
        BY <1>1, <1>4, <3>2
      <4>2. p[i] = w[off + (i - Len(o))]
        BY <1>1, <1>3, <1>4, <3>2, <4>1
      <4>3. p[i] = AnswerUnit(Len(g) + Len(o) + (i - Len(o)))
        BY <4>1, <4>2 DEF Output
      <4>4. Len(g) + Len(o) + (i - Len(o)) = Len(g) + i
        BY <1>1, <1>4
      <4> QED
        BY <4>3, <4>4
    <3> QED
      BY <1>1, <1>4, <3>1, <3>2
  <2> QED
    BY <2>1, <2>2 DEF Received
<1>6. Output(h, g, p, w, off + n)
  <2>1. off + n <= Len(w) /\ Len(g) + Len(p) + (Len(w) - (off + n)) = 2 * h
    BY <1>1, <1>2, <1>4
  <2>2. ASSUME NEW i \in 1..(Len(w) - (off + n))
        PROVE  w[off + n + i] = AnswerUnit(Len(g) + Len(p) + i)
    <3>1. n + i \in 1..(Len(w) - off)
      BY <1>1
    <3>2. w[off + (n + i)] = AnswerUnit(Len(g) + Len(o) + (n + i))
      BY <3>1 DEF Output
    <3>3. off + (n + i) = off + n + i /\ Len(g) + Len(o) + (n + i) = Len(g) + Len(p) + i
      BY <1>1, <1>4
    <3> QED
      BY <3>2, <3>3
  <2> QED
    BY <2>1, <2>2 DEF Output
<1> QED
  BY <1>4, <1>5, <1>6 DEF p, y

\* The client receives a unit.
LEMMA OutputReceive ==
    ASSUME NEW h \in Nat, NEW g \in Seq(ResponseUnit), NEW o \in Seq(ResponseUnit), o # <<>>,
           Received(h, g, o)
    PROVE  /\ Append(g, Head(o)) \in Seq(ResponseUnit) /\ Tail(o) \in Seq(ResponseUnit)
           /\ Received(h, Append(g, Head(o)), Tail(o))
           /\ \A w \in Seq(ResponseUnit) : \A off \in Nat :
                 Output(h, g, o, w, off) => Output(h, Append(g, Head(o)), Tail(o), w, off)
<1> DEFINE u == Head(o)
           k == Append(g, u)
           p == Tail(o)
<1>1. /\ Len(o) \in Nat \ {0} /\ u = o[1] /\ u \in ResponseUnit
      /\ p \in Seq(ResponseUnit) /\ Len(p) = Len(o) - 1
      /\ \A i \in 1..(Len(o) - 1) : p[i] = o[i + 1]
  BY TailFacts
<1> HIDE DEF u, p
<1>2. /\ Len(g) \in Nat /\ k \in Seq(ResponseUnit) /\ Len(k) = Len(g) + 1
      /\ k[Len(g) + 1] = u /\ \A i \in 1..Len(g) : k[i] = g[i]
  BY <1>1, SeqFacts
<1> HIDE DEF k
<1>3. Len(k) + Len(p) = Len(g) + Len(o)
  BY <1>1, <1>2
<1>4. ASSUME NEW i \in 1..Len(k) PROVE k[i] = AnswerUnit(i)
  <2>1. CASE i \in 1..Len(g)
    BY <1>2, <2>1 DEF Received
  <2>2. CASE i = Len(g) + 1
    BY <1>1, <1>2, <2>2 DEF Received
  <2> QED
    BY <1>2, <2>1, <2>2
<1>5. ASSUME NEW i \in 1..Len(p) PROVE p[i] = AnswerUnit(Len(k) + i)
  <2>1. p[i] = o[i + 1] /\ i + 1 \in 1..Len(o)
    BY <1>1
  <2>2. Len(g) + (i + 1) = Len(k) + i
    BY <1>1, <1>2
  <2> QED
    BY <2>1, <2>2 DEF Received
<1>6. Received(h, k, p)
  BY <1>3, <1>4, <1>5 DEF Received
<1>7. \A w \in Seq(ResponseUnit) : \A off \in Nat : Output(h, g, o, w, off) => Output(h, k, p, w, off)
  BY <1>3 DEF Output
<1> QED
  BY <1>1, <1>2, <1>6, <1>7 DEF k, u, p

\* Everything is sent: the write buffer starts again.
LEMMA OutputDrain ==
    ASSUME NEW h \in Nat, NEW g \in Seq(ResponseUnit), NEW o \in Seq(ResponseUnit),
           NEW w \in Seq(ResponseUnit), NEW off \in Nat, Output(h, g, o, w, off), off >= Len(w)
    PROVE  Output(h, g, o, <<>>, 0)
<1>1. Len(g) \in Nat /\ Len(o) \in Nat /\ Len(w) \in Nat /\ Len(<<>>) = 0
  OBVIOUS
<1>2. off = Len(w)
  BY <1>1 DEF Output
<1> QED
  BY <1>1, <1>2 DEF Output

----------------------------------------------------------------------------
(* What steps have in common *)

\* The client behind a descriptor in the table.
LEMMA Tabled ==
    ASSUME TableInv, NEW f \in InTable
    PROVE  /\ f \in Fd /\ clients[f] # None /\ clients[f] \in ClientState
           /\ clients[f].conn \in Conn /\ conn[clients[f].conn] = "open"
           /\ clients[f].read_buffer \in Seq(RequestUnit)
           /\ clients[f].write_buffer \in Seq(ResponseUnit)
           /\ clients[f].write_offset \in Nat
           /\ clients[f].joined \in [Consumer -> Nat]
<1>1. f \in Fd /\ clients[f] # None /\ clients[f] \in ClientState
  BY DEF TableInv, InTable
<1>2. conn[clients[f].conn] = "open"
  BY DEF TableInv
<1> QED
  BY <1>1, <1>2 DEF ClientState

\* Nothing changes for the connection d.
Same(d) ==
    /\ asked'[d] = asked[d] /\ half'[d] = half[d] /\ inbox'[d] = inbox[d]
    /\ outbox'[d] = outbox[d] /\ got'[d] = got[d]
    /\ handled'[d] = handled[d] /\ conn'[d] = conn[d]

\* A step that concerns the streams of one connection only.
LEMMA StreamStep ==
    ASSUME StreamInv, TableInv, NEW c \in Conn, \A d \in Conn : d # c => Same(d),
           StreamOf(c)',
           \A f \in InTable' : \/ clients'[f].conn = c /\ Served(f)'
                               \/ f \in InTable /\ clients[f].conn # c /\ clients'[f] = clients[f]
    PROVE  StreamInv'
<1>1. ASSUME NEW d \in Conn, d # c PROVE StreamOf(d)'
  <2>1. StreamOf(d) /\ Same(d)
    BY <1>1 DEF StreamInv
  <2> QED
    BY <2>1 DEF StreamOf, Same
<1>2. ASSUME NEW f \in InTable, clients[f].conn # c, clients'[f] = clients[f] PROVE Served(f)'
  <2>1. Served(f) /\ Same(clients[f].conn)
    BY <1>2, Tabled DEF StreamInv
  <2> QED
    BY <1>2, <2>1 DEF Served, Same
<1> QED
  BY <1>1, <1>2 DEF StreamInv

\* A step that changes nothing about the streams.
LEMMA StreamStays ==
    ASSUME StreamInv, UNCHANGED <<asked, half, inbox, outbox, got, handled, conn, clients>>
    PROVE  StreamInv'
BY DEF StreamInv, StreamOf, Served, InTable

\* Why c may be closed.
Cause(c) ==
    \/ peer[c] # "up"
    \/ c \in failed \/ pc = "stopped"
    \/ \E i \in DOMAIN asked[c] : asked[c][i].op \in {"fails", "oversized"}

\* What is a cause remains one.
LEMMA CauseStep ==
    ASSUME ClosedForCause, failed \subseteq failed', pc = "stopped" => pc' = "stopped",
           UNCHANGED <<asked, peer>>,
           \A c \in Conn : conn'[c] = "closed" => conn[c] = "closed" \/ Cause(c)'
    PROVE  ClosedForCause'
<1> SUFFICES ASSUME NEW c \in Conn, conn[c] = "closed" PROVE Cause(c)'
  BY DEF ClosedForCause, Cause
<1>1. Cause(c)
  BY DEF ClosedForCause, Cause
<1> QED
  BY <1>1 DEF Cause

\* The events stay, and what they name.
LEMMA EventsStay ==
    ASSUME EventsInv, events' = events, \A e \in Event : Fresh(e) => Fresh(e)',
           \/ pc' = pc
           \/ /\ pc \notin {"wait", "stopped"} /\ pc' \in {"accept", "read", "extract", "write"}
              /\ pc' # "accept" => events[1].fd # 0
    PROVE  EventsInv'
<1>1. \A i \in 1..Len(events) : events[i] \in Event /\ Fresh(events[i])
  BY DEF EventsInv
<1>2. ASSUME NEW i \in 1..Len(events) PROVE Fresh(events[i])'
  <2>1. PICK e \in Event : e = events[i] /\ Fresh(e)
    BY <1>1
  <2>2. Fresh(e)' /\ events'[i] = e
    BY <2>1
  <2> QED
    BY <2>2 DEF Fresh
<1> QED
  BY <1>2 DEF EventsInv

\* The first event is done with.
LEMMA EventsMove ==
    ASSUME EventsInv, events # <<>>, NextEvent,
           \A e \in Event : e.fd # Current /\ Fresh(e) => Fresh(e)'
    PROVE  EventsInv'
<1>1. /\ Len(events) \in Nat \ {0} /\ Head(events) = events[1] /\ events[1] \in Event
      /\ events' \in Seq(Event) /\ Len(events') = Len(events) - 1
      /\ \A i \in 1..(Len(events) - 1) : events'[i] = events[i + 1]
  BY TailFacts DEF EventsInv, NextEvent
<1>2. \A i \in 1..Len(events') : i \in Nat /\ i + 1 \in 1..Len(events) /\ i + 1 # 1 /\ events'[i] = events[i + 1]
  BY <1>1
<1>3. \A i, j \in 1..Len(events') : events'[i].fd = events'[j].fd => i = j
  BY <1>2 DEF EventsInv
<1>4. ASSUME NEW i \in 1..Len(events') PROVE Fresh(events[i])'
  <2>1. PICK e \in Event : e = events[i + 1]
    BY <1>2 DEF EventsInv
  <2>2. 1 \in 1..Len(events) /\ events[i + 1].fd # events[1].fd
    BY <1>1, <1>2 DEF EventsInv
  <2>3. e.fd # Current /\ Fresh(e)
    BY <1>1, <1>2, <2>1, <2>2 DEF EventsInv, Current
  <2>4. Fresh(e)' /\ events'[i] = e
    BY <1>2, <2>1, <2>3
  <2> QED
    BY <2>4 DEF Fresh
<1>5. events' = <<>> <=> pc' \in {"wait", "stopped"}
  <2>1. CASE Len(events) = 1
    BY <1>1, <2>1 DEF NextEvent
  <2>2. CASE Len(events) # 1
    BY <1>1, <2>2 DEF NextEvent
  <2> QED
    BY <2>1, <2>2
<1>6. pc' \in {"wait", "dispatch"}
  BY DEF NextEvent
<1> QED
  BY <1>1, <1>3, <1>4, <1>5, <1>6 DEF EventsInv

\* A step of the loop from one event, or one place in handling it, to the next.
LEMMA LoopStep ==
    ASSUME IInv, UNCHANGED <<sockets, conn, clients, broker>>, failed \subseteq failed',
           pc # "stopped", EventsInv'
    PROVE  IInv'
<1> USE DEF sockets, broker
<1>1. AskedInv' /\ SocketsInv'
  BY DEF IInv, AskedInv, Asked, SocketsInv
<1>2. TableInv' /\ MembersInv'
  BY DEF IInv, TableInv, InTable, MembersInv, MembersConnected
<1>3. StreamInv'
  BY StreamStays DEF IInv
<1>4. ClosedForCause'
  <2>1. \A c \in Conn : conn'[c] = "closed" => conn[c] = "closed" \/ Cause(c)'
    OBVIOUS
  <2> QED
    BY <2>1, CauseStep DEF IInv
<1> QED
  BY <1>1, <1>2, <1>3, <1>4 DEF IInv

\* A client's list changes from old to new and the members become m: whoever is a member
\* now is in the list, or was a member before and not by this list.
Kept(old, new, m) ==
    /\ m \subseteq Consumer
    /\ \A i \in m : new[i] > 0 \/ (i \in members /\ ~(old[i] > 0))

\* Neither changes.
LEMMA KeptSame ==
    ASSUME IInv, NEW f \in InTable
    PROVE  Kept(clients[f].joined, clients[f].joined, members)
BY DEF IInv, MembersInv, Kept

\* The state of the client with descriptor f becomes t.
Entry(f, t) ==
    /\ t \in ClientState
    /\ t.conn = clients[f].conn
    /\ t.out <=> t.write_buffer # <<>>
    /\ clients' = [clients EXCEPT ![f] = t]
    /\ Kept(clients[f].joined, t.joined, members')

\* The state of one client changes and the connection stays.
LEMMA EntryStep ==
    ASSUME TableInv, MembersInv, pc # "stopped",
           NEW f \in InTable, NEW t, Entry(f, t), UNCHANGED <<conn, peer>>
    PROVE  /\ TableInv' /\ MembersInv'
           /\ InTable' = InTable /\ clients'[f] = t
           /\ \A g \in InTable : g # f => clients'[g] = clients[g] /\ clients[g].conn # t.conn
           /\ \A e \in Event : Fresh(e) => Fresh(e)'
<1> USE DEF Entry
<1>1. f \in Fd /\ conn[t.conn] = "open" /\ t # None
  BY Tabled, NoneAssumption
<1>2. clients \in [Fd -> ClientState \cup {None}]
  BY DEF TableInv
<1>3. /\ clients' \in [Fd -> ClientState \cup {None}] /\ clients'[f] = t
      /\ \A g \in Fd : g # f => clients'[g] = clients[g]
  BY <1>1, <1>2
<1>4. InTable' = InTable
  BY <1>1, <1>3 DEF InTable
<1>5. \A g \in InTable : g \in Fd /\ (g # f => clients'[g] = clients[g] /\ clients[g].conn # t.conn)
  BY <1>3, Tabled DEF TableInv
<1>6. \A g \in InTable : clients'[g].conn = clients[g].conn
  BY <1>3, <1>5
<1>7. TableInv'
  <2>1. \A g \in InTable' : conn'[clients'[g].conn] = "open" /\ (clients'[g].out <=> clients'[g].write_buffer # <<>>)
    BY <1>1, <1>3, <1>4, <1>5 DEF TableInv
  <2>2. \A g, h \in InTable' : clients'[g].conn = clients'[h].conn => g = h
    BY <1>4, <1>6 DEF TableInv
  <2> QED
    BY <1>3, <2>1, <2>2 DEF TableInv
<1>8. MembersInv'
  <2>1. Kept(clients[f].joined, t.joined, members')
    OBVIOUS
  <2>2. ASSUME NEW i \in members' PROVE \E g \in InTable' : clients'[g].joined[i] > 0
    <3>1. CASE t.joined[i] > 0
      BY <1>3, <1>4, <3>1
    <3>2. CASE i \in members /\ ~(clients[f].joined[i] > 0)
      <4>1. PICK g \in InTable : clients[g].joined[i] > 0
        BY <3>2 DEF MembersInv, MembersConnected
      <4>2. g # f
        BY <3>2, <4>1
      <4> QED
        BY <1>4, <1>5, <4>1, <4>2
    <3> QED
      BY <2>1, <3>1, <3>2 DEF Kept
  <2> QED
    BY <2>1, <2>2 DEF Kept, MembersInv, MembersConnected
<1>9. ASSUME NEW e \in Event, Fresh(e) PROVE Fresh(e)'
  <2>1. CASE e.fd = 0
    BY <2>1 DEF Fresh
  <2>2. CASE e.fd # 0
    <3>1. e.fd \in InTable
      BY <1>9, <2>2 DEF Fresh, InTable, Event
    <3>2. clients'[e.fd] # None /\ clients'[e.fd].conn = clients[e.fd].conn
      BY <1>4, <1>6, <3>1 DEF InTable
    <3> QED
      BY <1>9, <2>2, <3>2 DEF Fresh
  <2> QED
    BY <2>1, <2>2
<1> QED
  BY <1>3, <1>4, <1>5, <1>7, <1>8, <1>9

\* The units that a client has not received are lost, or more of its requests are handled.
LEMMA ReceivedLess ==
    ASSUME NEW h \in Nat, NEW k \in Nat, h <= k,
           NEW g \in Seq(ResponseUnit), NEW o \in Seq(ResponseUnit), Received(h, g, o)
    PROVE  Received(k, g, o) /\ Received(k, g, <<>>)
<1>1. Len(g) \in Nat /\ Len(o) \in Nat /\ Len(<<>>) = 0
  OBVIOUS
<1>2. Len(g) + Len(o) <= 2 * k /\ Len(g) + 0 <= 2 * k
  BY <1>1 DEF Received
<1>3. \A i \in 1..Len(<<>>) : FALSE
  BY <1>1
<1> QED
  BY <1>1, <1>2, <1>3 DEF Received

\* Of c the same requests are handled, or the next one too.
Carried(c) ==
    /\ handled' \in [Conn -> Seq(1..MaxRequests)]
    /\ \A d \in Conn : d # c => handled'[d] = handled[d]
    /\ \A i \in 1..Len(handled'[c]) : handled'[c][i] = i
    /\ Len(handled[c]) <= Len(handled'[c])
    /\ 2 * Len(handled'[c]) <= Length(asked[c], half[c])

\* The sockets of the connections S are closed: what is true of the streams stays true.
LEMMA SocketsClose ==
    ASSUME SocketsInv, NEW S \in SUBSET Conn, CloseSockets(S)
    PROVE  /\ conn' \in [Conn -> {"new", "backlog", "open", "closed"}]
           /\ outbox' \in [Conn -> Seq(ResponseUnit)]
           /\ \A c \in S : conn'[c] = "closed" /\ outbox'[c] \in {<<>>, outbox[c]}
           /\ \A c \in Conn : c \notin S => conn'[c] = conn[c] /\ outbox'[c] = outbox[c]
<1>1. conn \in [Conn -> {"new", "backlog", "open", "closed"}] /\ outbox \in [Conn -> Seq(ResponseUnit)]
  BY DEF SocketsInv
<1>2. <<>> \in Seq(ResponseUnit)
  OBVIOUS
<1> QED
  BY <1>1, <1>2 DEF CloseSockets

\* close_client for the client of the event being handled, for a reason.
LEMMA CloseStep ==
    ASSUME IInv, NEW f \in InTable, f = Current, events # <<>>, pc # "stopped",
           NEW c \in Conn, c = clients[f].conn, Cause(c)', failed \subseteq failed',
           NEW s, s.conn = c, NEW m, Kept(clients[f].joined, s.joined, m),
           CloseClient(s, f, m), Carried(c)
    PROVE  IInv'
<1>1. c = clients[f].conn
  OBVIOUS
<1>2. f \in Fd /\ clients \in [Fd -> ClientState \cup {None}]
  BY Tabled DEF IInv, TableInv
<1>3. /\ conn' \in [Conn -> {"new", "backlog", "open", "closed"}]
      /\ outbox' \in [Conn -> Seq(ResponseUnit)]
      /\ conn'[c] = "closed" /\ outbox'[c] \in {<<>>, outbox[c]}
      /\ \A d \in Conn : d # c => conn'[d] = conn[d] /\ outbox'[d] = outbox[d]
  <2>1. {c} \in SUBSET Conn /\ CloseSockets({c})
    BY <1>1 DEF CloseClient
  <2> QED
    BY <2>1, SocketsClose DEF IInv
<1>4. UNCHANGED <<asked, half, inbox, got, peer>>
  BY DEF CloseClient, CloseSockets
<1>5. /\ clients' \in [Fd -> ClientState \cup {None}] /\ clients'[f] = None
      /\ \A g \in Fd : g # f => clients'[g] = clients[g]
  BY <1>2 DEF CloseClient
<1>6. InTable' = InTable \ {f} /\ \A g \in InTable' : g \in InTable /\ clients'[g] = clients[g] /\ clients[g].conn # c
  <2>1. InTable' = InTable \ {f}
    BY <1>5 DEF InTable
  <2>2. \A g \in InTable \ {f} : g \in Fd /\ clients[g].conn # c
    BY <1>1, Tabled DEF IInv, TableInv
  <2> QED
    BY <1>5, <2>1, <2>2
<1>7. AskedInv' /\ SocketsInv'
  BY <1>1, <1>3, <1>4 DEF IInv, AskedInv, Asked, SocketsInv, Carried
<1>8. TableInv'
  <2>1. \A g \in InTable' : conn'[clients'[g].conn] = "open" /\ (clients'[g].out <=> clients'[g].write_buffer # <<>>)
    <3>1. \A g \in InTable : clients[g].conn \in Conn /\ conn[clients[g].conn] = "open"
      BY Tabled DEF IInv
    <3> QED
      BY <1>3, <1>6, <3>1 DEF IInv, TableInv
  <2>2. \A g, h \in InTable' : clients'[g].conn = clients'[h].conn => g = h
    BY <1>6 DEF IInv, TableInv
  <2> QED
    BY <1>5, <2>1, <2>2 DEF TableInv
<1>9. EventsInv'
  <2>1. ASSUME NEW e \in Event, e.fd # Current, Fresh(e) PROVE Fresh(e)'
    <3>1. CASE e.fd = 0
      BY <3>1 DEF Fresh
    <3>2. CASE e.fd # 0
      <4>1. e.fd \in Fd
        BY <3>2 DEF Event
      <4> QED
        BY <1>4, <1>5, <2>1, <3>2, <4>1 DEF Fresh
    <3> QED
      BY <3>1, <3>2
  <2>2. NextEvent /\ EventsInv
    BY DEF CloseClient, IInv
  <2> QED
    BY <2>1, <2>2, EventsMove
<1>10. StreamInv'
  <2>1. ASSUME NEW d \in Conn, d # c PROVE Same(d)
    BY <1>1, <1>3, <1>4, <2>1 DEF Same, Carried
  <2>2. StreamOf(c)'
    <3>1. /\ handled[c] \in Seq(1..MaxRequests) /\ handled'[c] \in Seq(1..MaxRequests)
          /\ got[c] \in Seq(ResponseUnit) /\ outbox[c] \in Seq(ResponseUnit)
      BY <1>7 DEF IInv, SocketsInv
    <3>2. Len(handled[c]) \in Nat /\ Len(handled'[c]) \in Nat /\ Len(handled[c]) <= Len(handled'[c])
      BY <1>1, <3>1 DEF Carried
    <3>3. Received(Len(handled[c]), got[c], outbox[c])
      BY DEF IInv, StreamInv, StreamOf
    <3>4. Received(Len(handled'[c]), got[c], outbox[c]) /\ Received(Len(handled'[c]), got[c], <<>>)
      BY <3>1, <3>2, <3>3, ReceivedLess
    <3>5. Received(Len(handled'[c]), got'[c], outbox'[c])
      BY <1>3, <1>4, <3>4
    <3> QED
      BY <1>1, <1>3, <1>4, <3>5 DEF StreamOf, Carried
  <2> QED
    BY <1>6, <2>1, <2>2, StreamStep DEF IInv
<1>11. MembersInv'
  <2>1. members' = m \ {i \in Consumer : s.joined[i] > 0} /\ m \subseteq Consumer
    BY DEF CloseClient, Kept
  <2>2. ASSUME NEW i \in members' PROVE \E g \in InTable' : clients'[g].joined[i] > 0
    <3>1. i \in members /\ ~(clients[f].joined[i] > 0)
      BY <2>1 DEF Kept
    <3>2. PICK g \in InTable : clients[g].joined[i] > 0
      BY <3>1 DEF IInv, MembersInv, MembersConnected
    <3>3. g # f
      BY <3>1, <3>2
    <3> QED
      BY <1>6, <3>2, <3>3
  <2> QED
    BY <2>1, <2>2 DEF MembersInv, MembersConnected
<1>12. ClosedForCause'
  <2>1. \A d \in Conn : conn'[d] = "closed" => conn[d] = "closed" \/ Cause(d)'
    BY <1>3
  <2> QED
    BY <1>4, <2>1, CauseStep DEF IInv
<1> QED
  BY <1>7, <1>8, <1>9, <1>10, <1>11, <1>12 DEF IInv

----------------------------------------------------------------------------
(* The steps of the event loop *)

\* The event being handled, and the client it is for.
LEMMA FirstEvent ==
    ASSUME IInv, pc \in {"dispatch", "accept", "read", "extract", "write"}
    PROVE  /\ events # <<>> /\ pc # "stopped" /\ pc # "wait"
           /\ Head(events) = events[1] /\ events[1] \in Event /\ Current = events[1].fd
           /\ Current # 0 =>
                 /\ Current \in InTable
                 /\ State.conn = events[1].conn
                 /\ events[1].hup => peer[State.conn] = "dead"
           /\ pc \in {"read", "extract", "write"} => Current # 0
<1>1. events # <<>> /\ events \in Seq(Event) /\ pc # "stopped" /\ pc # "wait"
  BY DEF IInv, EventsInv
<1>2. Head(events) = events[1] /\ events[1] \in Event /\ 1 \in 1..Len(events)
  BY <1>1, TailFacts
<1>3. Fresh(events[1])
  BY <1>2 DEF IInv, EventsInv
<1>4. Current = events[1].fd
  BY <1>2 DEF Current
<1>5. ASSUME Current # 0 
      PROVE  /\ Current \in InTable /\ State.conn = events[1].conn
             /\ events[1].hup => peer[State.conn] = "dead"
  BY <1>2, <1>3, <1>4, <1>5 DEF Fresh, Event, InTable, State
<1>6. pc \in {"read", "extract", "write"} => Current # 0
  BY <1>4 DEF IInv, EventsInv
<1> QED
  BY <1>1, <1>2, <1>4, <1>5, <1>6

\* No request is carried out.
LEMMA CarriedSame ==
    ASSUME IInv, NEW c \in Conn, handled' = handled PROVE Carried(c)
<1>1. handled \in [Conn -> Seq(1..MaxRequests)] /\ StreamOf(c)
  BY DEF IInv, SocketsInv, StreamInv
<1>2. Len(handled[c]) \in Nat
  BY <1>1
<1> QED
  BY <1>1, <1>2 DEF Carried, StreamOf

\* The first request in the read buffer is the one after those handled.
LEMMA FirstFrame ==
    ASSUME IInv, NEW f \in InTable, NEW c \in Conn, c = clients[f].conn,
           clients[f].read_buffer # <<>>
    PROVE  /\ Len(handled[c]) \in Nat
           /\ clients[f].read_buffer[1] \in RequestUnit
           /\ clients[f].read_buffer[1].id = Len(handled[c]) + 1
           /\ clients[f].read_buffer[1].id \in 1..MaxRequests
           /\ Len(handled[c]) + 1 \in DOMAIN asked[c]
           /\ clients[f].read_buffer[1].kind = asked[c][Len(handled[c]) + 1]
<1>1. PICK r \in Seq(RequestUnit) : r = clients[f].read_buffer
  BY Tabled DEF IInv
<1>2. PICK x \in Seq(RequestUnit) : x = inbox[c]
  BY DEF IInv, SocketsInv
<1>3. PICK a \in Seq(Kind) : a = asked[c]
  BY DEF IInv, AskedInv
<1>4. PICK hf \in BOOLEAN : hf = half[c]
  BY DEF IInv, AskedInv
<1>5. PICK h \in Nat : h = Len(handled[c])
  BY DEF IInv, SocketsInv
<1>6. Input(a, hf, h, r, x)
  BY <1>1, <1>2, <1>3, <1>4, <1>5 DEF IInv, StreamInv, Served
<1>7. r # <<>>
  BY <1>1
<1>8. h + 1 \in 1..Len(a) /\ r[1].id = h + 1 /\ r[1].kind = a[h + 1]
  BY <1>6, <1>7, InputFirst
<1>9. r[1] \in RequestUnit /\ r[1].id \in 1..MaxRequests
  <2>1. r[1] \in RequestUnit
    BY <1>7
  <2> QED
    BY <2>1 DEF RequestUnit
<1>10. DOMAIN a = 1..Len(a)
  OBVIOUS
<1> QED
  BY <1>1, <1>3, <1>5, <1>8, <1>9, <1>10

\* A complete request is carried out.
LEMMA CarriedNext ==
    ASSUME IInv, NEW c \in Conn, Current \in InTable, c = State.conn, Complete
    PROVE  Carried(c) /\ Len(handled'[c]) = Len(handled[c]) + 1
<1> DEFINE r == State.read_buffer
<1>1. r \in Seq(RequestUnit) /\ State = clients[Current]
  BY Tabled DEF IInv, State
<1>2. Len(r) >= 2 /\ r # <<>>
  BY <1>1 DEF Complete
<1>3. r[1].id = Len(handled[c]) + 1 /\ r[1].id \in 1..MaxRequests
  BY <1>1, <1>2, FirstFrame
<1>4. handled' = [handled EXCEPT ![c] = Append(@, r[1].id)]
  BY DEF Complete
<1>5. PICK k : k = r[1].id
  OBVIOUS
<1>6. handled \in [Conn -> Seq(1..MaxRequests)] /\ \A i \in 1..Len(handled[c]) : handled[c][i] = i
  BY DEF IInv, SocketsInv, StreamInv, StreamOf
<1>7. /\ handled' \in [Conn -> Seq(1..MaxRequests)] /\ handled'[c] = Append(handled[c], k)
      /\ \A d \in Conn : d # c => handled'[d] = handled[d]
  BY <1>3, <1>4, <1>5, <1>6
<1>8. PICK q \in Seq(1..MaxRequests) : q = handled[c]
  BY <1>6
<1>9. /\ Len(q) \in Nat /\ Len(Append(q, k)) = Len(q) + 1 /\ Append(q, k)[Len(q) + 1] = k
      /\ \A i \in 1..Len(q) : Append(q, k)[i] = q[i]
  BY <1>3, <1>5, SeqFacts
<1>10. k = Len(q) + 1
  BY <1>3, <1>5, <1>8
<1>11. \A i \in 1..(Len(q) + 1) : i \in 1..Len(q) \/ i = Len(q) + 1
  BY <1>9
<1>12. \A i \in 1..Len(handled'[c]) : handled'[c][i] = i
  BY <1>6, <1>7, <1>8, <1>9, <1>10, <1>11
<1>13. 2 * (Len(q) + 1) <= Length(asked[c], half[c])
  <2>1. 2 * Len(handled[c]) + Len(r) + Len(inbox[c]) = Length(asked[c], half[c])
    BY <1>1 DEF IInv, StreamInv, Served, Input
  <2>2. PICK m \in Nat : m = Len(r)
    BY <1>1
  <2>3. PICK n \in Nat : n = Len(inbox[c])
    BY DEF IInv, SocketsInv
  <2>4. 2 * Len(q) + m + n = Length(asked[c], half[c]) /\ m >= 2
    BY <1>2, <1>8, <2>1, <2>2, <2>3
  <2>5. \A h \in Nat : 2 * (h + 1) <= 2 * h + m + n
    BY <2>4
  <2> QED
    BY <1>9, <2>4, <2>5
<1>14. Len(handled'[c]) = Len(q) + 1
  BY <1>7, <1>8, <1>9
<1> QED
  BY <1>7, <1>8, <1>12, <1>13, <1>14 DEF Carried

\* Dispatch: the kind of event, an unknown descriptor, a hang-up, or the client's turn.
LEMMA DispatchStep == ASSUME IInv, Dispatch PROVE IInv'
<1> DEFINE e == Head(events)
<1>1. /\ pc = "dispatch" /\ UNCHANGED history
      /\ pc \in {"dispatch", "accept", "read", "extract", "write"}
  BY DEF Dispatch
<1>2. failed' = failed
  BY <1>1 DEF history
<1>3. /\ events # <<>> /\ e = events[1] /\ e \in Event /\ Current = e.fd
      /\ Current # 0 => Current \in InTable /\ (e.hup => peer[State.conn] = "dead")
  BY <1>1, FirstEvent
<1>4. CASE e.fd = 0
  <2>1. pc' = "accept" /\ UNCHANGED <<sockets, conn, clients, events, broker>>
    BY <1>4 DEF Dispatch
  <2>2. \A k \in Event : Fresh(k) => Fresh(k)'
    BY <2>1 DEF Fresh, sockets
  <2>3. EventsInv'
    BY <1>1, <2>1, <2>2, EventsStay DEF IInv
  <2> QED
    BY <1>1, <1>2, <2>1, <2>3, LoopStep
<1>5. CASE e.fd # 0 /\ clients[e.fd] = None
  BY <1>3, <1>5 DEF InTable
<1>6. CASE e.fd # 0 /\ clients[e.fd] # None /\ e.hup
  <2>1. CloseClient(State, Current, members) /\ handled' = handled
    BY <1>6 DEF Dispatch, State, Current
  <2>2. PICK f \in InTable : f = Current
    BY <1>3, <1>6
  <2>3. PICK c \in Conn : c = State.conn
    BY <2>2, Tabled DEF IInv, State
  <2>4. peer[c] = "dead" /\ State = clients[f]
    BY <1>3, <1>6, <2>2, <2>3 DEF State
  <2>5. Cause(c)'
    BY <2>1, <2>4 DEF Cause, CloseClient, CloseSockets
  <2>6. Carried(c)
    BY <2>1, CarriedSame
  <2>7. CloseClient(clients[f], f, members) /\ clients[f].conn = c
    BY <2>1, <2>2, <2>3, <2>4
  <2>8. Kept(clients[f].joined, clients[f].joined, members)
    BY KeptSame
  <2> QED
    BY <1>1, <1>2, <1>3, <2>2, <2>5, <2>6, <2>7, <2>8, CloseStep
<1>7. CASE e.fd # 0 /\ clients[e.fd] # None /\ ~e.hup
  <2>1. pc' \in {"read", "write"} /\ UNCHANGED <<sockets, conn, clients, events, broker>>
    BY <1>7 DEF Dispatch
  <2>2. \A k \in Event : Fresh(k) => Fresh(k)'
    BY <2>1 DEF Fresh, sockets
  <2>3. EventsInv'
    BY <1>1, <1>3, <1>7, <2>1, <2>2, EventsStay DEF IInv
  <2> QED
    BY <1>1, <1>2, <2>1, <2>3, LoopStep
<1> QED
  BY <1>4, <1>5, <1>6, <1>7

\* On to the next event, with nothing else changed.
LEMMA SkipStep ==
    ASSUME IInv, NextEvent, pc \in {"dispatch", "accept", "read", "extract", "write"},
           UNCHANGED <<sockets, conn, clients, broker>>, failed \subseteq failed'
    PROVE  IInv'
<1>1. events # <<>> /\ pc # "stopped"
  BY FirstEvent
<1>2. \A e \in Event : e.fd # Current /\ Fresh(e) => Fresh(e)'
  BY DEF Fresh, sockets
<1>3. EventsInv'
  BY <1>1, <1>2, EventsMove DEF IInv
<1> QED
  BY <1>1, <1>3, LoopStep

\* The accept loop ends.
LEMMA AcceptEnds == ASSUME IInv, AcceptGivesUp \/ AcceptDone PROVE IInv'
<1>1. pc \in {"dispatch", "accept", "read", "extract", "write"} /\ NextEvent
  BY DEF AcceptGivesUp, AcceptDone
<1>2. UNCHANGED <<sockets, conn, clients, broker>> /\ failed \subseteq failed'
  BY DEF AcceptGivesUp, AcceptDone, Fails, history
<1> QED
  BY <1>1, <1>2, SkipStep

\* What a step that closes the client of the current event has to establish.
LEMMA CloseCurrent ==
    ASSUME IInv, pc \in {"read", "extract", "write"}, NEW c \in Conn, c = State.conn,
           NEW s, s.conn = c, NEW m, Kept(State.joined, s.joined, m), CloseClient(s, Current, m),
           Carried(c), Cause(c)', failed \subseteq failed'
    PROVE  IInv'
<1>1. events # <<>> /\ pc # "stopped" /\ Current \in InTable
  BY FirstEvent
<1>2. PICK f \in InTable : f = Current
  BY <1>1
<1>3. clients[f] = State
  BY <1>2 DEF State
<1> QED
  BY <1>1, <1>2, <1>3, CloseStep

\* The same where the client's list is as it was.
LEMMA CloseAsListed ==
    ASSUME IInv, pc \in {"read", "extract", "write"}, NEW c \in Conn, c = State.conn,
           CloseClient(State, Current, members), Carried(c), Cause(c)', failed \subseteq failed'
    PROVE  IInv'
<1>1. Current \in InTable
  BY FirstEvent
<1>2. Kept(State.joined, State.joined, members)
  BY <1>1, KeptSame DEF State
<1> QED
  BY <1>2, CloseCurrent

\* A place in handling the same event.
LEMMA PlaceStep ==
    ASSUME IInv, pc \in {"read", "extract", "write"}, pc' \in {"read", "extract", "write"},
           UNCHANGED <<sockets, conn, clients, events, broker>>, failed \subseteq failed'
    PROVE  IInv'
<1>1. pc # "wait" /\ pc # "stopped" /\ events[1].fd # 0
  BY FirstEvent
<1>2. \A e \in Event : Fresh(e) => Fresh(e)'
  BY DEF Fresh, sockets
<1>3. EventsInv'
  BY <1>1, <1>2, EventsStay DEF IInv
<1> QED
  BY <1>1, <1>3, LoopStep

\* The connection of the current event.
LEMMA CurrentConn ==
    ASSUME IInv, pc \in {"read", "extract", "write"}
    PROVE  Current \in InTable /\ State = clients[Current] /\ State.conn \in Conn
<1>1. Current \in InTable
  BY FirstEvent
<1> QED
  BY <1>1, Tabled DEF IInv, State

\* A step that leaves the membership of the current client alone.
LEMMA SameMembers ==
    ASSUME IInv, pc \in {"read", "extract", "write"}, members' = members,
           NEW t \in ClientState, t.conn = State.conn, t.joined = State.joined,
           t.out <=> t.write_buffer # <<>>, clients' = [clients EXCEPT ![Current] = t]
    PROVE  Entry(Current, t)
<1>1. Current \in InTable /\ State = clients[Current]
  BY CurrentConn
<1>2. Kept(clients[Current].joined, t.joined, members')
  BY <1>1, KeptSame
<1> QED
  BY <1>1, <1>2 DEF Entry

\* The loop writes or reads for the client of the current event, whose connection stays open:
\* what remains to be shown.
LEMMA TransferStep ==
    ASSUME IInv, pc \in {"read", "extract", "write"}, pc' \in {"read", "extract", "write"},
           events' = events, UNCHANGED <<asked, half, got, peer, conn, failed>>,
           NEW c \in Conn, c = State.conn, NEW t, Entry(Current, t),
           SocketsInv', StreamOf(c)', \A d \in Conn : d # c => Same(d), Served(Current)'
    PROVE  IInv'
<1>1. PICK f \in InTable : f = Current
  BY CurrentConn
<1>2. State = clients[f] /\ events[1].fd # 0 /\ pc # "wait" /\ pc # "stopped" /\ Current' = Current
  BY <1>1, FirstEvent DEF State, Current
<1>3. t.conn = c /\ Entry(f, t)
  BY <1>1, <1>2 DEF Entry
<1>4. /\ TableInv' /\ MembersInv' /\ InTable' = InTable /\ clients'[f] = t
      /\ \A g \in InTable : g # f => clients'[g] = clients[g] /\ clients[g].conn # t.conn
      /\ \A e \in Event : Fresh(e) => Fresh(e)'
  <2>1. TableInv /\ MembersInv
    BY DEF IInv
  <2> QED
    BY <1>2, <1>3, <2>1, EntryStep
<1>5. EventsInv'
  BY <1>2, <1>4, EventsStay DEF IInv
<1>6. StreamInv'
  <2>1. Served(f)'
    BY <1>1, <1>2 DEF Served
  <2>2. ASSUME NEW g \in InTable'
        PROVE  \/ clients'[g].conn = c /\ Served(g)'
               \/ g \in InTable /\ clients[g].conn # c /\ clients'[g] = clients[g]
    BY <1>3, <1>4, <2>1
  <2> QED
    BY <2>2, StreamStep DEF IInv
<1>7. ClosedForCause'
  <2>1. \A d \in Conn : conn'[d] = "closed" => conn[d] = "closed" \/ Cause(d)'
    OBVIOUS
  <2> QED
    BY <1>2, <2>1, CauseStep DEF IInv
<1>8. AskedInv'
  BY DEF IInv, AskedInv, Asked
<1> QED
  BY <1>4, <1>5, <1>6, <1>7, <1>8 DEF IInv

\* The smaller of two numbers.
LEMMA SmallerFacts ==
    ASSUME NEW m \in Nat, NEW n \in Nat
    PROVE  /\ Smaller(m, n) \in Nat /\ Smaller(m, n) <= m /\ Smaller(m, n) <= n
           /\ Smaller(m, n) = 0 => m = 0 \/ n = 0
BY DEF Smaller

\* recv: a chunk, nothing for now, or the end.
LEMMA RecvStep == ASSUME IInv, Recv PROVE IInv'
<1>1. pc = "read" /\ handled' = handled /\ UNCHANGED <<failures, failed>>
  BY DEF Recv, history
<1>2. pc \in {"dispatch", "accept", "read", "extract", "write"} /\ pc \in {"read", "extract", "write"}
  BY <1>1
<1>3. PICK c \in Conn : c = State.conn
  BY <1>2, CurrentConn
<1>4. PICK n : n = Smaller(ChunkUnits, Len(inbox[c]))
  OBVIOUS
<1>5. CASE n > 0
  <2>1. PICK f \in InTable : f = Current /\ State = clients[f]
    BY <1>2, CurrentConn
  <2>2. PICK x \in Seq(RequestUnit) : x = inbox[c]
    BY DEF IInv, SocketsInv
  <2>3. PICK r \in Seq(RequestUnit) : r = State.read_buffer
    BY <2>1, Tabled DEF IInv
  <2>4. n \in 1..Len(x)
    <3>1. PICK k \in Nat : k = Len(x)
      OBVIOUS
    <3>2. ChunkUnits \in Nat /\ n = Smaller(ChunkUnits, k)
      BY <1>4, <2>2, <3>1, BoundAssumption
    <3>3. n \in Nat /\ n <= k
      BY <3>2, SmallerFacts
    <3> QED
      BY <1>5, <3>1, <3>3
  <2> DEFINE t == [State EXCEPT !.read_buffer = r \o SubSeq(x, 1, n)]
             y == SubSeq(x, n + 1, Len(x))
  <2>5. /\ clients' = [clients EXCEPT ![Current] = t]
        /\ inbox' = [inbox EXCEPT ![c] = y]
        /\ pc' = "extract" /\ UNCHANGED <<asked, half, outbox, got, peer, conn, events, members>>
    BY <1>3, <1>4, <1>5, <2>1, <2>2, <2>3 DEF Recv, State
  <2>6. /\ r \o SubSeq(x, 1, n) \in Seq(RequestUnit) /\ y \in Seq(RequestUnit)
        /\ Input(asked[c], half[c], Len(handled[c]), r \o SubSeq(x, 1, n), y)
    <3>1. Input(asked[c], half[c], Len(handled[c]), r, x)
      BY <1>3, <2>1, <2>2, <2>3 DEF IInv, StreamInv, Served
    <3>2. asked[c] \in Seq(Kind) /\ half[c] \in BOOLEAN /\ Len(handled[c]) \in Nat
      BY DEF IInv, AskedInv, SocketsInv
    <3>3. PICK a \in Seq(Kind) : a = asked[c]
      BY <3>2
    <3>4. PICK h \in Nat : h = Len(handled[c])
      BY <3>2
    <3>5. PICK hf \in BOOLEAN : hf = half[c]
      BY <3>2
    <3>6. Input(a, hf, h, r, x)
      BY <3>1, <3>3, <3>4, <3>5
    <3>7. /\ r \o SubSeq(x, 1, n) \in Seq(RequestUnit) /\ y \in Seq(RequestUnit)
          /\ Input(a, hf, h, r \o SubSeq(x, 1, n), y)
      BY <2>4, <3>6, InputRecv
    <3> QED
      BY <3>3, <3>4, <3>5, <3>7
  <2>7. /\ t \in ClientState /\ t.conn = c /\ t.joined = State.joined /\ t.out = State.out
        /\ t.write_buffer = State.write_buffer /\ t.write_offset = State.write_offset
        /\ t.read_buffer = r \o SubSeq(x, 1, n)
    <3>1. State \in ClientState
      BY <2>1, Tabled DEF IInv
    <3> QED
      BY <1>3, <2>6, <3>1 DEF ClientState
  <2>8. t.out <=> t.write_buffer # <<>>
    BY <2>1, <2>7 DEF IInv, TableInv
  <2> HIDE DEF t, y
  <2>9. inbox' \in [Conn -> Seq(RequestUnit)] /\ inbox'[c] = y /\ \A d \in Conn : d # c => inbox'[d] = inbox[d]
    BY <2>5, <2>6 DEF IInv, SocketsInv
  <2>10. SocketsInv' /\ \A d \in Conn : d # c => Same(d)
    BY <1>1, <2>5, <2>9 DEF IInv, SocketsInv, Same
  <2>11. StreamOf(c)'
    <3>1. StreamOf(c) /\ conn[c] = "open"
      BY <1>3, <2>1, Tabled DEF IInv, StreamInv
    <3> QED
      BY <1>1, <2>5, <3>1 DEF StreamOf
  <2>12. Served(Current)'
    <3>1. Served(f) /\ Current' = f /\ clients'[f] = t
      BY <2>1, <2>5 DEF IInv, StreamInv, TableInv, Current, InTable
    <3> QED
      <4>1. Output(Len(handled[c]), got[c], outbox[c], State.write_buffer, State.write_offset)
        BY <1>3, <2>1, <3>1 DEF Served
      <4>2. Input(asked[c], half[c], Len(handled[c]), t.read_buffer, y)
        BY <2>6, <2>7
      <4>3. Output(Len(handled[c]), got[c], outbox[c], t.write_buffer, t.write_offset)
        BY <2>7, <4>1
      <4>4. t.conn = c /\ inbox'[c] = y
        BY <2>7, <2>9
      <4> QED
        BY <1>1, <2>5, <3>1, <4>2, <4>3, <4>4 DEF Served
  <2>13. Entry(Current, t)
    BY <1>2, <1>3, <2>5, <2>7, <2>8, SameMembers
  <2>14. pc' \in {"read", "extract", "write"}
    BY <2>5
  <2> QED
    BY <1>1, <1>2, <1>3, <2>5, <2>10, <2>11, <2>12, <2>13, <2>14, TransferStep
<1>6. CASE ~(n > 0) /\ peer[c] = "up"
  <2>1. ReadDone /\ UNCHANGED <<sockets, conn, clients, members>>
    BY <1>3, <1>4, <1>6 DEF Recv
  <2>2. UNCHANGED <<sockets, conn, clients, broker>> /\ failed \subseteq failed'
    BY <1>1, <2>1 DEF broker
  <2>3. CASE Head(events).out
    <3>1. pc' \in {"read", "extract", "write"} /\ events' = events
      BY <2>1, <2>3 DEF ReadDone
    <3> QED
      BY <1>2, <2>2, <3>1, PlaceStep
  <2>4. CASE ~Head(events).out
    <3>1. NextEvent
      BY <2>1, <2>4 DEF ReadDone
    <3> QED
      BY <1>2, <2>2, <3>1, SkipStep
  <2> QED
    BY <2>3, <2>4
<1>7. CASE ~(n > 0) /\ peer[c] # "up"
  <2>1. CloseClient(State, Current, members)
    BY <1>3, <1>4, <1>7 DEF Recv
  <2>2. Cause(c)'
    BY <1>7, <2>1 DEF Cause, CloseClient, CloseSockets
  <2>3. Carried(c)
    BY <1>1, CarriedSame
  <2> QED
    BY <1>1, <1>2, <1>3, <2>1, <2>2, <2>3, CloseAsListed
<1> QED
  BY <1>5, <1>6, <1>7

\* The read buffer has no complete frame.
LEMMA ExtractEnds == ASSUME IInv, ExtractDone PROVE IInv'
<1>1. pc \in {"read", "extract", "write"} /\ pc' \in {"read", "extract", "write"}
  BY DEF ExtractDone
<1>2. UNCHANGED <<sockets, conn, clients, events, broker>> /\ failed \subseteq failed'
  BY DEF ExtractDone, history
<1> QED
  BY <1>1, <1>2, PlaceStep

\* What the first request in the buffer does to the client's list and to the members.
LEMMA RequestKeeps ==
    ASSUME members \subseteq Consumer, NEW s \in ClientState, s.read_buffer[1] \in RequestUnit
    PROVE  \E j \in [Consumer -> Nat] :
              AfterRequest(s) = [s EXCEPT !.joined = j] /\ Kept(s.joined, j, Membership(s))
<1>1. PICK q \in AllKinds : q = s.read_buffer[1].kind
  BY KindAssumption DEF RequestUnit
<1>2. PICK i \in Consumer : i = q.consumer
  BY DEF AllKinds
<1>3. PICK old \in [Consumer -> Nat] : old = s.joined
  BY DEF ClientState
<1>4. s = [s EXCEPT !.joined = old] /\ Kept(old, old, members)
  BY <1>3 DEF ClientState, Kept
<1>5. CASE q.op = "join" /\ i \notin members
  <2>1. PICK j \in [Consumer -> Nat] : j = [old EXCEPT ![i] = @ + 1]
    <3>1. [old EXCEPT ![i] = @ + 1] \in [Consumer -> Nat]
      OBVIOUS
    <3> QED
      BY <3>1
  <2>2. AfterRequest(s) = [s EXCEPT !.joined = j] /\ Membership(s) = members \cup {i}
    BY <1>1, <1>2, <1>3, <1>5, <2>1 DEF AfterRequest, Membership, ClientState
  <2>3. j[i] > 0 /\ \A k \in Consumer : k # i => j[k] = old[k]
    BY <2>1
  <2>4. Kept(old, j, members \cup {i})
    BY <2>3 DEF Kept
  <2> QED
    BY <1>3, <2>2, <2>4
<1>6. CASE q.op = "join" /\ i \in members
  <2>1. AfterRequest(s) = s /\ Membership(s) = members
    BY <1>1, <1>2, <1>6 DEF AfterRequest, Membership
  <2> QED
    BY <1>3, <1>4, <2>1
<1>7. CASE q.op = "leave" /\ i \in members /\ old[i] > 0
  <2>1. PICK j \in [Consumer -> Nat] : j = [old EXCEPT ![i] = @ - 1]
    <3>1. [old EXCEPT ![i] = @ - 1] \in [Consumer -> Nat]
      BY <1>7
    <3> QED
      BY <3>1
  <2>2. AfterRequest(s) = [s EXCEPT !.joined = j] /\ Membership(s) = members \ {i}
    BY <1>1, <1>2, <1>3, <1>7, <2>1 DEF AfterRequest, Membership, ClientState
  <2>3. \A k \in Consumer : k # i => j[k] = old[k]
    BY <2>1
  <2>4. Kept(old, j, members \ {i})
    BY <2>3 DEF Kept
  <2> QED
    BY <1>3, <2>2, <2>4
<1>8. CASE q.op = "leave" /\ ~(i \in members /\ old[i] > 0)
  <2>1. AfterRequest(s) = s /\ Membership(s) = members \ {i}
    BY <1>1, <1>2, <1>3, <1>8 DEF AfterRequest, Membership
  <2>2. Kept(old, old, members \ {i})
    BY <1>4 DEF Kept
  <2> QED
    BY <1>3, <1>4, <2>1, <2>2
<1>9. CASE q.op # "join" /\ q.op # "leave"
  <2>1. AfterRequest(s) = s /\ Membership(s) = members
    BY <1>1, <1>9 DEF AfterRequest, Membership
  <2> QED
    BY <1>3, <1>4, <2>1
<1> QED
  BY <1>5, <1>6, <1>7, <1>8, <1>9

\* A client is closed for its request, or because a call fails for it.
LEMMA ClosingSteps ==
    ASSUME IInv, RejectFrame \/ HandleFails \/ QueueFails \/ SendFails \/ RecvFails PROVE IInv'
<1>1. pc \in {"read", "extract", "write"}
  BY DEF RejectFrame, HandleFails, QueueFails, SendFails, RecvFails, Complete
<1>2. PICK f \in InTable : f = Current /\ State = clients[f]
  BY <1>1, CurrentConn
<1>3. PICK c \in Conn : c = State.conn
  BY <1>1, CurrentConn
<1>4. State.read_buffer \in Seq(RequestUnit) /\ State \in ClientState
  BY <1>2, Tabled DEF IInv
<1>5. ASSUME CloseClient(State, Current, members), State.read_buffer # <<>>,
             State.read_buffer[1].kind.op \in {"fails", "oversized"}
      PROVE  Cause(c)'
  <2>1. /\ Len(handled[c]) + 1 \in DOMAIN asked[c]
        /\ State.read_buffer[1].kind = asked[c][Len(handled[c]) + 1]
    BY <1>2, <1>3, <1>5, FirstFrame
  <2>2. asked' = asked
    BY <1>5 DEF CloseClient, CloseSockets
  <2> QED
    BY <1>5, <2>1, <2>2 DEF Cause
<1>6. ASSUME Complete PROVE Carried(c) /\ State.read_buffer # <<>>
  <2>1. Carried(c)
    BY <1>2, <1>3, <1>6, CarriedNext
  <2> QED
    BY <1>4, <1>6, <2>1 DEF Complete
<1>7. CASE RejectFrame
  <2>1. /\ CloseClient(State, Current, members) /\ handled' = handled /\ failed \subseteq failed'
        /\ State.read_buffer # <<>> /\ State.read_buffer[1].kind.op \in {"fails", "oversized"}
    BY <1>7 DEF RejectFrame, history
  <2>2. Cause(c)' /\ Carried(c)
    BY <1>5, <2>1, CarriedSame
  <2> QED
    BY <1>1, <1>3, <2>1, <2>2, CloseAsListed
<1>8. CASE HandleFails
  <2>1. /\ CloseClient(State, Current, members) /\ Complete /\ failed \subseteq failed'
        /\ State.read_buffer[1].kind.op \in {"fails", "oversized"}
    BY <1>8 DEF HandleFails, history
  <2>2. Cause(c)' /\ Carried(c)
    BY <1>5, <1>6, <2>1
  <2> QED
    BY <1>1, <1>3, <2>1, <2>2, CloseAsListed
<1>9. CASE QueueFails
  <2>1. Complete /\ failed' = failed \cup {c}
    BY <1>3, <1>9 DEF QueueFails, Fails
  <2>2. State.read_buffer[1] \in RequestUnit /\ members \subseteq Consumer
    BY <1>2, <1>3, <1>6, <2>1, FirstFrame DEF IInv, MembersInv
  <2>3. PICK j \in [Consumer -> Nat] :
           AfterRequest(State) = [State EXCEPT !.joined = j] /\ Kept(State.joined, j, Membership(State))
    BY <1>4, <2>2, RequestKeeps
  <2>4. PICK s : s = AfterRequest(State)
    OBVIOUS
  <2>5. PICK m : m = Membership(State)
    OBVIOUS
  <2>6. s.conn = c /\ s.joined = j
    BY <1>3, <1>4, <2>3, <2>4 DEF ClientState
  <2>7. CloseClient(s, Current, m) /\ Kept(State.joined, s.joined, m)
    BY <1>9, <2>3, <2>4, <2>5, <2>6 DEF QueueFails
  <2>8. Cause(c)' /\ Carried(c)
    BY <1>6, <2>1 DEF Cause
  <2> QED
    BY <1>1, <1>3, <2>1, <2>6, <2>7, <2>8, CloseCurrent
<1>10. CASE SendFails \/ RecvFails
  <2>1. CloseClient(State, Current, members) /\ handled' = handled /\ failed' = failed \cup {c}
    BY <1>3, <1>10 DEF SendFails, RecvFails, Fails
  <2>2. Cause(c)' /\ Carried(c)
    BY <2>1, CarriedSame DEF Cause
  <2> QED
    BY <1>1, <1>3, <2>1, <2>2, CloseAsListed
<1> QED
  BY <1>7, <1>8, <1>9, <1>10

\* What follows the first frame, and the output with the response to the i-th request.
Rest(s) == SubSeq(s.read_buffer, 3, Len(s.read_buffer))
Queued(s, i) == s.write_buffer \o <<[id |-> i, part |-> 1], [id |-> i, part |-> 2]>>

\* The state t is that of s after its first request, with j as its list and r and w in its
\* buffers.
Handled(s, t, j, r, w) ==
    /\ t \in ClientState /\ t.conn = s.conn /\ t.out = TRUE
    /\ t.read_buffer = r /\ t.write_buffer = w /\ t.write_offset = s.write_offset
    /\ t.joined = j

\* What the state of a client is after one of its requests was carried out.
LEMMA HandledState ==
    ASSUME NEW s \in ClientState, NEW i,
           NEW t, t = EraseFrame(QueueResponse(AfterRequest(s), i)),
           NEW j \in [Consumer -> Nat], AfterRequest(s) = [s EXCEPT !.joined = j],
           NEW r \in Seq(RequestUnit), r = Rest(s),
           NEW w \in Seq(ResponseUnit), w = Queued(s, i)
    PROVE  Handled(s, t, j, r, w)
<1>1. PICK s1 \in ClientState : s1 = AfterRequest(s)
  BY DEF ClientState
<1>2. s1 = [s EXCEPT !.joined = j]
  BY <1>1
<1>3. /\ s1.conn = s.conn /\ s1.joined = j /\ s1.read_buffer = s.read_buffer
      /\ s1.write_buffer = s.write_buffer /\ s1.write_offset = s.write_offset
  BY <1>2 DEF ClientState
<1>4. PICK s2 \in ClientState : s2 = QueueResponse(s1, i)
  <2>1. QueueResponse(s1, i) = [s1 EXCEPT !.write_buffer = w, !.out = TRUE]
    BY <1>3 DEF QueueResponse, Queued, ClientState
  <2> QED
    BY <2>1 DEF ClientState
<1>5. /\ s2.conn = s.conn /\ s2.joined = j /\ s2.read_buffer = s.read_buffer
      /\ s2.write_buffer = w /\ s2.write_offset = s.write_offset /\ s2.out = TRUE
  BY <1>3, <1>4 DEF QueueResponse, Queued, ClientState
<1>6. t = [s2 EXCEPT !.read_buffer = r]
  BY <1>1, <1>4, <1>5 DEF EraseFrame, Rest, ClientState
<1>7. /\ t \in ClientState /\ t.conn = s.conn /\ t.out = TRUE /\ t.joined = j
      /\ t.read_buffer = r /\ t.write_buffer = w /\ t.write_offset = s.write_offset
  BY <1>5, <1>6 DEF ClientState
<1> QED
  BY <1>7 DEF Handled

\* A request is carried out and answered.
LEMMA HandleStep == ASSUME IInv, HandleFrame PROVE IInv'
<1>1. /\ Complete
      /\ members' = Membership(State) /\ UNCHANGED <<sockets, conn, events, pc, history>>
  BY DEF HandleFrame
<1>2. /\ pc \in {"read", "extract", "write"} /\ pc' \in {"read", "extract", "write"}
      /\ UNCHANGED <<asked, half, inbox, outbox, got, peer, conn, events, failed>>
  BY <1>1 DEF Complete, sockets, history
<1>3. PICK f \in InTable : f = Current /\ State = clients[f]
  BY <1>2, CurrentConn
<1>4. PICK c \in Conn : c = State.conn
  BY <1>2, CurrentConn
<1>5. PICK s \in ClientState : s = State
  BY <1>3, Tabled DEF IInv
<1>6. /\ s.read_buffer \in Seq(RequestUnit) /\ s.write_buffer \in Seq(ResponseUnit)
      /\ s.write_offset \in Nat /\ s.conn = c /\ conn[c] = "open"
  BY <1>3, <1>4, <1>5, Tabled DEF IInv
<1>7. Len(s.read_buffer) >= 2 /\ s.read_buffer # <<>>
  BY <1>1, <1>5, <1>6 DEF Complete
<1>8. PICK h \in Nat : h = Len(handled[c])
  BY DEF IInv, SocketsInv
<1>9. s.read_buffer[1].id = h + 1 /\ h + 1 \in 1..MaxRequests /\ s.read_buffer[1] \in RequestUnit
  BY <1>3, <1>4, <1>5, <1>7, <1>8, FirstFrame
<1>10. Carried(c) /\ Len(handled'[c]) = h + 1
  BY <1>1, <1>3, <1>4, <1>8, CarriedNext
<1>11. Input(asked[c], half[c], h, s.read_buffer, inbox[c]) /\ Output(h, got[c], outbox[c], s.write_buffer, s.write_offset)
  BY <1>3, <1>4, <1>5, <1>8 DEF IInv, StreamInv, Served
<1>12. /\ asked[c] \in Seq(Kind) /\ half[c] \in BOOLEAN /\ inbox[c] \in Seq(RequestUnit)
       /\ got[c] \in Seq(ResponseUnit) /\ outbox[c] \in Seq(ResponseUnit)
  BY DEF IInv, AskedInv, SocketsInv
<1>13. PICK r \in Seq(RequestUnit) :
          /\ r = Rest(s)
          /\ Input(asked[c], half[c], h + 1, r, inbox[c])
  BY <1>6, <1>7, <1>11, <1>12, InputHandle DEF Rest
<1>14. PICK w \in Seq(ResponseUnit) :
          /\ w = Queued(s, h + 1) /\ w # <<>>
          /\ Output(h + 1, got[c], outbox[c], w, s.write_offset)
  <2>1. PICK u \in ResponseUnit : u = [id |-> h + 1, part |-> 1] /\ u = AnswerUnit(2 * h + 1)
    <3>1. [id |-> h + 1, part |-> 1] = AnswerUnit(2 * h + 1)
      BY <1>12, UnitFacts
    <3> QED
      BY <1>9, <3>1 DEF ResponseUnit
  <2>2. PICK v \in ResponseUnit : v = [id |-> h + 1, part |-> 2] /\ v = AnswerUnit(2 * h + 2)
    <3>1. [id |-> h + 1, part |-> 2] = AnswerUnit(2 * h + 2)
      BY <1>12, UnitFacts
    <3> QED
      BY <1>9, <3>1 DEF ResponseUnit
  <2>3. /\ s.write_buffer \o <<u, v>> \in Seq(ResponseUnit) /\ s.write_buffer \o <<u, v>> # <<>>
        /\ Output(h + 1, got[c], outbox[c], s.write_buffer \o <<u, v>>, s.write_offset)
    BY <1>6, <1>11, <1>12, <2>1, <2>2, OutputQueue
  <2>4. Queued(s, h + 1) = s.write_buffer \o <<u, v>>
    BY <2>1, <2>2 DEF Queued
  <2> QED
    BY <2>3, <2>4
<1>15. PICK t : t = EraseFrame(QueueResponse(AfterRequest(s), h + 1))
  OBVIOUS
<1>16. PICK j \in [Consumer -> Nat] :
          AfterRequest(s) = [s EXCEPT !.joined = j] /\ Kept(s.joined, j, Membership(s))
  BY <1>9, RequestKeeps DEF IInv, MembersInv
<1>17. /\ t \in ClientState /\ t.conn = c /\ t.out = TRUE
       /\ t.read_buffer = r /\ t.write_buffer = w /\ t.write_offset = s.write_offset
       /\ t.joined = j
  <2>1. PICK i : i = h + 1
    OBVIOUS
  <2>2. /\ t = EraseFrame(QueueResponse(AfterRequest(s), i))
        /\ w = Queued(s, i)
    BY <1>14, <1>15, <2>1
  <2>3. r = Rest(s)
    BY <1>13
  <2>4. Handled(s, t, j, r, w)
    BY <1>16, <2>2, <2>3, HandledState
  <2> QED
    BY <1>6, <2>4 DEF Handled
<1>18. clients' = [clients EXCEPT ![Current] = t] /\ Kept(clients[Current].joined, t.joined, members')
  BY <1>1, <1>3, <1>5, <1>9, <1>15, <1>16, <1>17 DEF HandleFrame
<1>19. Entry(Current, t)
  BY <1>3, <1>4, <1>14, <1>17, <1>18 DEF Entry
<1>20. SocketsInv' /\ \A d \in Conn : d # c => Same(d)
  BY <1>2, <1>10 DEF IInv, SocketsInv, Same, Carried
<1>21. StreamOf(c)'
  <2>1. Received(h, got[c], outbox[c]) /\ h <= h + 1 /\ h + 1 \in Nat
    BY <1>8 DEF IInv, StreamInv, StreamOf
  <2>2. Received(h + 1, got[c], outbox[c])
    BY <1>12, <2>1, ReceivedLess
  <2> QED
    BY <1>2, <1>6, <1>10, <2>2 DEF StreamOf, Carried
<1>22. Served(Current)'
  <2>1. Current' = f /\ clients'[f] = t
    BY <1>2, <1>3, <1>18 DEF IInv, TableInv, Current, InTable
  <2>2. Served(f)'
    BY <1>2, <1>10, <1>13, <1>14, <1>17, <2>1 DEF Served
  <2> QED
    BY <2>1, <2>2 DEF Served
<1> QED
  BY <1>2, <1>4, <1>19, <1>20, <1>21, <1>22, TransferStep

\* send: as much as the socket takes, nothing, or the client has gone.
LEMMA SendStep == ASSUME IInv, Send PROVE IInv'
<1>1. pc = "write" /\ handled' = handled /\ UNCHANGED <<failures, failed>>
  BY DEF Send, history
<1>2. pc \in {"dispatch", "accept", "read", "extract", "write"} /\ pc \in {"read", "extract", "write"}
  BY <1>1
<1>3. PICK f \in InTable : f = Current /\ State = clients[f]
  BY <1>2, CurrentConn
<1>4. PICK c \in Conn : c = State.conn
  BY <1>2, CurrentConn
<1>5. PICK s \in ClientState : s = State
  BY <1>3, Tabled DEF IInv
<1>6. PICK p : p = Len(s.write_buffer) - s.write_offset
  OBVIOUS
<1>7. PICK n : n = Smaller(p, SendSpace - Len(outbox[c]))
  OBVIOUS
<1>8. CASE peer[c] = "dead"
  <2>1. CloseClient(State, Current, members)
    BY <1>4, <1>8 DEF Send
  <2>2. Cause(c)'
    BY <1>8, <2>1 DEF Cause, CloseClient, CloseSockets
  <2>3. Carried(c)
    BY <1>1, CarriedSame
  <2> QED
    BY <1>1, <1>2, <1>4, <2>1, <2>2, <2>3, CloseAsListed
<1>9. CASE peer[c] # "dead" /\ ~(n > 0)
  <2>1. NextEvent /\ UNCHANGED <<sockets, conn, clients, members>>
    BY <1>4, <1>5, <1>6, <1>7, <1>9 DEF Send
  <2>2. UNCHANGED <<sockets, conn, clients, broker>> /\ failed \subseteq failed'
    BY <1>1, <2>1 DEF broker
  <2> QED
    BY <1>2, <2>1, <2>2, SkipStep
<1>10. CASE peer[c] # "dead" /\ n > 0
  <2>1. PICK w \in Seq(ResponseUnit) : w = s.write_buffer
    BY <1>3, <1>5, Tabled DEF IInv
  <2>2. PICK off \in Nat : off = s.write_offset
    BY <1>3, <1>5, Tabled DEF IInv
  <2>3. PICK o \in Seq(ResponseUnit) : o = outbox[c]
    BY DEF IInv, SocketsInv
  <2>4. n \in 1..(Len(w) - off)
    <3>1. PICK k \in Nat : k = Len(o)
      OBVIOUS
    <3>2. PICK m \in Nat : m = Len(w)
      OBVIOUS
    <3>3. SendSpace \in Nat /\ n = Smaller(m - off, SendSpace - k)
      BY <1>6, <1>7, <2>1, <2>2, <2>3, <3>1, <3>2, BoundAssumption
    <3>4. n \in 1..(m - off)
      BY <1>10, <3>3 DEF Smaller
    <3> QED
      BY <3>2, <3>4
  <2> DEFINE t == Advance(s, n)
             q == o \o SubSeq(w, off + 1, off + n)
  <2>5. /\ clients' = [clients EXCEPT ![Current] = t]
        /\ outbox' = [outbox EXCEPT ![c] = q]
        /\ UNCHANGED <<asked, half, inbox, got, peer, conn, events, pc, members>>
    BY <1>4, <1>5, <1>6, <1>7, <1>10, <2>1, <2>2, <2>3 DEF Send
  <2>6. PICK h \in Nat : h = Len(handled[c])
    BY DEF IInv, SocketsInv
  <2>7. got[c] \in Seq(ResponseUnit) /\ Received(h, got[c], o) /\ Output(h, got[c], o, w, off)
    BY <1>3, <1>4, <1>5, <2>1, <2>2, <2>3, <2>6 DEF IInv, SocketsInv, StreamInv, StreamOf, Served
  <2>8. q \in Seq(ResponseUnit) /\ Received(h, got[c], q) /\ Output(h, got[c], q, w, off + n)
    BY <2>4, <2>7, OutputSend
  <2>9. /\ t \in ClientState /\ t.conn = c /\ t.joined = s.joined /\ t.out = s.out
        /\ t.read_buffer = s.read_buffer /\ t.write_buffer = w /\ t.write_offset = off + n
    <3>1. off + n \in Nat
      BY <2>4
    <3>2. t = [s EXCEPT !.write_offset = off + n]
      BY <2>2 DEF Advance, ClientState
    <3> QED
      BY <1>4, <1>5, <2>1, <3>1, <3>2 DEF ClientState
  <2>10. t.out <=> t.write_buffer # <<>>
    BY <1>3, <1>5, <2>1, <2>9 DEF IInv, TableInv
  <2> HIDE DEF t, q
  <2>11. outbox' \in [Conn -> Seq(ResponseUnit)] /\ outbox'[c] = q /\ \A d \in Conn : d # c => outbox'[d] = outbox[d]
    BY <2>5, <2>8 DEF IInv, SocketsInv
  <2>12. SocketsInv' /\ \A d \in Conn : d # c => Same(d)
    BY <1>1, <2>5, <2>11 DEF IInv, SocketsInv, Same
  <2>13. StreamOf(c)'
    <3>1. StreamOf(c) /\ conn[c] = "open"
      BY <1>3, <1>4, Tabled DEF IInv, StreamInv
    <3> QED
      BY <1>1, <2>5, <2>6, <2>8, <2>11, <3>1 DEF StreamOf
  <2>14. Served(Current)'
    <3>1. Served(f) /\ Current' = f /\ clients'[f] = t
      BY <1>3, <2>5 DEF IInv, StreamInv, TableInv, Current, InTable
    <3>2. Served(f)'
      BY <1>1, <1>3, <1>4, <1>5, <2>5, <2>6, <2>8, <2>9, <2>11, <3>1 DEF Served
    <3> QED
      BY <3>1, <3>2 DEF Served
  <2>15. Entry(Current, t)
    BY <1>2, <1>4, <1>5, <2>5, <2>9, <2>10, SameMembers
  <2>16. pc' \in {"read", "extract", "write"}
    BY <1>2, <2>5
  <2> QED
    BY <1>1, <1>2, <1>4, <2>5, <2>12, <2>13, <2>14, <2>15, <2>16, TransferStep
<1> QED
  BY <1>8, <1>9, <1>10

\* Everything is sent: the buffer starts again and the event is done with.
LEMMA SendEnds == ASSUME IInv, SendDone PROVE IInv'
<1>1. /\ pc = "write" /\ State.write_offset >= Len(State.write_buffer) /\ NextEvent
      /\ clients' = [clients EXCEPT ![Current] = Drain(State)]
      /\ UNCHANGED <<asked, half, inbox, outbox, got, peer, conn, handled, members, failures, failed>>
  BY DEF SendDone, sockets, broker, history
<1>2. pc \in {"dispatch", "accept", "read", "extract", "write"} /\ pc \in {"read", "extract", "write"}
  BY <1>1
<1>3. PICK f \in InTable : f = Current /\ State = clients[f]
  BY <1>2, CurrentConn
<1>4. PICK c \in Conn : c = State.conn
  BY <1>2, CurrentConn
<1>5. PICK s \in ClientState : s = State
  BY <1>3, Tabled DEF IInv
<1>6. PICK t : t = Drain(s)
  OBVIOUS
<1>7. /\ t \in ClientState /\ t.conn = c /\ t.joined = s.joined /\ t.out = FALSE
      /\ t.read_buffer = s.read_buffer /\ t.write_buffer = <<>> /\ t.write_offset = 0
  <2>1. t = [s EXCEPT !.write_buffer = <<>>, !.write_offset = 0, !.out = FALSE]
    BY <1>6 DEF Drain
  <2>2. <<>> \in Seq(ResponseUnit) /\ 0 \in Nat
    OBVIOUS
  <2> QED
    BY <1>4, <1>5, <2>1, <2>2 DEF ClientState
<1>8. Entry(f, t) /\ Entry(Current, t)
  <2>1. t.out <=> t.write_buffer # <<>>
    BY <1>7
  <2>2. t.conn = State.conn /\ t.joined = State.joined /\ clients' = [clients EXCEPT ![Current] = t]
    BY <1>1, <1>4, <1>5, <1>6, <1>7
  <2>3. Entry(Current, t)
    BY <1>1, <1>2, <1>7, <2>1, <2>2, SameMembers
  <2> QED
    BY <1>3, <2>3
<1>9. /\ TableInv' /\ MembersInv' /\ InTable' = InTable /\ clients'[f] = t
      /\ \A g \in InTable : g # f => clients'[g] = clients[g] /\ clients[g].conn # t.conn
      /\ \A e \in Event : Fresh(e) => Fresh(e)'
  BY <1>1, <1>2, <1>8, EntryStep DEF IInv
<1>10. EventsInv'
  <2>1. events # <<>>
    BY <1>2, FirstEvent
  <2> QED
    BY <1>1, <1>9, <2>1, EventsMove DEF IInv
<1>11. StreamInv'
  <2>1. \A d \in Conn : Same(d)
    BY <1>1 DEF Same
  <2>2. StreamOf(c)'
    BY <1>1 DEF IInv, StreamInv, StreamOf
  <2>3. Served(f)'
    <3>1. PICK h \in Nat : h = Len(handled[c])
      BY DEF IInv, SocketsInv
    <3>2. /\ got[c] \in Seq(ResponseUnit) /\ outbox[c] \in Seq(ResponseUnit)
          /\ s.write_buffer \in Seq(ResponseUnit) /\ s.write_offset \in Nat
      BY <1>3, <1>5, Tabled DEF IInv, SocketsInv
    <3>3. Served(f) /\ Output(h, got[c], outbox[c], s.write_buffer, s.write_offset)
      BY <1>3, <1>4, <1>5, <3>1 DEF IInv, StreamInv, Served
    <3>4. s.write_offset >= Len(s.write_buffer)
      BY <1>1, <1>5
    <3>5. Output(h, got[c], outbox[c], <<>>, 0)
      BY <3>2, <3>3, <3>4, OutputDrain
    <3> QED
      BY <1>1, <1>3, <1>4, <1>5, <1>7, <1>9, <3>1, <3>3, <3>5 DEF Served
  <2>4. ASSUME NEW g \in InTable'
        PROVE  \/ clients'[g].conn = c /\ Served(g)'
               \/ g \in InTable /\ clients[g].conn # c /\ clients'[g] = clients[g]
    BY <1>7, <1>9, <2>3
  <2> QED
    BY <2>1, <2>2, <2>4, StreamStep DEF IInv
<1>12. ClosedForCause'
  <2>1. \A d \in Conn : conn'[d] = "closed" => conn[d] = "closed" \/ Cause(d)'
    BY <1>1
  <2> QED
    BY <1>1, <2>1, CauseStep DEF IInv
<1>13. AskedInv' /\ SocketsInv'
  BY <1>1 DEF IInv, AskedInv, Asked, SocketsInv
<1> QED
  BY <1>9, <1>10, <1>11, <1>12, <1>13 DEF IInv

\* A set of numbers that is not empty has a smallest one.
LEMMA Smallest ==
    ASSUME NEW S \in SUBSET Nat, S # {}
    PROVE  \E m \in S : \A n \in S : m <= n
<1>1. PICK m \in S : \A n \in S : <<n, m>> \notin OpToRel(<, Nat)
  BY NatLessThanWellFounded, WFMin
<1>2. \A n \in S : ~(n < m)
  BY <1>1 DEF OpToRel
<1>3. \A n \in S : n \in Nat /\ m \in Nat
  OBVIOUS
<1> QED
  BY <1>2, <1>3

\* While a connection is waiting to be accepted, a descriptor is free: accept() finds one.
LEMMA FreeDescriptor ==
    ASSUME IInv, NEW c \in Backlog
    PROVE  LET f == CHOOSE g \in Fd \ InTable : \A h \in Fd \ InTable : g <= h
           IN  f \in Fd /\ f \notin InTable
<1> DEFINE Left == Conn \ {c}
           F == [f \in InTable |-> clients[f].conn]
<1>1. c \in Conn /\ conn[c] = "backlog"
  BY DEF Backlog
<1>2. \A f \in InTable : clients[f].conn \in Left
  BY <1>1, Tabled DEF IInv
<1>3. F \in Injection(InTable, Left)
  BY <1>2 DEF Injection, IsInjective, IInv, TableInv
<1>4. IsFiniteSet(Left) /\ Cardinality(Left) = Cardinality(Conn) - 1 /\ Cardinality(Conn) \in Nat
  BY <1>1, FdAssumption, FS_RemoveElement, FS_CardinalityType
<1> HIDE DEF F, Left
<1>5. IsFiniteSet(InTable) /\ Cardinality(InTable) <= Cardinality(Left)
  BY <1>3, <1>4, FS_Injection
<1>6. Cardinality(InTable) \in Nat /\ Cardinality(Fd) \in Nat
  BY <1>5, FS_CardinalityType, FdAssumption
<1>7. Cardinality(InTable) # Cardinality(Fd)
  BY <1>4, <1>5, <1>6, FdAssumption
<1>8. Fd \ InTable # {}
  <2>1. InTable \subseteq Fd
    BY DEF InTable
  <2>2. Fd \ InTable = {} => InTable = Fd
    BY <2>1
  <2> QED
    BY <1>7, <2>2
<1>9. Fd \ InTable \in SUBSET Nat
  BY FdAssumption
<1>10. \E g \in Fd \ InTable : \A h \in Fd \ InTable : g <= h
  BY <1>8, <1>9, Smallest
<1> QED
  BY <1>10

\* A client is accepted, under a descriptor that no event of the batch names.
LEMMA AcceptStep == ASSUME IInv, Accept PROVE IInv'
<1>1. /\ pc = "accept"
      /\ UNCHANGED <<asked, half, inbox, outbox, got, peer, events, pc, handled, members, failures, failed>>
  BY DEF Accept, sockets, broker, history
<1>2. PICK c \in Backlog :
         LET f == CHOOSE g \in Fd \ InTable : \A h \in Fd \ InTable : g <= h
         IN  /\ conn' = [conn EXCEPT ![c] = "open"]
             /\ clients' = [clients EXCEPT ![f] =
                   [conn |-> c, read_buffer |-> <<>>, write_buffer |-> <<>>, write_offset |-> 0,
                    joined |-> [i \in Consumer |-> 0], out |-> FALSE]]
  BY DEF Accept
<1>3. PICK f : f = CHOOSE g \in Fd \ InTable : \A h \in Fd \ InTable : g <= h
  OBVIOUS
<1>4. f \in Fd /\ f \notin InTable /\ c \in Conn /\ conn[c] = "backlog"
  BY <1>3, FreeDescriptor DEF Backlog
<1>5. PICK t : t = [conn |-> c, read_buffer |-> <<>>, write_buffer |-> <<>>, write_offset |-> 0,
                    joined |-> [i \in Consumer |-> 0], out |-> FALSE]
  OBVIOUS
<1>6. /\ t \in ClientState /\ t # None /\ t.conn = c /\ t.out = FALSE
      /\ t.read_buffer = <<>> /\ t.write_buffer = <<>> /\ t.write_offset = 0
  <2>1. <<>> \in Seq(RequestUnit) /\ <<>> \in Seq(ResponseUnit) /\ 0 \in Nat
    OBVIOUS
  <2>2. t \in ClientState
    BY <1>4, <1>5, <2>1 DEF ClientState
  <2> QED
    BY <1>4, <1>5, <2>1, <2>2, NoneAssumption
<1>7. conn' = [conn EXCEPT ![c] = "open"] /\ clients' = [clients EXCEPT ![f] = t]
  BY <1>2, <1>3, <1>5
<1>8. /\ conn' \in [Conn -> {"new", "backlog", "open", "closed"}] /\ conn'[c] = "open"
      /\ \A d \in Conn : d # c => conn'[d] = conn[d]
  BY <1>4, <1>7 DEF IInv, SocketsInv
<1>9. /\ clients' \in [Fd -> ClientState \cup {None}] /\ clients'[f] = t
      /\ \A g \in Fd : g # f => clients'[g] = clients[g]
  BY <1>4, <1>6, <1>7 DEF IInv, TableInv
<1>10. InTable' = InTable \cup {f}
  BY <1>4, <1>6, <1>9 DEF InTable
<1>11. \A g \in InTable : /\ g \in Fd /\ g # f /\ clients'[g] = clients[g]
                          /\ clients[g].conn \in Conn /\ clients[g].conn # c
                          /\ conn[clients[g].conn] = "open"
  BY <1>4, <1>9, Tabled DEF IInv
<1>12. TableInv'
  <2>1. \A g \in InTable' : conn'[clients'[g].conn] = "open"
    BY <1>6, <1>8, <1>9, <1>10, <1>11
  <2>2. \A g \in InTable' : clients'[g].out <=> clients'[g].write_buffer # <<>>
    BY <1>6, <1>9, <1>10, <1>11 DEF IInv, TableInv
  <2>3. \A g, h \in InTable' : clients'[g].conn = clients'[h].conn => g = h
    BY <1>6, <1>9, <1>10, <1>11 DEF IInv, TableInv
  <2> QED
    BY <1>9, <2>1, <2>2, <2>3 DEF TableInv
<1>13. MembersInv'
  <2>1. \A i \in members : \E g \in InTable : clients[g].joined[i] > 0
    BY <1>1 DEF IInv, MembersInv, MembersConnected
  <2>2. \A i \in members' : \E g \in InTable' : clients'[g].joined[i] > 0
    BY <1>1, <1>10, <1>11, <2>1
  <2> QED
    BY <1>1, <2>2 DEF IInv, MembersInv, MembersConnected
<1>14. EventsInv'
  <2>1. ASSUME NEW e \in Event, Fresh(e) PROVE Fresh(e)'
    <3>1. CASE e.fd = 0
      BY <3>1 DEF Fresh
    <3>2. CASE e.fd # 0
      <4>1. e.fd \in InTable
        BY <2>1, <3>2 DEF Fresh, Event, InTable
      <4> QED
        BY <1>1, <1>11, <2>1, <4>1 DEF Fresh
    <3> QED
      BY <3>1, <3>2
  <2> QED
    BY <1>1, <2>1, EventsStay DEF IInv
<1>15. StreamInv'
  <2>1. \A d \in Conn : d # c => Same(d)
    BY <1>1, <1>8 DEF Same
  <2>2. StreamOf(c) /\ handled[c] = <<>> /\ Input(asked[c], half[c], 0, <<>>, inbox[c])
    BY <1>4 DEF IInv, StreamInv, StreamOf
  <2>3. StreamOf(c)'
    BY <1>1, <1>8, <2>2 DEF StreamOf
  <2>4. Output(0, got[c], outbox[c], <<>>, 0)
    <3>1. Len(<<>>) = 0
      OBVIOUS
    <3>2. Received(0, got[c], outbox[c])
      BY <2>2, <3>1 DEF StreamOf
    <3>3. Len(got[c]) \in Nat /\ Len(outbox[c]) \in Nat
      BY <1>4 DEF IInv, SocketsInv
    <3>4. Len(got[c]) + Len(outbox[c]) <= 2 * 0
      BY <3>2 DEF Received
    <3>5. \A m, n \in Nat : m + n <= 2 * 0 => m = 0 /\ n = 0
      OBVIOUS
    <3>6. Len(got[c]) = 0 /\ Len(outbox[c]) = 0
      BY <3>3, <3>4, <3>5
    <3> QED
      BY <3>1, <3>6 DEF Output
  <2>5. Served(f)'
    <3>1. Len(handled'[c]) = 0
      BY <1>1, <2>2
    <3> QED
      BY <1>1, <1>6, <1>9, <2>2, <2>4, <3>1 DEF Served
  <2>6. ASSUME NEW g \in InTable'
        PROVE  \/ clients'[g].conn = c /\ Served(g)'
               \/ g \in InTable /\ clients[g].conn # c /\ clients'[g] = clients[g]
    BY <1>6, <1>9, <1>10, <1>11, <2>5
  <2> QED
    BY <1>4, <2>1, <2>3, <2>6, StreamStep DEF IInv
<1>16. ClosedForCause'
  <2>1. \A d \in Conn : conn'[d] = "closed" => conn[d] = "closed" \/ Cause(d)'
    BY <1>8
  <2> QED
    BY <1>1, <2>1, CauseStep DEF IInv
<1>17. AskedInv' /\ SocketsInv'
  BY <1>1, <1>8 DEF IInv, AskedInv, Asked, SocketsInv
<1> QED
  BY <1>12, <1>13, <1>14, <1>15, <1>16, <1>17 DEF IInv

\* What is received and answered of a connection stays right when it is closed.
LEMMA ClosedStream ==
    ASSUME IInv, NEW c \in Conn, conn'[c] \notin {"new", "backlog"},
           outbox'[c] \in {<<>>, outbox[c]}, UNCHANGED <<asked, half, got, handled>>
    PROVE  StreamOf(c)'
<1>1. /\ handled[c] \in Seq(1..MaxRequests) /\ got[c] \in Seq(ResponseUnit)
      /\ outbox[c] \in Seq(ResponseUnit) /\ StreamOf(c)
  BY DEF IInv, SocketsInv, StreamInv
<1>2. Len(handled[c]) \in Nat /\ Len(handled[c]) <= Len(handled[c])
  BY <1>1
<1>3. Received(Len(handled[c]), got[c], outbox[c])
  BY <1>1 DEF StreamOf
<1>4. Received(Len(handled[c]), got[c], <<>>)
  BY <1>1, <1>2, <1>3, ReceivedLess
<1>5. Received(Len(handled'[c]), got'[c], outbox'[c])
  BY <1>3, <1>4
<1> QED
  BY <1>1, <1>5 DEF StreamOf

\* A call fails for a client that was just accepted.
LEMMA AcceptFailsStep == ASSUME IInv, AcceptFails PROVE IInv'
<1>1. /\ pc = "accept" /\ UNCHANGED <<clients, events, pc, handled, members>>
  BY DEF AcceptFails, broker
<1>2. PICK c \in Backlog : Fails(c) /\ CloseSockets({c})
  BY DEF AcceptFails
<1>3. c \in Conn /\ conn[c] = "backlog" /\ failed' = failed \cup {c}
  BY <1>2 DEF Backlog, Fails
<1>4. /\ conn' \in [Conn -> {"new", "backlog", "open", "closed"}]
      /\ outbox' \in [Conn -> Seq(ResponseUnit)]
      /\ conn'[c] = "closed" /\ outbox'[c] \in {<<>>, outbox[c]}
      /\ \A d \in Conn : d # c => conn'[d] = conn[d] /\ outbox'[d] = outbox[d]
  <2>1. {c} \in SUBSET Conn
    BY <1>3
  <2> QED
    BY <1>2, <2>1, SocketsClose DEF IInv
<1>5. UNCHANGED <<asked, half, inbox, got, peer>>
  BY <1>2 DEF CloseSockets
<1>6. InTable' = InTable /\ \A g \in InTable : clients[g].conn \in Conn /\ clients[g].conn # c
  BY <1>1, <1>3, Tabled DEF IInv, InTable
<1>7. TableInv' /\ MembersInv'
  BY <1>1, <1>4, <1>6 DEF IInv, TableInv, MembersInv, MembersConnected
<1>8. EventsInv'
  <2>1. \A e \in Event : Fresh(e) => Fresh(e)'
    BY <1>1, <1>5 DEF Fresh
  <2> QED
    BY <1>1, <2>1, EventsStay DEF IInv
<1>9. StreamInv'
  <2>1. \A d \in Conn : d # c => Same(d)
    BY <1>1, <1>4, <1>5 DEF Same
  <2>2. StreamOf(c)'
    BY <1>1, <1>3, <1>4, <1>5, ClosedStream
  <2> QED
    BY <1>1, <1>3, <1>6, <2>1, <2>2, StreamStep DEF IInv
<1>10. ClosedForCause'
  <2>1. \A d \in Conn : conn'[d] = "closed" => conn[d] = "closed" \/ Cause(d)'
    BY <1>3, <1>4 DEF Cause
  <2> QED
    BY <1>1, <1>3, <1>5, <2>1, CauseStep DEF IInv
<1>11. AskedInv' /\ SocketsInv'
  BY <1>1, <1>4, <1>5 DEF IInv, AskedInv, Asked, SocketsInv
<1> QED
  BY <1>7, <1>8, <1>9, <1>10, <1>11 DEF IInv

\* The server ends.
LEMMA StopStep == ASSUME IInv, Stop PROVE IInv'
<1> DEFINE S == Backlog \cup {clients[f].conn : f \in InTable}
<1>1. /\ pc = "wait" /\ pc' = "stopped" /\ CloseSockets(S) /\ UNCHANGED <<events, handled, members>>
      /\ clients' = [f \in Fd |-> None]
  BY DEF Stop, broker
<1>2. S \in SUBSET Conn
  BY Tabled DEF IInv, Backlog
<1>3. \A c \in Conn : conn[c] = "backlog" => c \in S
  BY DEF Backlog
<1> HIDE DEF S
<1>4. /\ conn' \in [Conn -> {"new", "backlog", "open", "closed"}]
      /\ outbox' \in [Conn -> Seq(ResponseUnit)]
      /\ \A c \in S : conn'[c] = "closed" /\ outbox'[c] \in {<<>>, outbox[c]}
      /\ \A c \in Conn : c \notin S => conn'[c] = conn[c] /\ outbox'[c] = outbox[c]
  BY <1>1, <1>2, SocketsClose DEF IInv
<1>5. UNCHANGED <<asked, half, inbox, got, peer>>
  BY <1>1 DEF CloseSockets
<1>6. InTable' = {}
  BY <1>1 DEF InTable
<1>7. TableInv' /\ MembersInv'
  BY <1>1, <1>6 DEF IInv, TableInv, MembersInv, MembersConnected
<1>8. EventsInv'
  <2>1. events = <<>> /\ events' = <<>> /\ Len(events') = 0
    BY <1>1 DEF IInv, EventsInv
  <2> QED
    BY <1>1, <2>1 DEF EventsInv
<1>9. StreamInv'
  <2>1. ASSUME NEW c \in Conn PROVE StreamOf(c)'
    <3>1. CASE c \in S
      BY <1>1, <1>4, <1>5, <3>1, ClosedStream
    <3>2. CASE c \notin S
      BY <1>1, <1>4, <1>5, <3>2 DEF IInv, StreamInv, StreamOf
    <3> QED
      BY <3>1, <3>2
  <2> QED
    BY <1>6, <2>1 DEF StreamInv
<1>10. ClosedForCause'
  BY <1>1 DEF ClosedForCause
<1>11. AskedInv' /\ SocketsInv'
  BY <1>1, <1>4, <1>5 DEF IInv, AskedInv, Asked, SocketsInv
<1> QED
  BY <1>7, <1>8, <1>9, <1>10, <1>11 DEF IInv

\* What epoll_wait reports: one event for a descriptor, for the connection it stands for.
LEMMA ReadyFacts ==
    ASSUME IInv
    PROVE  /\ \A e \in ReadyEvents : e \in Event /\ Fresh(e)
           /\ \A e, k \in ReadyEvents : e.fd = k.fd => e = k
           /\ IsFiniteSet(ReadyEvents)
<1>1. ASSUME NEW f \in InTable
      PROVE  /\ ReadyEvent(f) \in Event /\ ReadyEvent(f).fd = f /\ f # 0
             /\ Fresh(ReadyEvent(f))
  <2>1. /\ f \in Fd /\ f # 0 /\ clients[f].conn \in Conn /\ clients[f] # None
    BY Tabled, FdAssumption DEF IInv
  <2>2. ReadyEvent(f) \in Event
    BY <2>1 DEF ReadyEvent, Event
  <2>3. /\ ReadyEvent(f).fd = f /\ ReadyEvent(f).conn = clients[f].conn
        /\ ReadyEvent(f).hup <=> peer[clients[f].conn] = "dead"
    BY DEF ReadyEvent
  <2> QED
    BY <2>1, <2>2, <2>3 DEF Fresh
<1>2. AcceptEvent \in Event /\ AcceptEvent.fd = 0
  BY DEF AcceptEvent, Event
<1>3. \A e \in ReadyEvents : e = AcceptEvent \/ \E f \in InTable : e = ReadyEvent(f)
  BY DEF ReadyEvents
<1>4. \A e \in ReadyEvents : e \in Event /\ Fresh(e)
  <2>1. Fresh(AcceptEvent)
    BY <1>2 DEF Fresh
  <2> QED
    BY <1>1, <1>2, <1>3, <2>1
<1>5. \A e, k \in ReadyEvents : e.fd = k.fd => e = k
  BY <1>1, <1>2, <1>3
<1>6. IsFiniteSet(ReadyEvents)
  <2> DEFINE N == [e \in ReadyEvents |-> e.fd]
  <2>1. \A e \in ReadyEvents : e.fd \in Fd \cup {0}
    BY <1>4 DEF Event
  <2>2. N \in Injection(ReadyEvents, Fd \cup {0})
    BY <1>5, <2>1 DEF Injection, IsInjective
  <2>3. IsFiniteSet(Fd \cup {0})
    BY FdAssumption, FS_AddElement
  <2> HIDE DEF N
  <2> QED
    BY <2>2, <2>3, FS_Injection
<1> QED
  BY <1>4, <1>5, <1>6

\* A batch of events is taken.
LEMMA WaitStep == ASSUME IInv, EpollWait PROVE IInv'
<1>1. /\ pc = "wait" /\ pc' = "dispatch" /\ ReadyEvents # {}
      /\ UNCHANGED <<sockets, conn, clients, broker>> /\ UNCHANGED history
  BY DEF EpollWait
<1>2. PICK S \in SUBSET ReadyEvents :
         /\ Cardinality(S) = Smaller(MaxEvents, Cardinality(ReadyEvents))
         /\ events' \in Orders(S)
  BY DEF EpollWait
<1>3. PICK n : n = Cardinality(S)
  OBVIOUS
<1>4. n \in Nat \ {0}
  <2>1. PICK m : m = Cardinality(ReadyEvents)
    OBVIOUS
  <2>2. m \in Nat /\ m # 0
    BY <1>1, <2>1, ReadyFacts, FS_CardinalityType, FS_EmptySet
  <2>3. MaxEvents \in Nat \ {0}
    BY BoundAssumption
  <2> QED
    BY <1>2, <1>3, <2>1, <2>2, <2>3 DEF Smaller
<1>5. events' \in [1..n -> S] /\ \A i, j \in 1..n : events'[i] = events'[j] => i = j
  BY <1>2, <1>3 DEF Orders
<1>6. \A i \in 1..n : events'[i] \in ReadyEvents
  BY <1>5
<1>7. events' \in Seq(Event) /\ Len(events') = n /\ events' # <<>>
  <2>1. events' \in [1..n -> Event]
    BY <1>5, <1>6, ReadyFacts
  <2> QED
    BY <1>4, <2>1
<1>8. \A i, j \in 1..Len(events') : events'[i].fd = events'[j].fd => i = j
  BY <1>5, <1>6, <1>7, ReadyFacts
<1>9. ASSUME NEW i \in 1..Len(events') PROVE Fresh(events[i])'
  <2>1. PICK e \in ReadyEvents : e = events'[i]
    BY <1>6, <1>7
  <2>2. Fresh(e)
    BY ReadyFacts
  <2> QED
    BY <1>1, <2>1, <2>2 DEF Fresh, sockets
<1>10. EventsInv'
  BY <1>1, <1>7, <1>8, <1>9 DEF EventsInv
<1> QED
  BY <1>1, <1>10, LoopStep DEF history

----------------------------------------------------------------------------
(* The steps of clients *)

\* A step of a client: nothing of the server changes, no cause for closing goes.
LEMMA ClientStep ==
    ASSUME IInv, UNCHANGED <<clients, events, pc, members, failed>>,
           AskedInv', SocketsInv', StreamInv',
           \A d \in Conn : conn'[d] # conn[d] => conn[d] = "new" /\ conn'[d] = "backlog",
           \A d \in Conn : peer'[d] # peer[d] => peer[d] # "dead" /\ peer'[d] # "up",
           \A d \in Conn : \A i \in DOMAIN asked[d] :
              i \in DOMAIN asked'[d] /\ asked'[d][i] = asked[d][i]
    PROVE  IInv'
<1>1. InTable' = InTable /\ \A f \in InTable : clients[f].conn \in Conn /\ conn[clients[f].conn] = "open"
  BY Tabled DEF IInv, InTable
<1>2. TableInv' /\ MembersInv'
  BY <1>1 DEF IInv, TableInv, MembersInv, MembersConnected
<1>3. EventsInv'
  <2>1. ASSUME NEW e \in Event, Fresh(e) PROVE Fresh(e)'
    <3>1. CASE e.fd = 0
      BY <3>1 DEF Fresh
    <3>2. CASE e.fd # 0
      <4>1. e.fd \in InTable /\ clients[e.fd].conn = e.conn
        BY <2>1, <3>2 DEF Fresh, Event, InTable
      <4>2. e.conn \in Conn
        BY <1>1, <4>1
      <4> QED
        BY <2>1, <4>2 DEF Fresh
    <3> QED
      BY <3>1, <3>2
  <2> QED
    BY <2>1, EventsStay DEF IInv
<1>4. ClosedForCause'
  <2> SUFFICES ASSUME NEW c \in Conn, conn'[c] = "closed" PROVE Cause(c)'
    BY DEF ClosedForCause, Cause
  <2>1. conn[c] = "closed"
    OBVIOUS
  <2>2. Cause(c)
    BY <2>1 DEF IInv, ClosedForCause, Cause
  <2> QED
    BY <2>2 DEF Cause
<1> QED
  BY <1>2, <1>3, <1>4 DEF IInv

\* A client connects.
LEMMA ConnectStep == ASSUME IInv, NEW c \in Conn, Connect(c) PROVE IInv'
<1>1. /\ conn[c] = "new" /\ conn' = [conn EXCEPT ![c] = "backlog"]
      /\ UNCHANGED <<asked, half, inbox, outbox, got, peer, clients, events, pc, handled, members, failed>>
  BY DEF Connect, sockets, broker, history
<1>2. /\ conn' \in [Conn -> {"new", "backlog", "open", "closed"}] /\ conn'[c] = "backlog"
      /\ \A d \in Conn : d # c => conn'[d] = conn[d]
  BY <1>1 DEF IInv, SocketsInv
<1>3. StreamInv'
  <2>1. \A d \in Conn : d # c => Same(d)
    BY <1>1, <1>2 DEF Same
  <2>2. StreamOf(c)'
    BY <1>1, <1>2 DEF IInv, StreamInv, StreamOf
  <2>3. InTable' = InTable /\ \A f \in InTable : clients[f].conn # c
    BY <1>1, Tabled DEF IInv, InTable
  <2> QED
    BY <1>1, <2>1, <2>2, <2>3, StreamStep DEF IInv
<1>4. AskedInv' /\ SocketsInv'
  BY <1>1, <1>2 DEF IInv, AskedInv, Asked, SocketsInv
<1> QED
  BY <1>1, <1>2, <1>3, <1>4, ClientStep

\* A client shuts down its sending side, or goes.
LEMMA DepartStep == ASSUME IInv, NEW c \in Conn, NEW how \in {"fin", "dead"}, Depart(c, how) PROVE IInv'
<1>1. /\ peer[c] # "dead" /\ peer' = [peer EXCEPT ![c] = how]
      /\ UNCHANGED <<asked, half, inbox, outbox, got, conn, clients, events, pc, handled, members, failed>>
  BY DEF Depart, broker, history
<1>2. /\ peer' \in [Conn -> {"up", "fin", "dead"}] /\ peer'[c] = how
      /\ \A d \in Conn : d # c => peer'[d] = peer[d]
  BY <1>1 DEF IInv, SocketsInv
<1>3. StreamInv'
  BY <1>1, StreamStays DEF IInv
<1>4. AskedInv' /\ SocketsInv'
  BY <1>1, <1>2 DEF IInv, AskedInv, Asked, SocketsInv
<1> QED
  BY <1>1, <1>2, <1>3, <1>4, ClientStep

\* A client receives a unit.
LEMMA ReceiveStep == ASSUME IInv, NEW c \in Conn, Receive(c) PROVE IInv'
<1>1. PICK o \in Seq(ResponseUnit) : o = outbox[c]
  BY DEF IInv, SocketsInv
<1>2. PICK g \in Seq(ResponseUnit) : g = got[c]
  BY DEF IInv, SocketsInv
<1>3. PICK h \in Nat : h = Len(handled[c])
  BY DEF IInv, SocketsInv
<1>4. /\ o # <<>> /\ got' = [got EXCEPT ![c] = Append(g, Head(o))] /\ outbox' = [outbox EXCEPT ![c] = Tail(o)]
      /\ UNCHANGED <<asked, half, inbox, peer, conn, clients, events, pc, handled, members, failed>>
  BY <1>1, <1>2 DEF Receive, broker, history
<1>5. Received(h, g, o)
  BY <1>1, <1>2, <1>3 DEF IInv, StreamInv, StreamOf
<1>6. /\ Append(g, Head(o)) \in Seq(ResponseUnit) /\ Tail(o) \in Seq(ResponseUnit)
      /\ Received(h, Append(g, Head(o)), Tail(o))
      /\ \A w \in Seq(ResponseUnit) : \A off \in Nat :
            Output(h, g, o, w, off) => Output(h, Append(g, Head(o)), Tail(o), w, off)
  BY <1>4, <1>5, OutputReceive
<1>7. /\ got' \in [Conn -> Seq(ResponseUnit)] /\ got'[c] = Append(g, Head(o))
      /\ outbox' \in [Conn -> Seq(ResponseUnit)] /\ outbox'[c] = Tail(o)
      /\ \A d \in Conn : d # c => got'[d] = got[d] /\ outbox'[d] = outbox[d]
  BY <1>4, <1>6 DEF IInv, SocketsInv
<1>8. StreamInv'
  <2>1. \A d \in Conn : d # c => Same(d)
    BY <1>4, <1>7 DEF Same
  <2>2. StreamOf(c)'
    <3>1. StreamOf(c)
      BY DEF IInv, StreamInv
    <3> QED
      BY <1>3, <1>4, <1>6, <1>7, <3>1 DEF StreamOf
  <2>3. ASSUME NEW f \in InTable, clients[f].conn = c PROVE Served(f)'
    <3>1. Served(f) /\ clients[f].write_buffer \in Seq(ResponseUnit) /\ clients[f].write_offset \in Nat
      BY Tabled DEF IInv, StreamInv
    <3>2. Output(h, Append(g, Head(o)), Tail(o), clients[f].write_buffer, clients[f].write_offset)
      BY <1>1, <1>2, <1>3, <1>6, <2>3, <3>1 DEF Served
    <3> QED
      BY <1>3, <1>4, <1>7, <2>3, <3>1, <3>2 DEF Served
  <2>4. InTable' = InTable
    BY <1>4 DEF InTable
  <2> QED
    BY <1>4, <2>1, <2>2, <2>3, <2>4, StreamStep DEF IInv
<1>9. AskedInv' /\ SocketsInv'
  BY <1>4, <1>7 DEF IInv, AskedInv, Asked, SocketsInv
<1> QED
  BY <1>4, <1>8, <1>9, ClientStep

\* The number of requests of one client is bounded by that of all.
LEMMA AskedBound ==
    ASSUME AskedInv, NEW c \in Conn
    PROVE  Len(asked[c]) \in Nat /\ Len(asked[c]) <= Cardinality(Asked) /\ Cardinality(Asked) \in Nat
<1> DEFINE Own == {c} \X DOMAIN asked[c]
<1>1. PICK n \in Nat : n = Len(asked[c]) /\ DOMAIN asked[c] = 1..n
  BY DEF AskedInv
<1>2. IsFiniteSet(Asked) /\ Own \in SUBSET Asked
  BY DEF AskedInv, Asked
<1>3. IsFiniteSet(1..n) /\ Cardinality(1..n) = n
  <2>1. IsFiniteSet(1..n) /\ Cardinality(1..n) = IF 1 > n THEN 0 ELSE n - 1 + 1
    BY FS_Interval
  <2> QED
    BY <2>1
<1>4. Cardinality(Own) = n
  <2>1. IsFiniteSet({c}) /\ Cardinality({c}) = 1
    BY FS_Singleton
  <2>2. Own = {c} \X (1..n)
    BY <1>1
  <2> HIDE DEF Own
  <2>3. Cardinality(Own) = 1 * n
    BY <1>3, <2>1, <2>2, FS_Product
  <2> QED
    BY <2>3
<1> HIDE DEF Own
<1>5. Cardinality(Own) <= Cardinality(Asked) /\ Cardinality(Asked) \in Nat
  BY <1>2, FS_Subset, FS_CardinalityType
<1> QED
  BY <1>1, <1>4, <1>5

\* One request more of one client is one more of all.
LEMMA OneMoreAsked ==
    ASSUME AskedInv, NEW c \in Conn, NEW q \in Kind, Cardinality(Asked) < MaxRequests,
           asked' = [asked EXCEPT ![c] = Append(asked[c], q)], half' = [half EXCEPT ![c] = TRUE]
    PROVE  AskedInv'
<1>1. PICK a \in Seq(Kind) : a = asked[c]
  BY DEF AskedInv
<1>2. /\ Len(a) \in Nat /\ Append(a, q) \in Seq(Kind) /\ Len(Append(a, q)) = Len(a) + 1
  BY SeqFacts
<1>3. /\ asked' \in [Conn -> Seq(Kind)] /\ asked'[c] = Append(a, q)
      /\ \A d \in Conn : d # c => asked'[d] = asked[d]
  BY <1>1, <1>2 DEF AskedInv
<1>4. /\ half' \in [Conn -> BOOLEAN] /\ \A d \in Conn : d # c => half'[d] = half[d]
  BY DEF AskedInv
<1>5. \A d \in Conn : half'[d] => asked'[d] # <<>>
  <2>1. Append(a, q) # <<>>
    BY <1>2
  <2> QED
    BY <1>3, <1>4, <2>1 DEF AskedInv
<1>6. Asked' = Asked \cup {<<c, Len(a) + 1>>}
  <2>1. ASSUME NEW r PROVE r \in Asked <=> \E d \in Conn : \E i \in DOMAIN asked[d] : r = <<d, i>>
    BY DEF Asked
  <2>2. ASSUME NEW r PROVE r \in Asked' <=> \E d \in Conn : \E i \in DOMAIN asked'[d] : r = <<d, i>>
    BY DEF Asked
  <2>3. \A i : i \in DOMAIN asked'[c] <=> i \in DOMAIN asked[c] \/ i = Len(a) + 1
    <3>1. DOMAIN a = 1..Len(a) /\ DOMAIN Append(a, q) = 1..(Len(a) + 1)
      BY <1>2
    <3> QED
      BY <1>1, <1>2, <1>3, <3>1
  <2>4. ASSUME NEW r PROVE r \in Asked' <=> r \in Asked \/ r = <<c, Len(a) + 1>>
    BY <1>3, <2>1, <2>2, <2>3
  <2> QED
    BY <2>4
<1>7. IsFiniteSet(Asked) /\ Cardinality(Asked) \in Nat
  BY FS_CardinalityType DEF AskedInv
<1>8. IsFiniteSet(Asked') /\ Cardinality(Asked') \in {Cardinality(Asked), Cardinality(Asked) + 1}
  BY <1>6, <1>7, FS_AddElement
<1>9. Cardinality(Asked') <= MaxRequests
  BY <1>7, <1>8, BoundAssumption
<1> QED
  BY <1>3, <1>4, <1>5, <1>8, <1>9 DEF AskedInv

\* A unit is sent: what it does to the stream of its connection is all there is to show.
LEMMA TransmitStep ==
    ASSUME IInv, NEW c \in Conn, AskedInv', SocketsInv',
           UNCHANGED <<outbox, got, peer, conn, clients, events, pc, handled, members, failed>>,
           \A d \in Conn : d # c => asked'[d] = asked[d] /\ half'[d] = half[d] /\ inbox'[d] = inbox[d],
           \A h \in Nat : \A r \in Seq(RequestUnit) :
              Input(asked[c], half[c], h, r, inbox[c]) => Input(asked'[c], half'[c], h, r, inbox'[c]),
           Length(asked[c], half[c]) <= Length(asked'[c], half'[c]),
           \A i \in DOMAIN asked[c] : i \in DOMAIN asked'[c] /\ asked'[c][i] = asked[c][i]
    PROVE  IInv'
<1>1. \A d \in Conn : d # c => Same(d)
  BY DEF Same
<1>2. PICK h \in Nat : h = Len(handled[c])
  BY DEF IInv, SocketsInv
<1>3. StreamOf(c)'
  <2>1. StreamOf(c)
    BY DEF IInv, StreamInv
  <2>2. 2 * h <= Length(asked'[c], half'[c])
    <3>1. 2 * h <= Length(asked[c], half[c])
      BY <1>2, <2>1 DEF StreamOf
    <3>2. Len(asked[c]) \in Nat /\ Len(asked'[c]) \in Nat
      BY DEF IInv, AskedInv
    <3>3. Length(asked[c], half[c]) \in Int /\ Length(asked'[c], half'[c]) \in Int
      BY <3>2 DEF Length
    <3> QED
      BY <3>1, <3>3
  <2>3. ASSUME conn[c] \in {"new", "backlog"} PROVE Input(asked'[c], half'[c], 0, <<>>, inbox'[c])
    <3>1. <<>> \in Seq(RequestUnit) /\ 0 \in Nat
      OBVIOUS
    <3>2. Input(asked[c], half[c], 0, <<>>, inbox[c])
      BY <2>1, <2>3 DEF StreamOf
    <3> QED
      BY <3>1, <3>2
  <2> QED
    BY <1>2, <2>1, <2>2, <2>3 DEF StreamOf
<1>4. ASSUME NEW f \in InTable, clients[f].conn = c PROVE Served(f)'
  <2>1. Served(f) /\ clients[f].read_buffer \in Seq(RequestUnit)
    BY Tabled DEF IInv, StreamInv
  <2>2. Input(asked'[c], half'[c], h, clients[f].read_buffer, inbox'[c])
    BY <1>2, <1>4, <2>1 DEF Served
  <2> QED
    BY <1>2, <1>4, <2>1, <2>2 DEF Served
<1>5. InTable' = InTable
  BY DEF InTable
<1>6. StreamInv'
  BY <1>1, <1>3, <1>4, <1>5, StreamStep DEF IInv
<1>7. \A d \in Conn : \A i \in DOMAIN asked[d] : i \in DOMAIN asked'[d] /\ asked'[d][i] = asked[d][i]
  OBVIOUS
<1> QED
  BY <1>6, <1>7, ClientStep

\* The first half of a request is sent.
LEMMA BeginStep == ASSUME IInv, NEW c \in Conn, NEW q \in Kind, BeginRequest(c, q) PROVE IInv'
<1>1. PICK a \in Seq(Kind) : a = asked[c]
  BY DEF IInv, AskedInv
<1>2. PICK x \in Seq(RequestUnit) : x = inbox[c]
  BY DEF IInv, SocketsInv
<1>3. half[c] = FALSE
  BY DEF BeginRequest, IInv, AskedInv
<1>4. /\ Cardinality(Asked) < MaxRequests
      /\ asked' = [asked EXCEPT ![c] = Append(asked[c], q)] /\ half' = [half EXCEPT ![c] = TRUE]
      /\ UNCHANGED <<outbox, got, peer, conn, clients, events, pc, handled, members, failed>>
  BY DEF BeginRequest, Transmit, Asked, broker, history
<1>5. /\ Len(a) \in Nat /\ Append(a, q) \in Seq(Kind) /\ Len(Append(a, q)) = Len(a) + 1
      /\ Append(a, q)[Len(a) + 1] = q /\ \A i \in 1..Len(a) : Append(a, q)[i] = a[i]
  BY SeqFacts
<1>6. /\ asked'[c] = Append(a, q) /\ half'[c] = TRUE
      /\ \A d \in Conn : d # c => asked'[d] = asked[d] /\ half'[d] = half[d]
  BY <1>1, <1>4 DEF IInv, AskedInv
<1>7. Len(a) + 1 \in 1..MaxRequests
  BY <1>1, <1>4, <1>5, AskedBound, BoundAssumption DEF IInv
<1>8. PICK u \in RequestUnit :
         /\ u = [id |-> Len(a) + 1, kind |-> q, part |-> 1]
         /\ u = Unit(Append(a, q), 2 * Len(a) + 1)
  <2>1. Unit(Append(a, q), 2 * Len(a) + 1) = [id |-> Len(a) + 1, kind |-> q, part |-> 1]
    <3>1. PICK n \in Nat : n = Len(a)
      BY <1>5
    <3>2. PICK b \in Seq(Kind) : b = Append(a, q)
      BY <1>5
    <3>3. Unit(b, 2 * n + 1) = [id |-> n + 1, kind |-> b[n + 1], part |-> 1]
      BY UnitFacts
    <3> QED
      BY <1>5, <3>1, <3>2, <3>3
  <2> QED
    BY <1>7, <2>1 DEF RequestUnit
<1>9. inbox' = [inbox EXCEPT ![c] = Append(x, u)]
  BY <1>2, <1>5, <1>6, <1>8 DEF BeginRequest, Transmit
<1>10. Append(x, u) \in Seq(RequestUnit)
  BY SeqFacts
<1>11. /\ inbox' \in [Conn -> Seq(RequestUnit)] /\ inbox'[c] = Append(x, u)
       /\ \A d \in Conn : d # c => inbox'[d] = inbox[d]
  BY <1>9, <1>10 DEF IInv, SocketsInv
<1>12. AskedInv'
  BY <1>4, OneMoreAsked DEF IInv
<1>13. SocketsInv'
  BY <1>4, <1>11 DEF IInv, SocketsInv
<1>14. ASSUME NEW h \in Nat, NEW r \in Seq(RequestUnit), Input(asked[c], half[c], h, r, inbox[c])
       PROVE  Input(asked'[c], half'[c], h, r, inbox'[c])
  <2>1. Input(a, FALSE, h, r, x)
    BY <1>1, <1>2, <1>3, <1>14
  <2>2. Input(Append(a, q), TRUE, h, r, Append(x, u))
    BY <1>8, <2>1, InputBegin
  <2> QED
    BY <1>6, <1>11, <2>2
<1>15. Length(asked[c], half[c]) <= Length(asked'[c], half'[c])
  <2>1. 2 * Len(a) <= 2 * (Len(a) + 1) - 1
    BY <1>5
  <2>2. Length(a, FALSE) = 2 * Len(a) /\ Length(Append(a, q), TRUE) = 2 * (Len(a) + 1) - 1
    BY <1>5 DEF Length
  <2> QED
    BY <1>1, <1>3, <1>6, <2>1, <2>2
<1>16. \A i \in DOMAIN asked[c] : i \in DOMAIN asked'[c] /\ asked'[c][i] = asked[c][i]
  <2>1. DOMAIN a = 1..Len(a) /\ DOMAIN Append(a, q) = 1..(Len(a) + 1)
    BY <1>5
  <2> QED
    BY <1>1, <1>5, <1>6, <2>1
<1> QED
  BY <1>4, <1>6, <1>11, <1>12, <1>13, <1>14, <1>15, <1>16, TransmitStep

\* The second half of a request is sent.
LEMMA EndStep == ASSUME IInv, NEW c \in Conn, EndRequest(c) PROVE IInv'
<1>1. PICK a \in Seq(Kind) : a = asked[c]
  BY DEF IInv, AskedInv
<1>2. PICK x \in Seq(RequestUnit) : x = inbox[c]
  BY DEF IInv, SocketsInv
<1>3. half[c] = TRUE /\ a # <<>>
  BY <1>1 DEF EndRequest, IInv, AskedInv
<1>4. /\ asked' = asked /\ half' = [half EXCEPT ![c] = FALSE]
      /\ UNCHANGED <<outbox, got, peer, conn, clients, events, pc, handled, members, failed>>
  BY DEF EndRequest, Transmit, broker, history
<1>5. half' \in [Conn -> BOOLEAN] /\ half'[c] = FALSE /\ \A d \in Conn : d # c => half'[d] = half[d]
  BY <1>4 DEF IInv, AskedInv
<1>6. Len(a) \in 1..MaxRequests /\ Len(a) \in Nat /\ a[Len(a)] \in Kind
  <2>1. Len(a) \in Nat \ {0} /\ a[Len(a)] \in Kind
    BY <1>3
  <2>2. Len(a) <= Cardinality(Asked) /\ Cardinality(Asked) \in Nat /\ Cardinality(Asked) <= MaxRequests
    BY <1>1, AskedBound DEF IInv, AskedInv
  <2> QED
    BY <2>1, <2>2, BoundAssumption
<1>7. PICK u \in RequestUnit :
         /\ u = [id |-> Len(a), kind |-> a[Len(a)], part |-> 2]
         /\ u = Unit(a, 2 * Len(a))
  <2>1. Unit(a, 2 * Len(a)) = [id |-> Len(a), kind |-> a[Len(a)], part |-> 2]
    BY <1>6, UnitFacts
  <2> QED
    BY <1>6, <2>1 DEF RequestUnit
<1>8. inbox' = [inbox EXCEPT ![c] = Append(x, u)]
  BY <1>1, <1>2, <1>4, <1>7 DEF EndRequest, Transmit
<1>9. Append(x, u) \in Seq(RequestUnit)
  BY SeqFacts
<1>10. /\ inbox' \in [Conn -> Seq(RequestUnit)] /\ inbox'[c] = Append(x, u)
       /\ \A d \in Conn : d # c => inbox'[d] = inbox[d]
  BY <1>8, <1>9 DEF IInv, SocketsInv
<1>11. AskedInv' /\ SocketsInv'
  BY <1>4, <1>5, <1>10 DEF IInv, AskedInv, Asked, SocketsInv
<1>12. ASSUME NEW h \in Nat, NEW r \in Seq(RequestUnit), Input(asked[c], half[c], h, r, inbox[c])
       PROVE  Input(asked'[c], half'[c], h, r, inbox'[c])
  <2>1. Input(a, TRUE, h, r, x)
    BY <1>1, <1>2, <1>3, <1>12
  <2>2. Input(a, FALSE, h, r, Append(x, u))
    BY <1>3, <1>7, <2>1, InputEnd
  <2> QED
    BY <1>1, <1>4, <1>5, <1>10, <2>2
<1>13. Length(asked[c], half[c]) <= Length(asked'[c], half'[c])
  <2>1. Length(a, TRUE) = 2 * Len(a) - 1 /\ Length(a, FALSE) = 2 * Len(a) - 0
    BY DEF Length
  <2>2. 2 * Len(a) - 1 <= 2 * Len(a) - 0
    BY <1>6
  <2> QED
    BY <1>1, <1>3, <1>4, <1>5, <2>1, <2>2
<1>14. \A i \in DOMAIN asked[c] : i \in DOMAIN asked'[c] /\ asked'[c][i] = asked[c][i]
  BY <1>4
<1> QED
  BY <1>4, <1>5, <1>10, <1>11, <1>12, <1>13, <1>14, TransmitStep

----------------------------------------------------------------------------
(* The invariant *)

\* No client has connected.
LEMMA InitIInv == Init => IInv
<1> SUFFICES ASSUME Init PROVE IInv
  OBVIOUS
<1> USE DEF Init
<1>1. AskedInv
  <2>1. asked \in [Conn -> Seq(Kind)] /\ half \in [Conn -> BOOLEAN]
    OBVIOUS
  <2>2. Asked = {}
    BY DEF Asked
  <2> QED
    BY <2>1, <2>2, FS_EmptySet, BoundAssumption DEF AskedInv
<1>2. SocketsInv
  BY DEF SocketsInv
<1>3. InTable = {}
  BY DEF InTable
<1>4. TableInv /\ MembersInv
  BY <1>3 DEF TableInv, MembersInv, MembersConnected
<1>5. EventsInv
  <2>1. Len(events) = 0 /\ events \in Seq(Event)
    OBVIOUS
  <2> QED
    BY <2>1 DEF EventsInv
<1>6. StreamInv
  <2>1. ASSUME NEW c \in Conn PROVE StreamOf(c)
    <3>1. PICK e : e = <<>> /\ Len(e) = 0
      OBVIOUS
    <3>2. /\ handled[c] = e /\ got[c] = e /\ outbox[c] = e
          /\ inbox[c] = e /\ asked[c] = e /\ half[c] = FALSE
      BY <3>1
    <3>3. Length(e, FALSE) = 0
      BY <3>1 DEF Length
    <3>4. \A i \in 1..Len(e) : FALSE
      BY <3>1
    <3>5. Received(0, e, e)
      BY <3>1, <3>4 DEF Received
    <3>6. 2 * 0 + 0 + 0 = 0 /\ 2 * 0 <= 0
      OBVIOUS
    <3>7. 2 * 0 + Len(e) + Len(e) = Length(e, FALSE) /\ 2 * Len(e) <= Length(e, FALSE)
      BY <3>1, <3>3, <3>6, Zenon
    <3>8. Input(e, FALSE, 0, e, e)
      BY <3>4, <3>7 DEF Input
    <3> QED
      BY <3>1, <3>2, <3>4, <3>5, <3>7, <3>8 DEF StreamOf
  <2> QED
    BY <1>3, <2>1 DEF StreamInv
<1>7. ClosedForCause
  BY DEF ClosedForCause
<1> QED
  BY <1>1, <1>2, <1>4, <1>5, <1>6, <1>7 DEF IInv

\* Nothing happens.
LEMMA Stutter == ASSUME IInv, UNCHANGED vars PROVE IInv'
<1>1. /\ UNCHANGED <<asked, half, inbox, outbox, got, peer>>
      /\ UNCHANGED <<conn, clients, events, pc, handled, members, failures, failed>>
  BY DEF vars, sockets, broker, history
<1>2. StreamInv'
  BY <1>1, StreamStays DEF IInv
<1>3. AskedInv' /\ SocketsInv' 
  BY <1>1 DEF IInv, AskedInv, Asked, SocketsInv
<1> QED
  BY <1>1, <1>2, <1>3, ClientStep

\* Every step of the server and of a client keeps the invariant.
LEMMA NextIInv == IInv /\ [Next]_vars => IInv'
<1> SUFFICES ASSUME IInv, [Next]_vars PROVE IInv'
  OBVIOUS
<1>1. CASE EpollWait
  BY <1>1, WaitStep
<1>2. CASE Dispatch
  BY <1>2, DispatchStep
<1>3. CASE Accept
  BY <1>3, AcceptStep
<1>4. CASE AcceptFails
  BY <1>4, AcceptFailsStep
<1>5. CASE AcceptGivesUp \/ AcceptDone
  BY <1>5, AcceptEnds
<1>6. CASE Recv
  BY <1>6, RecvStep
<1>7. CASE ExtractDone
  BY <1>7, ExtractEnds
<1>8. CASE RejectFrame \/ HandleFails \/ QueueFails \/ SendFails \/ RecvFails
  BY <1>8, ClosingSteps
<1>9. CASE HandleFrame
  BY <1>9, HandleStep
<1>10. CASE Send
  BY <1>10, SendStep
<1>11. CASE SendDone
  BY <1>11, SendEnds
<1>12. CASE Stop
  BY <1>12, StopStep
<1>13. CASE \E c \in Conn : Client(c)
  <2>1. PICK c \in Conn : Client(c)
    BY <1>13
  <2> QED
    BY <2>1, ConnectStep, BeginStep, EndStep, ReceiveStep, DepartStep DEF Client
<1>14. CASE UNCHANGED vars
  BY <1>14, Stutter
<1> QED
  BY <1>1, <1>2, <1>3, <1>4, <1>5, <1>6, <1>7, <1>8, <1>9, <1>10, <1>11, <1>12, <1>13, <1>14
  DEF Next, Server

\* The invariant holds throughout.
LEMMA Invariant == Spec => []IInv
<1>1. Init => IInv
  BY InitIInv
<1>2. IInv /\ [Next]_vars => IInv'
  BY NextIInv
<1> QED
  BY <1>1, <1>2, PTL DEF Spec

----------------------------------------------------------------------------
(* What the event loop guarantees *)

\* The state has its type; what lies before the write offset was written.
THEOREM TypeCorrect == Spec => []TypeOK
<1>1. IInv => TypeOK
  <2> SUFFICES ASSUME IInv PROVE TypeOK
    OBVIOUS
  <2>1. ASSUME NEW f \in Fd, clients[f] # None
        PROVE  /\ clients[f] \in ClientState
               /\ clients[f].write_offset <= Len(clients[f].write_buffer)
               /\ conn[clients[f].conn] = "open"
    <3>1. f \in InTable
      BY <2>1 DEF InTable
    <3>2. clients[f] \in ClientState /\ conn[clients[f].conn] = "open"
      BY <3>1, Tabled DEF IInv
    <3>3. clients[f].write_offset <= Len(clients[f].write_buffer)
      BY <3>1 DEF IInv, StreamInv, Served, Output
    <3> QED
      BY <3>2, <3>3
  <2>2. members \subseteq Consumer
    BY DEF IInv, MembersInv
  <2> QED
    BY <2>1, <2>2 DEF IInv, AskedInv, SocketsInv, EventsInv, TypeOK
<1> QED
  BY <1>1, Invariant, PTL

\* EPOLLOUT is asked for exactly while there is output.
THEOREM OutputAlwaysArmed == Spec => []OutputArmed
<1>1. IInv => OutputArmed
  BY DEF IInv, TableInv, OutputArmed
<1> QED
  BY <1>1, Invariant, PTL

\* Every event is handled for the connection it was reported for.
THEOREM EventsAlwaysFresh == Spec => []EventsFresh
<1>1. IInv => EventsFresh
  <2> SUFFICES ASSUME IInv, NEW i \in DOMAIN events, events[i].fd # 0
               PROVE  /\ clients[events[i].fd] # None
                      /\ clients[events[i].fd].conn = events[i].conn
    BY DEF EventsFresh
  <2>1. DOMAIN events = 1..Len(events)
    BY DEF IInv, EventsInv
  <2> QED
    BY <2>1 DEF IInv, EventsInv, Fresh
<1> QED
  BY <1>1, Invariant, PTL

\* While the server runs, every member of the group is in the list of a connection that is
\* still in the table, whoever has sent LEAVE for whom: close_client will remove it.
THEOREM MembersStayConnected == Spec => []MembersConnected
<1>1. IInv => MembersConnected
  BY DEF IInv, MembersInv
<1> QED
  BY <1>1, Invariant, PTL

\* The server closes no client without a cause.
THEOREM ClosedWithCause == Spec => []ClosedForCause
<1>1. IInv => ClosedForCause
  BY DEF IInv
<1> QED
  BY <1>1, Invariant, PTL

\* The sequences x, y and z lie one behind the other in p.
Consecutive(x, y, z, p) ==
    /\ Len(x) + Len(y) + Len(z) = Len(p)
    /\ \A i \in 1..Len(x) : x[i] = p[i]
    /\ \A i \in 1..Len(y) : y[i] = p[Len(x) + i]
    /\ \A i \in 1..Len(z) : z[i] = p[Len(x) + Len(y) + i]

Joint(x, y, z) == x \o y \o z

\* Three pieces that lie one behind the other in p are p.
LEMMA Pieces ==
    ASSUME NEW S, NEW p \in Seq(S), NEW x \in Seq(S), NEW y \in Seq(S), NEW z \in Seq(S),
           Consecutive(x, y, z, p)
    PROVE  Joint(x, y, z) = p
<1> USE DEF Consecutive
<1> DEFINE xy == x \o y
           q == xy \o z
<1>1. Len(x) \in Nat /\ Len(y) \in Nat /\ Len(z) \in Nat /\ Len(p) \in Nat
  OBVIOUS
<1>2. /\ xy \in Seq(S) /\ Len(xy) = Len(x) + Len(y)
      /\ \A i \in 1..(Len(x) + Len(y)) : xy[i] = IF i <= Len(x) THEN x[i] ELSE y[i - Len(x)]
  BY ConcatProperties
<1> HIDE DEF xy
<1>3. /\ q \in Seq(S) /\ Len(q) = Len(xy) + Len(z)
      /\ \A i \in 1..(Len(xy) + Len(z)) : q[i] = IF i <= Len(xy) THEN xy[i] ELSE z[i - Len(xy)]
  <2>1. xy \in Seq(S)
    BY <1>2
  <2> QED
    BY <2>1, ConcatProperties
<1> HIDE DEF q
<1>4. Len(q) = Len(p)
  BY <1>1, <1>2, <1>3
<1>5. ASSUME NEW i \in 1..Len(p) PROVE q[i] = p[i]
  <2>1. i \in Nat /\ i \in 1..(Len(xy) + Len(z))
    BY <1>1, <1>2
  <2>2. CASE i <= Len(x)
    <3>1. i <= Len(xy) /\ i \in 1..(Len(x) + Len(y)) /\ i \in 1..Len(x)
      BY <1>1, <1>2, <2>1, <2>2
    <3> QED
      BY <1>2, <1>3, <2>1, <2>2, <3>1
  <2>3. CASE i > Len(x) /\ i <= Len(x) + Len(y)
    <3>1. i <= Len(xy) /\ i \in 1..(Len(x) + Len(y)) /\ ~(i <= Len(x)) /\ i - Len(x) \in 1..Len(y)
      BY <1>1, <1>2, <2>1, <2>3
    <3>2. q[i] = y[i - Len(x)]
      BY <1>2, <1>3, <2>1, <3>1
    <3>3. Len(x) + (i - Len(x)) = i
      BY <1>1, <2>1
    <3> QED
      BY <3>1, <3>2, <3>3
  <2>4. CASE i > Len(x) + Len(y)
    <3>1. ~(i <= Len(xy)) /\ i - Len(xy) \in 1..Len(z)
      BY <1>1, <1>2, <2>1, <2>4
    <3>2. q[i] = z[i - Len(xy)]
      BY <1>3, <2>1, <3>1
    <3>3. Len(x) + Len(y) + (i - Len(xy)) = i
      BY <1>1, <1>2, <2>1
    <3> QED
      BY <3>1, <3>2, <3>3
  <2> QED
    BY <1>1, <2>1, <2>2, <2>3, <2>4
<1>6. q = p
  BY <1>3, <1>4, <1>5, SeqEqual
<1> QED
  BY <1>6 DEF Joint, q, xy

\* The number of units that were sent.
LEMMA LengthFacts ==
    ASSUME NEW a \in Seq(Kind), NEW hf \in BOOLEAN
    PROVE  /\ Len(a) \in Nat /\ Length(a, hf) \in Int /\ Length(a, hf) <= 2 * Len(a)
           /\ Length(a, TRUE) = 2 * Len(a) - 1 /\ Length(a, FALSE) = 2 * Len(a)
<1>1. Len(a) \in Nat
  OBVIOUS
<1>2. Length(a, TRUE) = 2 * Len(a) - 1 /\ Length(a, FALSE) = 2 * Len(a)
  BY <1>1 DEF Length
<1>3. 2 * Len(a) - 1 \in Int /\ 2 * Len(a) - 1 <= 2 * Len(a) /\ 2 * Len(a) \in Int /\ 2 * Len(a) <= 2 * Len(a)
  BY <1>1
<1>4. Length(a, hf) = Length(a, TRUE) \/ Length(a, hf) = Length(a, FALSE)
  BY Zenon
<1> QED
  BY <1>1, <1>2, <1>3, <1>4

\* The units of requests and answers have their types.
LEMMA UnitTypes ==
    ASSUME IInv, NEW c \in Conn
    PROVE  /\ \A i \in 1..Length(asked[c], half[c]) : Unit(asked[c], i) \in RequestUnit
           /\ \A i \in 1..(2 * Len(handled[c])) :
                 AnswerUnit(i) \in ResponseUnit /\ handled[c][(i + 1) \div 2] = (i + 1) \div 2
<1>1. PICK a \in Seq(Kind) : a = asked[c]
  BY DEF IInv, AskedInv
<1>2. PICK n \in Nat : n = Len(a) /\ n <= MaxRequests
  <2>1. Len(a) \in Nat /\ Len(a) <= Cardinality(Asked) /\ Cardinality(Asked) \in Nat /\ Cardinality(Asked) <= MaxRequests
    BY <1>1, AskedBound DEF IInv, AskedInv
  <2> QED
    BY <2>1, BoundAssumption
<1>3. PICK h \in Nat : h = Len(handled[c])
  BY DEF IInv, SocketsInv
<1>4. PICK k \in Int : k = Length(a, half[c]) /\ k <= 2 * n
  <2>1. half[c] \in BOOLEAN
    BY DEF IInv, AskedInv
  <2> QED
    BY <1>2, <2>1, LengthFacts
<1>5. \A i \in Nat : i % 2 \in {0, 1} /\ 2 - (i % 2) \in {1, 2}
  OBVIOUS
<1>6. ASSUME NEW i \in 1..k PROVE Unit(a, i) \in RequestUnit
  <2>1. i \in Nat /\ (i + 1) \div 2 \in 1..n
    BY <1>4
  <2>2. (i + 1) \div 2 \in 1..MaxRequests /\ a[(i + 1) \div 2] \in Kind
    BY <1>2, <2>1, BoundAssumption
  <2>3. 2 - (i % 2) \in {1, 2}
    BY <1>5, <2>1
  <2> QED
    BY <2>2, <2>3 DEF Unit, RequestUnit
<1>7. ASSUME NEW i \in 1..(2 * h)
      PROVE  AnswerUnit(i) \in ResponseUnit /\ handled[c][(i + 1) \div 2] = (i + 1) \div 2
  <2>1. i \in Nat /\ (i + 1) \div 2 \in 1..h
    OBVIOUS
  <2>2. PICK q \in Seq(1..MaxRequests) : q = handled[c] /\ Len(q) = h /\ \A j \in 1..h : q[j] = j
    BY <1>3 DEF IInv, SocketsInv, StreamInv, StreamOf
  <2>3. (i + 1) \div 2 \in 1..MaxRequests /\ handled[c][(i + 1) \div 2] = (i + 1) \div 2
    <3>1. PICK j \in 1..h : j = (i + 1) \div 2
      BY <2>1
    <3>2. q[j] = j /\ q[j] \in 1..MaxRequests
      BY <2>2, ElementOfSeq
    <3> QED
      BY <2>2, <3>1, <3>2
  <2>4. 2 - (i % 2) \in {1, 2}
    BY <1>5, <2>1
  <2> QED
    BY <2>3, <2>4 DEF AnswerUnit, ResponseUnit
<1> QED
  BY <1>1, <1>3, <1>4, <1>6, <1>7

\* Of an open client no byte is lost, repeated or out of place.
THEOREM StreamsStayIntact == Spec => []StreamsIntact
<1>1. IInv => StreamsIntact
  <2> SUFFICES ASSUME IInv, NEW f \in InTable, NEW c \in Conn, c = clients[f].conn
               PROVE  /\ SubSeq(Sent(c), 1, 2 * Len(handled[c])) \o clients[f].read_buffer \o inbox[c] = Sent(c)
                      /\ got[c] \o outbox[c] \o SubSeq(clients[f].write_buffer, clients[f].write_offset + 1,
                                                       Len(clients[f].write_buffer)) = Answered(c)
    BY Tabled DEF IInv, StreamsIntact
  <2>1. /\ clients[f].read_buffer \in Seq(RequestUnit) /\ clients[f].write_buffer \in Seq(ResponseUnit)
        /\ clients[f].write_offset \in Nat
        /\ inbox[c] \in Seq(RequestUnit) /\ outbox[c] \in Seq(ResponseUnit) /\ got[c] \in Seq(ResponseUnit)
    BY Tabled DEF IInv, SocketsInv
  <2>2. PICK r \in Seq(RequestUnit) : r = clients[f].read_buffer
    BY <2>1
  <2>3. PICK x \in Seq(RequestUnit) : x = inbox[c]
    BY <2>1
  <2>4. PICK w \in Seq(ResponseUnit) : w = clients[f].write_buffer
    BY <2>1
  <2>5. PICK off \in Nat : off = clients[f].write_offset
    BY <2>1
  <2>6. PICK o \in Seq(ResponseUnit) : o = outbox[c]
    BY <2>1
  <2>7. PICK g \in Seq(ResponseUnit) : g = got[c]
    BY <2>1
  <2>8. PICK h \in Nat : h = Len(handled[c])
    BY DEF IInv, SocketsInv
  <2>9. PICK n \in Int : n = Length(asked[c], half[c])
    BY LengthFacts DEF IInv, AskedInv
  <2>10. /\ 2 * h + Len(r) + Len(x) = n
         /\ \A i \in 1..Len(r) : r[i] = Unit(asked[c], 2 * h + i)
         /\ \A i \in 1..Len(x) : x[i] = Unit(asked[c], 2 * h + Len(r) + i)
    BY <2>2, <2>3, <2>8, <2>9 DEF IInv, StreamInv, Served, Input
  <2>11. Received(h, g, o) /\ Output(h, g, o, w, off)
    BY <2>4, <2>5, <2>6, <2>7, <2>8 DEF IInv, StreamInv, StreamOf, Served
  <2>12. Len(r) \in Nat /\ Len(x) \in Nat /\ Len(g) \in Nat /\ Len(o) \in Nat /\ Len(w) \in Nat
    OBVIOUS
  <2>13. SubSeq(Sent(c), 1, 2 * h) \o r \o x = Sent(c)
    <3>1. PICK p : p = Sent(c)
      OBVIOUS
    <3>2. p = [i \in 1..n |-> Unit(asked[c], i)]
      BY <2>9, <3>1 DEF Sent, Unit, Length
    <3>3. n \in Nat
      BY <2>10, <2>12
    <3>4. p \in Seq(RequestUnit) /\ Len(p) = n /\ \A i \in 1..n : p[i] = Unit(asked[c], i)
      <4>1. p \in [1..n -> RequestUnit]
        BY <2>9, <3>2, UnitTypes
      <4>2. p \in Seq(RequestUnit)
        BY <3>3, <4>1, SeqDef
      <4>3. Len(p) = n
        BY <3>3, <4>1, <4>2, LenProperties
      <4>4. \A i \in 1..n : p[i] = Unit(asked[c], i)
        BY <3>2
      <4> QED
        BY <4>2, <4>3, <4>4
    <3>5. PICK y : y = SubSeq(p, 1, 2 * h)
      OBVIOUS
    <3>6. y \in Seq(RequestUnit) /\ Len(y) = 2 * h /\ \A i \in 1..Len(y) : y[i] = p[i]
      <4>1. 1 \in 1..(Len(p) + 1) /\ 2 * h \in (1 - 1)..Len(p)
        BY <2>10, <2>12, <3>3, <3>4
      <4>2. /\ y \in Seq(RequestUnit) /\ Len(y) = 2 * h - 1 + 1
            /\ \A i \in 1..(2 * h - 1 + 1) : y[i] = p[1 + i - 1]
        BY <3>4, <3>5, <4>1, PieceFacts
      <4> QED
        BY <4>2
    <3>7. Len(y) + Len(r) + Len(x) = Len(p)
      BY <2>10, <3>4, <3>6
    <3>8. ASSUME NEW i \in 1..Len(r) PROVE r[i] = p[Len(y) + i]
      <4>1. 2 * h + i \in 1..n
        BY <2>10, <2>12
      <4>2. p[2 * h + i] = Unit(asked[c], 2 * h + i)
        BY <3>4, <4>1
      <4>3. r[i] = Unit(asked[c], 2 * h + i)
        BY <2>10
      <4> QED
        BY <3>6, <4>2, <4>3
    <3>9. ASSUME NEW i \in 1..Len(x) PROVE x[i] = p[Len(y) + Len(r) + i]
      <4>1. 2 * h + Len(r) + i \in 1..n
        BY <2>10, <2>12
      <4>2. p[2 * h + Len(r) + i] = Unit(asked[c], 2 * h + Len(r) + i)
        BY <3>4, <4>1
      <4>3. x[i] = Unit(asked[c], 2 * h + Len(r) + i)
        BY <2>10
      <4> QED
        BY <3>6, <4>2, <4>3
    <3>10. Consecutive(y, r, x, p)
      BY <3>6, <3>7, <3>8, <3>9 DEF Consecutive
    <3>11. Joint(y, r, x) = p
      BY <3>4, <3>6, <3>10, Pieces
    <3> QED
      BY <3>1, <3>5, <3>11 DEF Joint
  <2>14. g \o o \o SubSeq(w, off + 1, Len(w)) = Answered(c)
    <3>1. PICK p : p = Answered(c)
      OBVIOUS
    <3>2. p = [i \in 1..(2 * h) |-> AnswerUnit(i)]
      <4>1. \A i \in 1..(2 * h) : [id |-> handled[c][(i + 1) \div 2], part |-> 2 - (i % 2)] = AnswerUnit(i)
        BY <2>8, UnitTypes DEF AnswerUnit
      <4> QED
        BY <2>8, <3>1, <4>1 DEF Answered
    <3>3. p \in Seq(ResponseUnit) /\ Len(p) = 2 * h /\ \A i \in 1..(2 * h) : p[i] = AnswerUnit(i)
      <4>1. p \in [1..(2 * h) -> ResponseUnit]
        BY <2>8, <3>2, UnitTypes
      <4>2. 2 * h \in Nat
        OBVIOUS
      <4>3. p \in Seq(ResponseUnit)
        BY <4>1, <4>2, SeqDef
      <4>4. Len(p) = 2 * h
        BY <4>1, <4>2, <4>3, LenProperties
      <4>5. \A i \in 1..(2 * h) : p[i] = AnswerUnit(i)
        BY <3>2
      <4> QED
        BY <4>3, <4>4, <4>5
    <3>4. PICK y : y = SubSeq(w, off + 1, Len(w))
      OBVIOUS
    <3>5. off <= Len(w) /\ Len(g) + Len(o) + (Len(w) - off) = 2 * h
      BY <2>11 DEF Output
    <3>6. y \in Seq(ResponseUnit) /\ Len(y) = Len(w) - off /\ \A i \in 1..(Len(w) - off) : y[i] = w[off + i]
      <4>1. off + 1 \in 1..(Len(w) + 1) /\ Len(w) \in (off + 1 - 1)..Len(w)
        BY <2>12, <3>5
      <4>2. /\ y \in Seq(ResponseUnit) /\ Len(y) = Len(w) - (off + 1) + 1
            /\ \A i \in 1..(Len(w) - (off + 1) + 1) : y[i] = w[off + 1 + i - 1]
        BY <3>4, <4>1, PieceFacts
      <4>3. Len(w) - (off + 1) + 1 = Len(w) - off /\ \A i \in 1..(Len(w) - off) : off + 1 + i - 1 = off + i
        BY <2>12
      <4> QED
        BY <4>2, <4>3
    <3>7. Len(g) + Len(o) + Len(y) = Len(p)
      BY <3>3, <3>5, <3>6
    <3>8. \A i \in 1..Len(g) : g[i] = p[i]
      <4>1. \A i \in 1..Len(g) : i \in 1..(2 * h)
        BY <2>12, <3>5
      <4> QED
        BY <2>11, <3>3, <4>1 DEF Received
    <3>9. \A i \in 1..Len(o) : o[i] = p[Len(g) + i]
      <4>1. \A i \in 1..Len(o) : Len(g) + i \in 1..(2 * h)
        BY <2>12, <3>5
      <4> QED
        BY <2>11, <3>3, <4>1 DEF Received
    <3>10. \A i \in 1..Len(y) : y[i] = p[Len(g) + Len(o) + i]
      <4>1. \A i \in 1..(Len(w) - off) : Len(g) + Len(o) + i \in 1..(2 * h)
        BY <2>12, <3>5
      <4> QED
        BY <2>11, <3>3, <3>6, <4>1 DEF Output
    <3>11. Consecutive(g, o, y, p)
      BY <3>7, <3>8, <3>9, <3>10 DEF Consecutive
    <3>12. Joint(g, o, y) = p
      BY <3>3, <3>6, <3>11, Pieces
    <3> QED
      BY <3>1, <3>4, <3>12 DEF Joint
  <2> QED
    BY <2>2, <2>3, <2>4, <2>5, <2>6, <2>7, <2>8, <2>13, <2>14
<1> QED
  BY <1>1, Invariant, PTL

----------------------------------------------------------------------------
(* The event loop keeps the promises of Session *)

Opened == {c \in Conn : conn[c] # "closed"}

\* Requests and answers are the same for a client that sends no half and receives nothing.
LEMMA SameRequests ==
    ASSUME UNCHANGED <<asked, half, got>>
    PROVE  \A c \in Conn : RequestsOf(c)' = RequestsOf(c) /\ AnswersTo(c)' = AnswersTo(c)
BY DEF RequestsOf, AnswersTo

\* A step that Session does not see.
LEMMA Unseen ==
    ASSUME \A c \in Conn : RequestsOf(c)' = RequestsOf(c) /\ AnswersTo(c)' = AnswersTo(c),
           handled' = handled, Opened' = Opened
    PROVE  UNCHANGED Promise!vars
BY DEF Promise!vars, Opened

\* The connections S are closed.
LEMMA SeenClose ==
    ASSUME UNCHANGED <<asked, half, got, handled>>, NEW S, Opened' = Opened \ S
    PROVE  [Promise!Next]_(Promise!vars)
<1>1. \A c \in Conn : RequestsOf(c)' = RequestsOf(c) /\ AnswersTo(c)' = AnswersTo(c)
  BY SameRequests
<1>2. PICK T \in SUBSET Opened : Opened' = Opened \ T
  <2>1. Opened \cap S \in SUBSET Opened /\ Opened' = Opened \ (Opened \cap S)
    OBVIOUS
  <2> QED
    BY <2>1
<1>3. Promise!Close(T)
  BY <1>1, <1>2 DEF Promise!Close, Opened
<1>4. T \in SUBSET {c \in Conn : conn[c] # "closed"}
  BY DEF Opened
<1> QED
  BY <1>3, <1>4 DEF Promise!Next

\* The requests that c has sent completely.
LEMMA RequestsFacts ==
    ASSUME IInv, NEW c \in Conn
    PROVE  /\ RequestsOf(c) \in Seq(1..MaxRequests)
           /\ Len(RequestsOf(c)) = Len(asked[c]) - (IF half[c] THEN 1 ELSE 0)
           /\ \A i \in 1..Len(RequestsOf(c)) : RequestsOf(c)[i] = i
<1>1. PICK n \in Nat : n = Len(asked[c]) /\ n <= MaxRequests /\ (half[c] => n # 0)
  <2>1. /\ Len(asked[c]) \in Nat /\ Len(asked[c]) <= Cardinality(Asked)
        /\ Cardinality(Asked) \in Nat /\ Cardinality(Asked) <= MaxRequests
    BY AskedBound DEF IInv, AskedInv
  <2>2. half[c] => Len(asked[c]) # 0
    BY DEF IInv, AskedInv
  <2> QED
    BY <2>1, <2>2, BoundAssumption
<1>2. PICK m \in Nat : m = n - (IF half[c] THEN 1 ELSE 0) /\ m <= MaxRequests
  <2>1. MaxRequests \in Nat /\ half[c] \in BOOLEAN
    BY BoundAssumption DEF IInv, AskedInv
  <2>2. CASE half[c]
    <3>1. n # 0 /\ (IF half[c] THEN 1 ELSE 0) = 1
      BY <1>1, <2>2
    <3>2. n - 1 \in Nat /\ n - 1 <= MaxRequests
      BY <1>1, <2>1, <3>1
    <3> QED
      BY <3>1, <3>2
  <2>3. CASE ~half[c]
    BY <1>1, <2>1, <2>3
  <2> QED
    BY <2>2, <2>3
<1>3. RequestsOf(c) = [i \in 1..m |-> i]
  BY <1>1, <1>2 DEF RequestsOf
<1>4. RequestsOf(c) \in [1..m -> 1..MaxRequests]
  BY <1>2, <1>3, BoundAssumption
<1>5. RequestsOf(c) \in Seq(1..MaxRequests) /\ Len(RequestsOf(c)) = m
  <2>1. PICK p \in [1..m -> 1..MaxRequests] : p = RequestsOf(c)
    BY <1>4
  <2>2. p \in Seq(1..MaxRequests)
    BY SeqDef
  <2>3. Len(p) = m
    BY <2>2, LenProperties
  <2> QED
    BY <2>1, <2>2, <2>3
<1> QED
  BY <1>1, <1>2, <1>3, <1>5

\* A request of c is carried out, and the connection may be closed.
LEMMA SeenExecute ==
    ASSUME IInv, Complete, pc = "extract", UNCHANGED <<asked, half, got>>,
           NEW c \in Conn, c = State.conn, Opened' \in {Opened, Opened \ {c}}
    PROVE  Promise!Next
<1>1. Current \in InTable /\ State = clients[Current]
  BY CurrentConn
<1>2. c \in Opened /\ State.read_buffer \in Seq(RequestUnit)
  BY <1>1, Tabled DEF IInv, Opened
<1>3. State.read_buffer # <<>>
  BY <1>2 DEF Complete
<1>4. PICK k : k = State.read_buffer[1].id
  OBVIOUS
<1>5. k = Len(handled[c]) + 1
  BY <1>1, <1>3, <1>4, FirstFrame
<1>6. handled' = [handled EXCEPT ![c] = Append(@, k)]
  BY <1>4 DEF Complete
<1>7. PICK h \in Nat : h = Len(handled[c])
  BY DEF IInv, SocketsInv
<1>8. h + 1 <= Len(RequestsOf(c))
  <2>1. 2 * (h + 1) <= Length(asked[c], half[c])
    BY <1>1, <1>7, CarriedNext DEF Carried
  <2>2. PICK n \in Nat : n = Len(asked[c])
    BY DEF IInv, AskedInv
  <2>3. half[c] = TRUE \/ half[c] = FALSE
    BY DEF IInv, AskedInv
  <2>4. CASE half[c] = TRUE
    BY <2>1, <2>2, <2>4, RequestsFacts DEF Length
  <2>5. CASE half[c] = FALSE
    BY <2>1, <2>2, <2>5, RequestsFacts DEF Length
  <2> QED
    BY <2>3, <2>4, <2>5
<1>9. RequestsOf(c)[h + 1] = k /\ Len(handled[c]) < Len(RequestsOf(c))
  <2>1. PICK n \in Nat : n = Len(RequestsOf(c))
    BY RequestsFacts
  <2>2. h + 1 \in 1..n /\ h < n
    BY <1>8, <2>1
  <2> QED
    BY <1>5, <1>7, <2>1, <2>2, RequestsFacts
<1>10. \A d \in Conn : RequestsOf(d)' = RequestsOf(d) /\ AnswersTo(d)' = AnswersTo(d)
  BY SameRequests
<1>11. Promise!Execute(c)
  BY <1>2, <1>6, <1>7, <1>9, <1>10 DEF Promise!Execute, Opened
<1> QED
  BY <1>11 DEF Promise!Next

\* A connection is closed, and nothing else happens to it.
LEMMA SeenClosing ==
    ASSUME IInv, NEW S \in SUBSET Conn, CloseSockets(S)
    PROVE  Opened' = Opened \ S /\ UNCHANGED <<asked, half, got>>
<1>1. /\ \A c \in S : conn'[c] = "closed"
      /\ \A c \in Conn : c \notin S => conn'[c] = conn[c]
  BY SocketsClose DEF IInv
<1> QED
  BY <1>1 DEF Opened, CloseSockets

\* The second half makes a request complete.
LEMMA SeenSend ==
    ASSUME IInv, NEW c \in Conn, EndRequest(c)
    PROVE  Promise!Next
<1>1. PICK n \in Nat : n = Len(asked[c]) /\ n \in 1..MaxRequests
  <2>1. /\ Len(asked[c]) \in Nat /\ Len(asked[c]) <= Cardinality(Asked)
        /\ Cardinality(Asked) \in Nat /\ Cardinality(Asked) <= MaxRequests
    BY AskedBound DEF IInv, AskedInv
  <2>2. Len(asked[c]) # 0
    BY DEF IInv, AskedInv, EndRequest
  <2> QED
    BY <2>1, <2>2, BoundAssumption
<1>2. /\ asked' = asked /\ half[c] = TRUE /\ half' = [half EXCEPT ![c] = FALSE]
      /\ UNCHANGED <<got, handled, conn>>
  BY DEF EndRequest, Transmit, broker, IInv, AskedInv
<1>3. half'[c] = FALSE /\ \A d \in Conn : d # c => half'[d] = half[d]
  BY <1>2 DEF IInv, AskedInv
<1>4. RequestsOf(c)' = Append(RequestsOf(c), n)
  <2>1. RequestsOf(c) = [i \in 1..(n - 1) |-> i]
    BY <1>1, <1>2 DEF RequestsOf
  <2>2. RequestsOf(c)' = [i \in 1..n |-> i]
    <3>1. n - 0 = n
      OBVIOUS
    <3> QED
      BY <1>1, <1>2, <1>3, <3>1 DEF RequestsOf
  <2>3. PICK p : p = [i \in 1..(n - 1) |-> i]
    OBVIOUS
  <2>4. p \in Seq(Nat) /\ Len(p) = n - 1
    <3>1. p \in [1..(n - 1) -> Nat] /\ n - 1 \in Nat
      BY <1>1, <2>3
    <3>2. p \in Seq(Nat)
      BY <3>1, SeqDef
    <3> QED
      BY <3>1, <3>2, LenProperties
  <2>5. PICK q : q = [i \in 1..n |-> i]
    OBVIOUS
  <2>6. q \in Seq(Nat) /\ Len(q) = n
    <3>1. q \in [1..n -> Nat]
      BY <2>5
    <3>2. q \in Seq(Nat)
      BY <3>1, SeqDef
    <3> QED
      BY <3>1, <3>2, LenProperties
  <2>7. /\ Append(p, n) \in Seq(Nat) /\ Len(Append(p, n)) = n - 1 + 1 /\ Append(p, n)[n - 1 + 1] = n
        /\ \A i \in 1..(n - 1) : Append(p, n)[i] = p[i]
    BY <1>1, <2>4, SeqFacts
  <2>8. \A i \in 1..n : Append(p, n)[i] = q[i]
    BY <1>1, <2>3, <2>5, <2>7
  <2>9. Append(p, n) = q
    BY <2>6, <2>7, <2>8, SeqEqual
  <2> QED
    BY <2>1, <2>2, <2>3, <2>5, <2>9
<1>5. \A d \in Conn : d # c => RequestsOf(d)' = RequestsOf(d)
  BY <1>2, <1>3 DEF RequestsOf
<1>6. \A d \in Conn : AnswersTo(d)' = AnswersTo(d)
  BY <1>2 DEF AnswersTo
<1>7. Promise!Send(c)
  <2>1. [d \in Conn |-> RequestsOf(d)]' = [[d \in Conn |-> RequestsOf(d)] EXCEPT ![c] = Append(@, n)]
    BY <1>4, <1>5
  <2> QED
    BY <1>1, <1>2, <1>6, <2>1 DEF Promise!Send
<1> QED
  BY <1>7 DEF Promise!Next

\* The first half changes nothing that Session sees.
LEMMA UnseenBegin ==
    ASSUME IInv, NEW c \in Conn, NEW q \in Kind, BeginRequest(c, q)
    PROVE  UNCHANGED Promise!vars
<1>1. PICK a \in Seq(Kind) : a = asked[c]
  BY DEF IInv, AskedInv
<1>2. /\ half[c] = FALSE /\ half' = [half EXCEPT ![c] = TRUE]
      /\ asked' = [asked EXCEPT ![c] = Append(a, q)] /\ UNCHANGED <<got, handled, conn>>
  BY <1>1 DEF BeginRequest, Transmit, broker, IInv, AskedInv
<1>3. /\ half'[c] = TRUE /\ asked'[c] = Append(a, q)
      /\ \A d \in Conn : d # c => half'[d] = half[d] /\ asked'[d] = asked[d]
  BY <1>2 DEF IInv, AskedInv
<1>4. Len(a) \in Nat /\ Len(Append(a, q)) = Len(a) + 1
  BY SeqFacts
<1>5. RequestsOf(c)' = RequestsOf(c)
  <2>1. Len(a) + 1 - 1 = Len(a) /\ Len(a) - 0 = Len(a)
    BY <1>4
  <2>2. RequestsOf(c) = [i \in 1..Len(a) |-> i]
    BY <1>1, <1>2, <2>1 DEF RequestsOf
  <2>3. RequestsOf(c)' = [i \in 1..Len(a) |-> i]
    BY <1>3, <1>4, <2>1 DEF RequestsOf
  <2> QED
    BY <2>2, <2>3
<1>6. \A d \in Conn : RequestsOf(d)' = RequestsOf(d) /\ AnswersTo(d)' = AnswersTo(d)
  BY <1>2, <1>3, <1>5 DEF RequestsOf, AnswersTo
<1>7. handled' = handled /\ Opened' = Opened
  BY <1>2 DEF Opened
<1> QED
  BY <1>6, <1>7, Unseen

\* The answers that were received completely are those to the first requests, in their order.
LEMMA WholeAnswers ==
    ASSUME NEW h \in Nat, NEW g \in Seq(ResponseUnit), NEW o \in Seq(ResponseUnit), Received(h, g, o)
    PROVE  /\ Len(g) \div 2 \in Nat /\ Len(g) \div 2 <= h
           /\ \A i \in 1..(Len(g) \div 2) : g[2 * i].id = i
<1>1. PICK n \in Nat : n = Len(g)
  OBVIOUS
<1>2. n <= 2 * h
  <2>1. Len(g) + Len(o) <= 2 * h /\ Len(o) \in Nat
    BY DEF Received
  <2> QED
    BY <1>1, <2>1
<1>3. n \div 2 \in Nat /\ n \div 2 <= h
  BY <1>2
<1>4. ASSUME NEW i \in 1..(n \div 2) PROVE g[2 * i].id = i
  <2>1. i \in Nat /\ 2 * i \in 1..n
    OBVIOUS
  <2>2. g[2 * i] = AnswerUnit(2 * i)
    BY <1>1, <2>1 DEF Received
  <2>3. (2 * i + 1) \div 2 = i
    BY <2>1
  <2> QED
    BY <2>2, <2>3 DEF AnswerUnit
<1> QED
  BY <1>1, <1>3, <1>4

\* A unit received completes the answer to the next request, or nothing.
LEMMA SeenReceive ==
    ASSUME IInv, NEW c \in Conn, Receive(c)
    PROVE  [Promise!Next]_(Promise!vars)
<1>1. PICK o \in Seq(ResponseUnit) : o = outbox[c]
  BY DEF IInv, SocketsInv
<1>2. PICK g \in Seq(ResponseUnit) : g = got[c]
  BY DEF IInv, SocketsInv
<1>3. PICK h \in Nat : h = Len(handled[c])
  BY DEF IInv, SocketsInv
<1>4. /\ o # <<>> /\ got' = [got EXCEPT ![c] = Append(g, Head(o))]
      /\ UNCHANGED <<asked, half, conn, handled>>
  BY <1>1, <1>2 DEF Receive, broker
<1>5. Received(h, g, o)
  BY <1>1, <1>2, <1>3 DEF IInv, StreamInv, StreamOf
<1>6. PICK k \in Seq(ResponseUnit) : k = Append(g, Head(o)) /\ Received(h, k, Tail(o)) /\ Tail(o) \in Seq(ResponseUnit)
  BY <1>4, <1>5, OutputReceive
<1>7. PICK n \in Nat : n = Len(g) /\ Len(k) = n + 1
  <2>1. Head(o) \in ResponseUnit
    BY <1>4
  <2> QED
    BY <1>6, <2>1, SeqFacts
<1>8. got'[c] = k /\ \A d \in Conn : d # c => got'[d] = got[d]
  BY <1>4, <1>6 DEF IInv, SocketsInv
<1>9. PICK m \in Nat : m = n \div 2
  OBVIOUS
<1>10. AnswersTo(c) = [i \in 1..m |-> i]
  <2>1. \A i \in 1..m : g[2 * i].id = i
    BY <1>5, <1>7, <1>9, WholeAnswers
  <2> QED
    BY <1>2, <1>7, <1>9, <2>1 DEF AnswersTo
<1>11. PICK m2 \in Nat : m2 = (n + 1) \div 2
  OBVIOUS
<1>12. m2 <= h /\ AnswersTo(c)' = [i \in 1..m2 |-> i]
  <2>1. m2 <= h /\ \A i \in 1..m2 : k[2 * i].id = i
    BY <1>6, <1>7, <1>11, WholeAnswers
  <2> QED
    BY <1>7, <1>8, <1>11, <2>1 DEF AnswersTo
<1>13. m2 = m \/ m2 = m + 1
  BY <1>9, <1>11
<1>14. \A d \in Conn : /\ RequestsOf(d)' = RequestsOf(d)
                       /\ d # c => AnswersTo(d)' = AnswersTo(d)
  <2>1. \A d \in Conn : RequestsOf(d)' = RequestsOf(d)
    BY <1>4 DEF RequestsOf
  <2>2. \A d \in Conn : d # c => AnswersTo(d)' = AnswersTo(d)
    BY <1>8 DEF AnswersTo
  <2> QED
    BY <2>1, <2>2
<1>15. handled' = handled /\ Opened' = Opened
  BY <1>4 DEF Opened
<1>16. CASE m2 = m
  <2>1. AnswersTo(c)' = AnswersTo(c)
    BY <1>10, <1>12, <1>16
  <2> QED
    BY <1>14, <1>15, <2>1, Unseen
<1>17. CASE m2 = m + 1
  <2>1. PICK p : p = [i \in 1..m |-> i]
    OBVIOUS
  <2>2. p \in Seq(Nat) /\ Len(p) = m
    <3>1. p \in [1..m -> Nat]
      BY <2>1
    <3>2. p \in Seq(Nat)
      BY <3>1, SeqDef
    <3> QED
      BY <3>1, <3>2, LenProperties
  <2>3. PICK q : q = [i \in 1..(m + 1) |-> i]
    OBVIOUS
  <2>4. q \in Seq(Nat) /\ Len(q) = m + 1
    <3>1. q \in [1..(m + 1) -> Nat] /\ m + 1 \in Nat
      BY <2>3
    <3>2. q \in Seq(Nat)
      BY <3>1, SeqDef
    <3> QED
      BY <3>1, <3>2, LenProperties
  <2>5. /\ Append(p, m + 1) \in Seq(Nat) /\ Len(Append(p, m + 1)) = m + 1 /\ Append(p, m + 1)[m + 1] = m + 1
        /\ \A i \in 1..m : Append(p, m + 1)[i] = p[i]
    BY <2>2, SeqFacts
  <2>6. \A i \in 1..(m + 1) : Append(p, m + 1)[i] = q[i]
    BY <2>1, <2>3, <2>5
  <2>7. Append(p, m + 1) = q
    BY <2>4, <2>5, <2>6, SeqEqual
  <2>8. AnswersTo(c)' = Append(AnswersTo(c), m + 1) /\ Len(AnswersTo(c)) = m
    BY <1>10, <1>12, <1>17, <2>1, <2>2, <2>3, <2>7
  <2>9. handled[c][m + 1] = m + 1 /\ m < Len(handled[c])
    <3>1. m + 1 \in 1..h /\ m < h
      BY <1>12, <1>17
    <3> QED
      BY <1>3, <3>1 DEF IInv, StreamInv, StreamOf
  <2>10. Promise!Answer(c)
    <3>1. [d \in Conn |-> AnswersTo(d)]' = [[d \in Conn |-> AnswersTo(d)] EXCEPT ![c] = Append(@, handled[c][m + 1])]
      BY <1>14, <2>8, <2>9
    <3> QED
      BY <1>14, <1>15, <2>8, <2>9, <3>1 DEF Promise!Answer, Opened
  <2> QED
    BY <2>10 DEF Promise!Next
<1> QED
  BY <1>13, <1>16, <1>17

\* Every step is a step of Session, or one that it does not see.
LEMMA StepKeepsPromise == IInv /\ [Next]_vars => [Promise!Next]_(Promise!vars)
<1> SUFFICES ASSUME IInv, [Next]_vars PROVE [Promise!Next]_(Promise!vars)
  OBVIOUS
<1>1. ASSUME UNCHANGED <<asked, half, got, handled, conn>> PROVE UNCHANGED Promise!vars
  <2>1. Opened' = Opened
    BY <1>1 DEF Opened
  <2> QED
    BY <1>1, <2>1, SameRequests, Unseen
<1>2. ASSUME NEW S \in SUBSET Conn, CloseSockets(S), handled' = handled
      PROVE  [Promise!Next]_(Promise!vars)
  BY <1>2, SeenClosing, SeenClose
<1>3. ASSUME pc \in {"read", "extract", "write"}, CloseClient(State, Current, members)
      PROVE  {State.conn} \in SUBSET Conn /\ CloseSockets({State.conn})
  BY <1>3, CurrentConn DEF CloseClient
<1>4. CASE EpollWait \/ AcceptGivesUp \/ AcceptDone \/ ExtractDone \/ SendDone
  BY <1>1, <1>4 DEF EpollWait, AcceptGivesUp, AcceptDone, ExtractDone, SendDone, sockets, broker
<1>5. CASE Dispatch
  <2>1. CASE UNCHANGED <<sockets, conn, clients, broker>>
    BY <1>1, <2>1 DEF sockets, broker
  <2>2. CASE CloseClient(State, Current, members) /\ Current # 0 /\ handled' = handled
    <3>1. pc \in {"dispatch", "accept", "read", "extract", "write"}
      BY <1>5 DEF Dispatch
    <3>2. Current \in InTable
      BY <2>2, <3>1, FirstEvent
    <3>3. {State.conn} \in SUBSET Conn /\ CloseSockets({State.conn})
      BY <2>2, <3>2, Tabled DEF IInv, State, CloseClient
    <3> QED
      BY <1>2, <2>2, <3>3
  <2> QED
    BY <1>5, <2>1, <2>2 DEF Dispatch, State, Current
<1>6. CASE Accept
  <2>1. PICK c \in Backlog : conn' = [conn EXCEPT ![c] = "open"]
    BY <1>6 DEF Accept
  <2>2. Opened' = Opened
    BY <2>1 DEF Opened, Backlog, IInv, SocketsInv
  <2>3. UNCHANGED <<asked, half, got, handled>>
    BY <1>6 DEF Accept, sockets, broker
  <2> QED
    BY <2>2, <2>3, SameRequests, Unseen
<1>7. CASE AcceptFails
  <2>1. PICK c \in Conn : CloseSockets({c})
    BY <1>7 DEF AcceptFails, Backlog
  <2>2. {c} \in SUBSET Conn /\ handled' = handled
    BY <1>7 DEF AcceptFails, broker
  <2> QED
    BY <1>2, <2>1, <2>2
<1>8. CASE Recv
  <2>1. pc = "read" /\ handled' = handled
    BY <1>8 DEF Recv
  <2>2. CASE UNCHANGED <<asked, half, got, conn>>
    BY <1>1, <2>1, <2>2
  <2>3. CASE CloseClient(State, Current, members)
    BY <1>2, <1>3, <2>1, <2>3
  <2> QED
    BY <1>8, <2>2, <2>3 DEF Recv, sockets
<1>9. CASE RejectFrame \/ SendFails \/ RecvFails
  BY <1>2, <1>3, <1>9 DEF RejectFrame, SendFails, RecvFails
<1>10. CASE HandleFrame
  <2>1. Complete /\ pc = "extract" /\ UNCHANGED <<asked, half, got, conn>>
    BY <1>10 DEF HandleFrame, Complete, sockets
  <2>2. State.conn \in Conn
    BY <2>1, CurrentConn
  <2>3. Opened' = Opened
    BY <2>1 DEF Opened
  <2> QED
    BY <2>1, <2>2, <2>3, SeenExecute
<1>11. CASE HandleFails \/ QueueFails
  <2>1. Complete /\ pc = "extract"
    BY <1>11 DEF HandleFails, QueueFails, Complete
  <2>2. PICK f \in InTable : f = Current /\ State = clients[f] /\ State.conn \in Conn /\ State \in ClientState
    <3>1. Current \in InTable /\ State = clients[Current]
      BY <2>1, CurrentConn
    <3> QED
      BY <3>1, Tabled DEF IInv
  <2>3. CloseSockets({State.conn})
    <3>1. CASE HandleFails
      BY <3>1 DEF HandleFails, CloseClient
    <3>2. CASE QueueFails
      <4>1. State.read_buffer # <<>>
        BY <2>1, <2>2, Tabled DEF IInv, Complete
      <4>2. State.read_buffer[1] \in RequestUnit /\ members \subseteq Consumer
        BY <2>2, <4>1, FirstFrame DEF IInv, MembersInv
      <4>3. PICK j \in [Consumer -> Nat] : AfterRequest(State) = [State EXCEPT !.joined = j]
        BY <2>2, <4>2, RequestKeeps
      <4>4. AfterRequest(State).conn = State.conn
        BY <2>2, <4>3 DEF ClientState
      <4> QED
        BY <3>2, <4>4 DEF QueueFails, CloseClient
    <3> QED
      BY <1>11, <3>1, <3>2
  <2>4. PICK c \in Conn : c = State.conn
    BY <2>2
  <2>5. CloseSockets({c}) /\ {c} \in SUBSET Conn
    BY <2>3, <2>4
  <2>6. Opened' = Opened \ {c} /\ UNCHANGED <<asked, half, got>>
    BY <2>5, SeenClosing
  <2> QED
    BY <2>1, <2>4, <2>6, SeenExecute
<1>12. CASE Send
  <2>1. pc = "write" /\ handled' = handled
    BY <1>12 DEF Send
  <2>2. CASE UNCHANGED <<asked, half, got, conn>>
    BY <1>1, <2>1, <2>2
  <2>3. CASE CloseClient(State, Current, members)
    BY <1>2, <1>3, <2>1, <2>3
  <2> QED
    BY <1>12, <2>2, <2>3 DEF Send, sockets
<1>13. CASE Stop
  <2>1. PICK S : S = Backlog \cup {clients[f].conn : f \in InTable}
    OBVIOUS
  <2>2. S \in SUBSET Conn
    BY <2>1, Tabled DEF IInv, Backlog
  <2>3. CloseSockets(S) /\ handled' = handled
    BY <1>13, <2>1 DEF Stop, broker
  <2> QED
    BY <1>2, <2>2, <2>3
<1>14. CASE \E c \in Conn : Client(c)
  <2>1. PICK c \in Conn : Client(c)
    BY <1>14
  <2>2. CASE Connect(c)
    <3>1. conn[c] = "new" /\ conn' = [conn EXCEPT ![c] = "backlog"] /\ UNCHANGED <<asked, half, got, handled>>
      BY <2>2 DEF Connect, sockets, broker
    <3>2. Opened' = Opened
      BY <3>1 DEF Opened, IInv, SocketsInv
    <3> QED
      BY <3>1, <3>2, SameRequests, Unseen
  <2>3. CASE EndRequest(c)
    BY <2>3, SeenSend
  <2>4. CASE Receive(c)
    BY <2>4, SeenReceive
  <2>5. CASE \E q \in Kind : BeginRequest(c, q)
    BY <2>5, UnseenBegin
  <2>6. CASE \E how \in {"fin", "dead"} : Depart(c, how)
    BY <1>1, <2>6 DEF Depart, broker
  <2> QED
    BY <2>1, <2>2, <2>3, <2>4, <2>5, <2>6 DEF Client
<1>15. CASE UNCHANGED vars
  BY <1>1, <1>15 DEF vars, sockets, broker
<1> QED
  BY <1>4, <1>5, <1>6, <1>7, <1>8, <1>9, <1>10, <1>11, <1>12, <1>13, <1>14, <1>15 DEF Next, Server

\* The event loop implements Session: requests are carried out in the order they were sent,
\* each at most once, and answered in that order, without gaps.
THEOREM KeepsPromises == Spec => ImplementsSession
<1>1. Init => Promise!Init
  <2> SUFFICES ASSUME Init PROVE Promise!Init
    OBVIOUS
  <2>1. \A c \in Conn : RequestsOf(c) = <<>> /\ AnswersTo(c) = <<>> /\ handled[c] = <<>> /\ conn[c] = "new"
    BY DEF Init, RequestsOf, AnswersTo
  <2> QED
    BY <2>1 DEF Init, Promise!Init
<1>2. IInv /\ [Next]_vars => [Promise!Next]_(Promise!vars)
  BY StepKeepsPromise
<1> QED
  BY <1>1, <1>2, Invariant, PTL DEF Spec, ImplementsSession, Promise!Spec
=============================================================================
