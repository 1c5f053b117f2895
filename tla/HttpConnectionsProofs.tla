------------------------ MODULE HttpConnectionsProofs ------------------------
(***************************************************************************)
(* Theorems about HttpConnections, for any number of connections, any      *)
(* requests and bounds: its types, the deadline of each read, and that     *)
(* each request is answered once, in its turn and with its own code.       *)
(***************************************************************************)
EXTENDS HttpConnections, SequenceTheorems, FiniteSetTheorems, TLAPS

(* Sequences without duplicates: what is ready to run. *)

In(x, s) == \E n \in 1 .. Len(s) : s[n] = x
Distinct(s) == \A m, n \in 1 .. Len(s) : s[m] = s[n] => m = n

\* The first of a sequence is taken, a new one put at its end, or a whole sequence.
LEMMA TailDistinct ==
    ASSUME NEW S, NEW s \in Seq(S), s # <<>>, Distinct(s)
    PROVE  /\ Tail(s) \in Seq(S) /\ Distinct(Tail(s))
           /\ \A x : In(x, Tail(s)) => In(x, s) /\ x # Head(s)
           /\ In(Head(s), s)
<1> DEFINE t == Tail(s)
<1>1. /\ Len(s) \in Nat \ {0} /\ t \in Seq(S) /\ Len(t) = Len(s) - 1
      /\ \A n \in 1 .. Len(s) - 1 : t[n] = s[n + 1]
      /\ Head(s) = s[1]
    BY EmptySeq, LenProperties, HeadTailProperties
<1> HIDE DEF t
<1>2. Distinct(t)
  <2> SUFFICES ASSUME NEW m \in 1 .. Len(t), NEW n \in 1 .. Len(t), t[m] = t[n]
               PROVE  m = n
      BY DEF Distinct
  <2>1. m + 1 \in 1 .. Len(s) /\ n + 1 \in 1 .. Len(s) /\ s[m + 1] = s[n + 1]
      BY <1>1
  <2>2. m + 1 = n + 1
      BY <2>1 DEF Distinct
  <2> QED BY <1>1, <2>2
<1>3. ASSUME NEW x, In(x, t) PROVE In(x, s) /\ x # Head(s)
  <2>1. PICK n \in 1 .. Len(t) : t[n] = x
      BY <1>3 DEF In
  <2>2. n + 1 \in 1 .. Len(s) /\ s[n + 1] = x /\ 1 \in 1 .. Len(s) /\ n + 1 # 1
      BY <1>1, <2>1
  <2> QED BY <1>1, <2>2 DEF In, Distinct
<1>4. In(Head(s), s)
    BY <1>1 DEF In
<1> QED BY <1>1, <1>2, <1>3, <1>4 DEF t

LEMMA AppendDistinct ==
    ASSUME NEW S, NEW s \in Seq(S), NEW x \in S, Distinct(s), ~In(x, s)
    PROVE  /\ Append(s, x) \in Seq(S) /\ Distinct(Append(s, x))
           /\ \A y : In(y, Append(s, x)) => In(y, s) \/ y = x
<1> DEFINE t == Append(s, x)
<1>1. /\ t \in Seq(S) /\ Len(t) = Len(s) + 1 /\ t[Len(s) + 1] = x /\ Len(s) \in Nat
      /\ \A n \in 1 .. Len(s) : t[n] = s[n]
    BY AppendProperties, LenProperties
<1> HIDE DEF t
<1>2. Distinct(t)
    BY <1>1 DEF Distinct, In
<1>3. \A y : In(y, t) => In(y, s) \/ y = x
    BY <1>1 DEF In
<1> QED BY <1>1, <1>2, <1>3 DEF t

LEMMA ConcatDistinct ==
    ASSUME NEW S, NEW s \in Seq(S), NEW t \in Seq(S), Distinct(s), Distinct(t),
           \A x : In(x, t) => ~In(x, s)
    PROVE  /\ s \o t \in Seq(S) /\ Distinct(s \o t)
           /\ \A y : In(y, s \o t) => In(y, s) \/ In(y, t)
<1> DEFINE u == s \o t
           a == Len(s)
           b == Len(t)
<1>1. /\ u \in Seq(S) /\ Len(u) = a + b /\ a \in Nat /\ b \in Nat
      /\ \A n \in 1 .. a + b : u[n] = IF n <= a THEN s[n] ELSE t[n - a]
    BY ConcatProperties, LenProperties
<1>2. \A n \in 1 .. a : In(s[n], s)
    BY DEF In
<1>3. \A n \in 1 .. b : In(t[n], t)
    BY DEF In
<1>4. \A m, n \in 1 .. a : s[m] = s[n] => m = n
    BY DEF Distinct
<1>5. \A m, n \in 1 .. b : t[m] = t[n] => m = n
    BY DEF Distinct
<1> HIDE DEF u, a, b
<1>0. a \in Nat /\ b \in Nat
    BY <1>1
<1>6. \A n \in 1 .. a + b : (n <= a /\ n \in 1 .. a) \/ (~(n <= a) /\ n - a \in 1 .. b)
    BY ONLY <1>0
<1>7. ASSUME NEW m \in 1 .. a + b, NEW n \in 1 .. a + b, u[m] = u[n] PROVE m = n
  <2>1. CASE m <= a /\ n <= a
      BY <1>1, <1>4, <1>6, <1>7, <2>1
  <2>2. CASE ~(m <= a) /\ ~(n <= a)
    <3>1. m - a \in 1 .. b /\ n - a \in 1 .. b /\ t[m - a] = t[n - a]
        BY <1>1, <1>6, <1>7, <2>2
    <3>2. m - a = n - a
        BY <1>5, <3>1
    <3> QED BY <1>1, <3>2
  <2>3. CASE m <= a /\ ~(n <= a)
    <3>1. In(u[m], s) /\ In(u[n], t)
        BY <1>1, <1>2, <1>3, <1>6, <2>3
    <3> QED BY <1>7, <3>1
  <2>4. CASE ~(m <= a) /\ n <= a
    <3>1. In(u[n], s) /\ In(u[m], t)
        BY <1>1, <1>2, <1>3, <1>6, <2>4
    <3> QED BY <1>7, <3>1
  <2> QED BY <2>1, <2>2, <2>3, <2>4
<1>8. Distinct(u)
    BY <1>1, <1>7 DEF Distinct
<1>9. ASSUME NEW y, In(y, u) PROVE In(y, s) \/ In(y, t)
  <2>1. PICK n \in 1 .. a + b : u[n] = y
      BY <1>1, <1>9 DEF In
  <2> QED BY <1>1, <1>2, <1>3, <1>6, <2>1
<1> QED BY <1>1, <1>8, <1>9 DEF u
-----------------------------------------------------------------------------
(* What a client asks, as the parts of one stream: part r of request q + 1 is number 3q + r. *)

Piece(a, s, at) ==
    \A j \in 1 .. Len(s), q \in Nat, r \in 1 .. 3 :
        at + j = 3 * q + r => q < Len(a) /\ s[j] = Units(a[q + 1])[r]

\* The parser is at part at; it holds h, i has arrived, and the client, if it is there, has u
\* to send of what it began.
Flow(a, h, i, u, at, here) ==
    /\ Piece(a, h, at) /\ Piece(a, i, at + Len(h))
    /\ here => /\ at + Len(h) + Len(i) + Len(u) = 3 * Len(a)
               /\ Piece(a, u, at + Len(h) + Len(i))

LEMMA UnitsAre ==
    ASSUME NEW k
    PROVE  /\ Units(k)[1] = [part |-> "path", kind |-> k]
           /\ Units(k)[2] = [part |-> "rest", kind |-> k]
           /\ Units(k)[3] = [part |-> "end", kind |-> k]
           /\ Head(Units(k)) = Units(k)[1]
           /\ Tail(Units(k)) = <<Units(k)[2], Units(k)[3]>>
    BY DEF Units

LEMMA PairIs ==
    \A x, y, u : u = <<x, y>> => Len(u) = 2 /\ u[1] = x /\ u[2] = y
    OBVIOUS

LEMMA NextPart ==
    \A n, a, q \in Nat, m \in 1 .. 3, r \in 1 .. 3 :
        n = 3 * a /\ n + m = 3 * q + r => q = a /\ r = m
    OBVIOUS

LEMMA PieceTail ==
    ASSUME NEW S, NEW a, NEW s \in Seq(S), s # <<>>, NEW at \in Nat, Piece(a, s, at)
    PROVE  Piece(a, Tail(s), at + 1)
<1>1. /\ Len(s) \in Nat \ {0} /\ Len(Tail(s)) = Len(s) - 1
      /\ \A n \in 1 .. Len(s) - 1 : Tail(s)[n] = s[n + 1]
    BY EmptySeq, LenProperties, HeadTailProperties
<1> SUFFICES ASSUME NEW j \in 1 .. Len(Tail(s)), NEW q \in Nat, NEW r \in 1 .. 3,
                    (at + 1) + j = 3 * q + r
             PROVE  q < Len(a) /\ Tail(s)[j] = Units(a[q + 1])[r]
    BY DEF Piece
<1>2. j + 1 \in 1 .. Len(s) /\ at + (j + 1) = 3 * q + r /\ Tail(s)[j] = s[j + 1]
    BY <1>1
<1> QED BY <1>2 DEF Piece

LEMMA PieceNone == \A a, at : Piece(a, <<>>, at)
    BY DEF Piece

\* One more part at the end.
LEMMA PieceAppend ==
    ASSUME NEW S, NEW a, NEW s \in Seq(S), NEW x \in S, NEW at \in Nat, Piece(a, s, at),
           \A q \in Nat, r \in 1 .. 3 :
               at + Len(s) + 1 = 3 * q + r => q < Len(a) /\ x = Units(a[q + 1])[r]
    PROVE  Piece(a, Append(s, x), at)
<1> DEFINE t == Append(s, x)
<1>1. /\ Len(s) \in Nat /\ Len(t) = Len(s) + 1 /\ t[Len(s) + 1] = x
      /\ \A n \in 1 .. Len(s) : t[n] = s[n]
    BY LenProperties, AppendProperties
<1> HIDE DEF t
<1> SUFFICES ASSUME NEW j \in 1 .. Len(t), NEW q \in Nat, NEW r \in 1 .. 3, at + j = 3 * q + r
             PROVE  q < Len(a) /\ t[j] = Units(a[q + 1])[r]
    BY DEF Piece, t
<1>2. CASE j = Len(s) + 1
  <2>1. at + Len(s) + 1 = 3 * q + r
      BY <1>1, <1>2
  <2>2. q < Len(a) /\ x = Units(a[q + 1])[r]
      BY <2>1
  <2> QED BY <1>1, <1>2, <2>2
<1>3. CASE j # Len(s) + 1
  <2>1. j \in 1 .. Len(s) /\ t[j] = s[j]
      BY <1>1, <1>3
  <2> QED BY <2>1 DEF Piece
<1> QED BY <1>2, <1>3

\* One more request at the end of the stream.
LEMMA PieceMore ==
    ASSUME NEW S, NEW a \in Seq(S), NEW k \in S, NEW s, NEW at, Piece(a, s, at)
    PROVE  Piece(Append(a, k), s, at)
<1>1. /\ Len(a) \in Nat /\ Len(Append(a, k)) = Len(a) + 1
      /\ \A n \in 1 .. Len(a) : Append(a, k)[n] = a[n]
    BY LenProperties, AppendProperties
<1> SUFFICES ASSUME NEW j \in 1 .. Len(s), NEW q \in Nat, NEW r \in 1 .. 3, at + j = 3 * q + r
             PROVE  q < Len(Append(a, k)) /\ s[j] = Units(Append(a, k)[q + 1])[r]
    BY DEF Piece
<1>2. q < Len(a) /\ s[j] = Units(a[q + 1])[r]
    BY DEF Piece
<1>3. q + 1 \in 1 .. Len(a) /\ Append(a, k)[q + 1] = a[q + 1]
    BY <1>1, <1>2
<1> QED BY <1>1, <1>2, <1>3

\* A client that has sent all it began begins a request: its first part arrives.
LEMMA FlowBegin ==
    ASSUME NEW S, NEW a \in Seq(S), NEW k \in S, NEW T, NEW h \in Seq(T), NEW i \in Seq(T),
           NEW at \in Nat, Flow(a, h, i, <<>>, at, TRUE), Units(k)[1] \in T
    PROVE  Flow(Append(a, k), h, Append(i, Head(Units(k))), Tail(Units(k)), at, TRUE)
<1> DEFINE b == Append(a, k)
           x == Units(k)[1]
           j == Append(i, x)
           u == Tail(Units(k))
           n == at + Len(h)
           la == Len(a)
           li == Len(i)
           e == n + li
<1>1. la \in Nat /\ Len(b) = la + 1 /\ b[la + 1] = k
    BY LenProperties, AppendProperties
<1>2. li \in Nat /\ Len(j) = li + 1 /\ Len(h) \in Nat
    BY LenProperties, AppendProperties
<1>3. u = <<Units(k)[2], Units(k)[3]>> /\ Head(Units(k)) = x
    BY UnitsAre
<1> HIDE DEF u
<1>4. Len(u) = 2 /\ u[1] = Units(k)[2] /\ u[2] = Units(k)[3]
    BY ONLY <1>3, PairIs
<1>5. n \in Nat /\ e \in Nat /\ e = 3 * la
    BY <1>2 DEF Flow
<1>6. Piece(b, h, at) /\ Piece(b, i, n)
    BY PieceMore DEF Flow
<1> HIDE DEF b, n, la, u, e
<1>7. ASSUME NEW q \in Nat, NEW r \in 1 .. 3, NEW m \in 1 .. 3, e + m = 3 * q + r
      PROVE  q = la /\ r = m /\ q < Len(b) /\ b[q + 1] = k
  <2>1. la \in Nat /\ e \in Nat /\ e = 3 * la
      BY <1>1, <1>5
  <2>2. q = la /\ r = m
      BY ONLY <1>7, <2>1, NextPart
  <2>3. q < la + 1
      BY <2>1, <2>2
  <2> QED BY <1>1, <2>2, <2>3
<1>8. Piece(b, j, n)
  <2>1. \A q \in Nat, r \in 1 .. 3 :
            n + Len(i) + 1 = 3 * q + r => q < Len(b) /\ x = Units(b[q + 1])[r]
    <3> SUFFICES ASSUME NEW q \in Nat, NEW r \in 1 .. 3, n + Len(i) + 1 = 3 * q + r
                 PROVE  q < Len(b) /\ x = Units(b[q + 1])[r]
        OBVIOUS
    <3>1. e + 1 = 3 * q + r
        BY DEF e
    <3>2. PICK m \in 1 .. 3 : m = 1
        OBVIOUS
    <3>3. e + m = 3 * q + r
        BY <3>1, <3>2
    <3>4. r = m /\ q < Len(b) /\ b[q + 1] = k
        BY <1>7, <3>3
    <3> QED BY <3>2, <3>4
  <2> HIDE DEF x
  <2> QED BY <1>5, <1>6, <2>1, PieceAppend DEF x
<1> HIDE DEF j, x
<1>9. n + Len(j) \in Nat /\ n + Len(j) = e + 1
    BY <1>2, <1>5 DEF e
<1>10. Piece(b, u, n + Len(j))
  <2> SUFFICES Piece(b, u, e + 1)
      BY <1>9
  <2> SUFFICES ASSUME NEW m \in 1 .. 2, NEW q \in Nat, NEW r \in 1 .. 3, (e + 1) + m = 3 * q + r
               PROVE  q < Len(b) /\ u[m] = Units(b[q + 1])[r]
      BY <1>4 DEF Piece
  <2>1. m + 1 \in 1 .. 3 /\ e + (m + 1) = 3 * q + r
      BY <1>5
  <2>2. r = m + 1 /\ q < Len(b) /\ b[q + 1] = k
      BY <1>7, <2>1
  <2> QED BY <1>4, <2>2
<1>11. n + Len(j) + Len(u) = 3 * Len(b)
  <2>1. \A f, l \in Nat : f = 3 * l => f + 1 + 2 = 3 * (l + 1)
      OBVIOUS
  <2>2. e + 1 + 2 = 3 * (la + 1)
      BY <1>1, <1>5, <2>1
  <2> QED BY <1>1, <1>4, <1>9, <2>2
<1>12. Flow(b, h, j, u, at, TRUE)
    BY <1>6, <1>8, <1>10, <1>11 DEF Flow, n
<1> QED BY <1>3, <1>12 DEF b, j, u

\* What it sends next arrives.
LEMMA FlowSend ==
    ASSUME NEW a, NEW T, NEW h \in Seq(T), NEW i \in Seq(T), NEW u \in Seq(T), u # <<>>,
           NEW at \in Nat, Flow(a, h, i, u, at, TRUE)
    PROVE  Flow(a, h, Append(i, Head(u)), Tail(u), at, TRUE)
<1> DEFINE x == Head(u)
           j == Append(i, x)
           v == Tail(u)
           n == at + Len(h)
           e == n + Len(i)
<1>1. /\ Len(u) \in Nat \ {0} /\ v \in Seq(T) /\ Len(v) = Len(u) - 1 /\ x = u[1] /\ x \in T
    BY EmptySeq, LenProperties, HeadTailProperties
<1>2. Len(i) \in Nat /\ Len(h) \in Nat /\ n \in Nat /\ e \in Nat
    BY LenProperties
<1>3. Piece(a, h, at) /\ Piece(a, i, n) /\ Piece(a, u, e) /\ e + Len(u) = 3 * Len(a)
    BY DEF Flow
<1> HIDE DEF x, n
<1>4. Len(j) = Len(i) + 1
    BY <1>1, AppendProperties
<1> HIDE DEF v
<1>5. n + Len(j) = e + 1
    BY <1>2, <1>4
<1> HIDE DEF j, e
<1>6. Piece(a, v, n + Len(j))
    BY <1>2, <1>3, <1>5, PieceTail DEF v
<1>7. ASSUME NEW q \in Nat, NEW r \in 1 .. 3, e + 1 = 3 * q + r
      PROVE  q < Len(a) /\ x = Units(a[q + 1])[r]
  <2>1. 1 \in 1 .. Len(u)
      BY <1>1
  <2>2. Piece(a, u, e)
      BY <1>3
  <2>3. q < Len(a) /\ u[1] = Units(a[q + 1])[r]
      BY ONLY <1>7, <2>1, <2>2 DEF Piece
  <2> QED BY <1>1, <2>3
<1>8. Piece(a, j, n)
  <2>1. \A q \in Nat, r \in 1 .. 3 :
            n + Len(i) + 1 = 3 * q + r => q < Len(a) /\ x = Units(a[q + 1])[r]
      BY <1>7 DEF e
  <2> QED BY <1>1, <1>2, <1>3, <2>1, PieceAppend DEF j
<1>9. n + Len(j) + Len(v) = 3 * Len(a)
  <2>1. e + 1 + (Len(u) - 1) = e + Len(u)
      BY <1>1, <1>2
  <2> QED BY <1>1, <1>3, <1>5, <2>1
<1>10. Flow(a, h, j, v, at, TRUE)
    BY <1>3, <1>6, <1>8, <1>9 DEF Flow, n
<1> QED BY <1>10 DEF j, v, x

\* A read takes what has arrived.
LEMMA FlowRead ==
    ASSUME NEW a, NEW T, NEW i \in Seq(T), NEW u, NEW at \in Nat, NEW here \in BOOLEAN,
           Flow(a, <<>>, i, u, at, here)
    PROVE  Flow(a, i, <<>>, u, at, here)
<1>1. Len(i) \in Nat /\ at + 0 = at /\ at + Len(i) + 0 = at + Len(i)
    BY LenProperties
<1> QED BY <1>1, PieceNone DEF Flow

\* The parser is through with a part.
LEMMA FlowDrop ==
    ASSUME NEW a, NEW T, NEW h \in Seq(T), h # <<>>, NEW i \in Seq(T), NEW u \in Seq(T),
           NEW at \in Nat, NEW here \in BOOLEAN, Flow(a, h, i, u, at, here)
    PROVE  Flow(a, Tail(h), i, u, at + 1, here)
<1> DEFINE t == Tail(h)
<1>1. Len(h) \in Nat \ {0} /\ Len(t) = Len(h) - 1 /\ Len(i) \in Nat /\ Len(u) \in Nat
    BY EmptySeq, LenProperties, HeadTailProperties
<1>2. Piece(a, t, at + 1)
    BY PieceTail DEF Flow
<1> HIDE DEF t
<1>3. (at + 1) + Len(t) = at + Len(h)
    BY <1>1
<1> QED BY <1>2, <1>3 DEF Flow, t

\* The next part, and the request it is of.
LEMMA FlowHead ==
    ASSUME NEW a, NEW T, NEW h \in Seq(T), h # <<>>, NEW i, NEW u, NEW at \in Nat, NEW here,
           Flow(a, h, i, u, at, here), NEW q \in Nat, NEW r \in 1 .. 3, at + 1 = 3 * q + r
    PROVE  q < Len(a) /\ Head(h) = Units(a[q + 1])[r]
<1>1. 1 \in 1 .. Len(h) /\ Head(h) = h[1]
    BY EmptySeq, LenProperties, HeadTailProperties
<1>2. Piece(a, h, at)
    BY DEF Flow
<1> QED BY <1>1, <1>2, Zenon DEF Piece

\* A part tells where in its request it stands.
LEMMA PartIs ==
    ASSUME NEW k, NEW r \in 1 .. 3
    PROVE  /\ Units(k)[r].kind = k
           /\ Units(k)[r].part = "path" <=> r = 1
           /\ Units(k)[r].part = "rest" <=> r = 2
           /\ Units(k)[r].part = "end" <=> r = 3
<1>1. CASE r = 1
  <2>1. Units(k)[r] = [part |-> "path", kind |-> k]
      BY <1>1, UnitsAre
  <2> QED BY <1>1, <2>1
<1>2. CASE r = 2
  <2>1. Units(k)[r] = [part |-> "rest", kind |-> k]
      BY <1>2, UnitsAre
  <2> QED BY <1>2, <2>1
<1>3. CASE r = 3
  <2>1. Units(k)[r] = [part |-> "end", kind |-> k]
      BY <1>3, UnitsAre
  <2> QED BY <1>3, <2>1
<1> QED BY <1>1, <1>2, <1>3
-----------------------------------------------------------------------------
\* What becomes of a connection's object.
ToPosted(o) == [o EXCEPT !.state = "posted"]
ToRead(o, d) == [o EXCEPT !.read = "done", !.data = d]
ToFed(o) == [o EXCEPT !.read = "none", !.data = <<>>]
ToClosed(o) == [o EXCEPT !.state = "closed", !.read = "done"]
ToClose(o, b) == [o EXCEPT !.close = b]
ToReading(o, t) == [o EXCEPT !.state = "open", !.read = "waiting", !.data = <<>>, !.task = t]
ToEnd(s) == [NoConn EXCEPT !.state = s]

\* r is an object with these fields.
Is(r, st, rd, dt, tk) ==
    r \in ConnSet /\ r.state = st /\ r.read = rd /\ r.data = dt /\ r.task = tk

LEMMA NoData == <<>> \in Seq(Unit)
    BY EmptySeq

LEMMA Object ==
    ASSUME NEW o \in ConnSet
    PROVE  /\ o.state \in {"none", "posted", "open", "closed", "upgraded", "gone"}
           /\ o.read \in {"none", "waiting", "done"} /\ o.data \in Seq(Unit)
           /\ o.task \in Nat /\ o.close \in BOOLEAN
    BY DEF ConnSet

LEMMA ObjectTo ==
    ASSUME NEW o \in ConnSet
    PROVE  /\ Is(ToPosted(o), "posted", o.read, o.data, o.task)
           /\ Is(ToFed(o), o.state, "none", <<>>, o.task)
           /\ Is(ToClosed(o), "closed", "done", o.data, o.task)
           /\ \A b \in BOOLEAN : Is(ToClose(o, b), o.state, o.read, o.data, o.task)
           /\ \A d \in Seq(Unit) : Is(ToRead(o, d), o.state, "done", d, o.task)
           /\ \A t \in Nat : Is(ToReading(o, t), "open", "waiting", <<>>, t)
<1>1. Is(ToPosted(o), "posted", o.read, o.data, o.task)
    BY DEF Is, ConnSet, ToPosted
<1>2. Is(ToFed(o), o.state, "none", <<>>, o.task)
    BY NoData DEF Is, ConnSet, ToFed
<1>3. Is(ToClosed(o), "closed", "done", o.data, o.task)
    BY DEF Is, ConnSet, ToClosed
<1>4. \A b \in BOOLEAN : Is(ToClose(o, b), o.state, o.read, o.data, o.task)
    BY DEF Is, ConnSet, ToClose
<1>5. \A d \in Seq(Unit) : Is(ToRead(o, d), o.state, "done", d, o.task)
    BY DEF Is, ConnSet, ToRead
<1>6. ASSUME NEW t \in Nat PROVE Is(ToReading(o, t), "open", "waiting", <<>>, t)
    BY NoData DEF Is, ConnSet, ToReading
<1> QED BY <1>1, <1>2, <1>3, <1>4, <1>5, <1>6

LEMMA ObjectEnds ==
    \A s \in {"upgraded", "gone"} : Is(ToEnd(s), s, "none", <<>>, 0)
    BY NoData DEF Is, ConnSet, ToEnd, NoConn

\* Of the objects, at most c's changes, to one with these fields.
Changes(c, st, rd, dt, tk) ==
    /\ conn' \in [Conns -> ConnSet] /\ Is(conn'[c], st, rd, dt, tk)
    /\ \A d \in Conns : d # c => conn'[d] = conn[d]

\* One connection's object is replaced.
LEMMA Put ==
    ASSUME HttpTypeOK, NEW c \in Conns, NEW r, conn' = [conn EXCEPT ![c] = r],
           NEW st, NEW rd, NEW dt, NEW tk, Is(r, st, rd, dt, tk)
    PROVE  Changes(c, st, rd, dt, tk)
    BY DEF Changes, HttpTypeOK, Is

LEMMA ConnectChanges ==
    ASSUME HttpTypeOK, NEW c \in Conns, Connect(c)
    PROVE  Changes(c, "posted", conn[c].read, conn[c].data, conn[c].task)
<1>1. conn[c] \in ConnSet
    BY DEF HttpTypeOK
<1>2. conn' = [conn EXCEPT ![c] = ToPosted(conn[c])]
    BY DEF Connect, ToPosted
<1> QED BY <1>1, <1>2, ObjectTo, Put

LEMMA ReadsChanges ==
    ASSUME HttpTypeOK, NEW c \in Conns, Reads(c)
    PROVE  Changes(c, "open", "waiting", <<>>, highest + 1)
<1>1. conn[c] \in ConnSet /\ highest + 1 \in Nat
    BY DEF HttpTypeOK
<1>2. conn' = [conn EXCEPT ![c] = ToReading(conn[c], highest + 1)]
    BY DEF Reads, ToReading
<1>3. Is(ToReading(conn[c], highest + 1), "open", "waiting", <<>>, highest + 1)
    BY <1>1, ObjectTo
<1> QED BY <1>2, <1>3, Put

LEMMA ReadCompletesChanges ==
    ASSUME HttpTypeOK, NEW c \in Conns, ReadCompletes(c)
    PROVE  Changes(c, conn[c].state, "done", inbox[c], conn[c].task)
<1>1. conn[c] \in ConnSet /\ inbox[c] \in Seq(Unit)
    BY DEF HttpTypeOK
<1>2. conn' = [conn EXCEPT ![c] = ToRead(conn[c], inbox[c])]
    BY DEF ReadCompletes, ToRead
<1> QED BY <1>1, <1>2, ObjectTo, Put

LEMMA FreedChanges ==
    ASSUME HttpTypeOK, NEW c \in Conns, Freed(c)
    PROVE  Changes(c, "gone", "none", <<>>, 0)
<1>1. conn' = [conn EXCEPT ![c] = ToEnd("gone")]
    BY DEF Freed, ToEnd
<1> QED BY <1>1, ObjectEnds, Put

\* A read that brought something: its data goes to the worker.
Feed(c) ==
    /\ conn[c].data # <<>>
    /\ work' = [Idle EXCEPT !.conn = c, !.buf = conn[c].data]
    /\ conn' = [conn EXCEPT ![c] = [@ EXCEPT !.read = "none", !.data = <<>>]]
    /\ UNCHANGED <<tasks, highest, robbed>>

LEMMA FeedChanges ==
    ASSUME HttpTypeOK, NEW c \in Conns, Feed(c)
    PROVE  Changes(c, conn[c].state, "none", <<>>, conn[c].task)
<1>1. conn[c] \in ConnSet
    BY DEF HttpTypeOK
<1>2. conn' = [conn EXCEPT ![c] = ToFed(conn[c])]
    BY DEF Feed, ToFed
<1> QED BY <1>1, <1>2, ObjectTo, Put

\* The cases of handle: the connection ends, or it goes to the websocket, or it is answered.
Lost == client[work.conn] = "reset" \/ conn[work.conn].state = "closed"
Drops == (Lost \/ Head(work.buf).kind = "odd") /\ Freed(work.conn) /\ work' = Idle
Upgrades ==
    /\ ~Lost /\ Head(work.buf).kind = "socket" /\ work' = Idle
    /\ conn' = [conn EXCEPT ![work.conn] = [NoConn EXCEPT !.state = "upgraded"]]
Replies ==
    /\ ~Lost /\ Head(work.buf).kind \notin {"odd", "socket"}
    /\ conn' = [conn EXCEPT ![work.conn].close = (Head(work.buf).kind = "last")]
    /\ work' = [work EXCEPT !.buf = Tail(@), !.code = Code(Head(work.buf).kind)]

LEMMA HandleCases ==
    ASSUME HandleRequest
    PROVE  /\ Feeds("end") /\ Cancels(work.conn) /\ UNCHANGED highest
           /\ UNCHANGED <<client, asked, unsent, inbox, ready, answers, unread, cut>>
           /\ Drops \/ Upgrades \/ Replies
    BY DEF HandleRequest, Drops, Upgrades, Replies, Lost, clientVars, outVars

LEMMA UpgradesChanges ==
    ASSUME HttpTypeOK, work.conn \in Conns, Upgrades
    PROVE  Changes(work.conn, "upgraded", "none", <<>>, 0)
<1>1. conn' = [conn EXCEPT ![work.conn] = ToEnd("upgraded")]
    BY DEF Upgrades, ToEnd
<1> QED BY <1>1, ObjectEnds, Put

LEMMA RepliesChanges ==
    ASSUME HttpTypeOK, work.conn \in Conns, Replies
    PROVE  LET c == work.conn
           IN  Changes(c, conn[c].state, conn[c].read, conn[c].data, conn[c].task)
<1> DEFINE c == work.conn
           b == Head(work.buf).kind = "last"
<1>1. conn[c] \in ConnSet /\ b \in BOOLEAN
    BY DEF HttpTypeOK
<1>2. conn' = [conn EXCEPT ![c] = ToClose(conn[c], b)]
    BY DEF Replies, ToClose
<1> HIDE DEF b
<1>3. Is(ToClose(conn[c], b), conn[c].state, conn[c].read, conn[c].data, conn[c].task)
    BY <1>1, ObjectTo
<1> QED BY <1>2, <1>3, Put
-----------------------------------------------------------------------------
(* The timer.                                                              *)

Timed == /\ highest \in Nat /\ robbed \in [Conns -> BOOLEAN]
         /\ \A i \in DOMAIN tasks : i \in 1 .. highest /\ tasks[i] \in [conn: Conns, left: 0 .. Timeout]

LEMMA EraseIs ==
    \A ts, id : /\ DOMAIN Erase(ts, id) = DOMAIN ts \ {id}
                /\ \A i \in DOMAIN ts \ {id} : Erase(ts, id)[i] = ts[i]
    BY DEF Erase

\* Cancelling erases the task of the connection's last identifier.
LEMMA CancelsIs ==
    ASSUME Timed, NEW c \in Conns, Cancels(c)
    PROVE  /\ DOMAIN tasks' = DOMAIN tasks \ {conn[c].task}
           /\ \A i \in DOMAIN tasks' : tasks'[i] = tasks[i]
           /\ robbed' \in [Conns -> BOOLEAN]
           /\ \A d \in Conns : robbed'[d] <=>
                robbed[d] \/ (d # c /\ conn[c].task \in DOMAIN tasks /\ tasks[conn[c].task].conn = d)
<1> DEFINE P(d) == robbed[d] \/ /\ d # c /\ conn[c].task \in DOMAIN tasks
                                /\ tasks[conn[c].task].conn = d
<1>0. tasks' = Erase(tasks, conn[c].task)
    BY DEF Cancels
<1>1. /\ DOMAIN tasks' = DOMAIN tasks \ {conn[c].task}
      /\ \A i \in DOMAIN tasks' : tasks'[i] = tasks[i]
    BY <1>0, EraseIs
<1>2. robbed' = [d \in Conns |-> P(d)]
    BY DEF Cancels
<1>3. \A d \in Conns : P(d) \in BOOLEAN
    OBVIOUS
<1> HIDE DEF P
<1>4. robbed' \in [Conns -> BOOLEAN] /\ \A d \in Conns : robbed'[d] <=> P(d)
    BY ONLY <1>2, <1>3
<1> QED BY <1>1, <1>4 DEF P

LEMMA CancelsTimed ==
    ASSUME Timed, NEW c \in Conns, Cancels(c), highest' = highest
    PROVE  Timed'
    BY CancelsIs DEF Timed

\* Restarting also adds a task, with a new identifier.
LEMMA RestartsIs ==
    ASSUME Timed, NEW c \in Conns, Restarts(c)
    PROVE  LET id == highest + 1
           IN  /\ highest' = id /\ id \notin DOMAIN tasks
               /\ DOMAIN tasks' = (DOMAIN tasks \ {conn[c].task}) \cup {id}
               /\ tasks'[id] = [conn |-> c, left |-> Timeout]
               /\ \A i \in DOMAIN tasks \ {conn[c].task} : tasks'[i] = tasks[i]
               /\ robbed' \in [Conns -> BOOLEAN]
               /\ \A d \in Conns : robbed'[d] <=>
                    /\ d # c
                    /\ robbed[d] \/ (conn[c].task \in DOMAIN tasks /\ tasks[conn[c].task].conn = d)
<1> DEFINE ts == Erase(tasks, conn[c].task)
           id == highest + 1
<1>1. /\ DOMAIN ts = DOMAIN tasks \ {conn[c].task}
      /\ \A i \in DOMAIN ts : ts[i] = tasks[i]
    BY EraseIs
<1>2. id \notin DOMAIN tasks
    BY DEF Timed
<1>3. /\ tasks' = IF id \in DOMAIN ts THEN ts
                  ELSE [i \in DOMAIN ts \cup {id} |->
                          IF i = id THEN [conn |-> c, left |-> Timeout] ELSE ts[i]]
      /\ highest' = id
      /\ robbed' = [d \in Conns |->
            d # c /\ (robbed[d] \/ /\ conn[c].task \in DOMAIN tasks
                                   /\ tasks[conn[c].task].conn = d)]
    BY DEF Restarts
<1> HIDE DEF ts, id
<1>4. tasks' = [i \in DOMAIN ts \cup {id} |->
                  IF i = id THEN [conn |-> c, left |-> Timeout] ELSE ts[i]]
    BY <1>1, <1>2, <1>3
<1>5. /\ DOMAIN tasks' = (DOMAIN tasks \ {conn[c].task}) \cup {id}
      /\ tasks'[id] = [conn |-> c, left |-> Timeout]
      /\ \A i \in DOMAIN tasks \ {conn[c].task} : tasks'[i] = tasks[i]
    BY <1>1, <1>2, <1>4
<1> DEFINE P(d) == d # c /\ (robbed[d] \/ (conn[c].task \in DOMAIN tasks /\ tasks[conn[c].task].conn = d))
<1>6. robbed' = [d \in Conns |-> P(d)]
    BY <1>3
<1>7. \A d \in Conns : P(d) \in BOOLEAN
    OBVIOUS
<1> HIDE DEF P
<1>8. robbed' \in [Conns -> BOOLEAN] /\ \A d \in Conns : robbed'[d] <=> P(d)
    BY ONLY <1>6, <1>7
<1> QED BY <1>2, <1>3, <1>5, <1>8 DEF id, P

LEMMA RestartsTimed ==
    ASSUME Timed, NEW c \in Conns, Restarts(c)
    PROVE  Timed'
<1> DEFINE id == highest + 1
<1>1. highest \in Nat /\ Timeout \in Nat /\ id \in Nat
    BY HttpConnectionsAssumption DEF Timed
<1>2. /\ highest' = id
      /\ DOMAIN tasks' = (DOMAIN tasks \ {conn[c].task}) \cup {id}
      /\ tasks'[id] = [conn |-> c, left |-> Timeout]
      /\ \A i \in DOMAIN tasks \ {conn[c].task} : tasks'[i] = tasks[i]
      /\ robbed' \in [Conns -> BOOLEAN]
    BY RestartsIs
<1>3. ASSUME NEW i \in DOMAIN tasks'
      PROVE  i \in 1 .. id /\ tasks'[i] \in [conn: Conns, left: 0 .. Timeout]
  <2>1. CASE i = id
      BY <1>1, <1>2, <2>1
  <2>2. CASE i # id
      BY <1>1, <1>2, <1>3, <2>2 DEF Timed
  <2> QED BY <2>1, <2>2
<1> QED BY <1>1, <1>2, <1>3 DEF Timed

\* A tick takes the tasks that are due.
LEMMA ProcessTimed ==
    ASSUME Timed, NEW due \in SUBSET DOMAIN tasks,
           ProcessTasks(due, IF DOMAIN tasks = due THEN 0 ELSE highest)
    PROVE  /\ Timed' /\ robbed' = robbed
           /\ DOMAIN tasks' = DOMAIN tasks \ due
           /\ \A i \in DOMAIN tasks' : tasks'[i].conn = tasks[i].conn
<1>1. /\ \A i \in DOMAIN tasks \ due : tasks[i].left > 0
      /\ tasks' = [i \in DOMAIN tasks \ due |-> [tasks[i] EXCEPT !.left = @ - 1]]
      /\ highest' = IF DOMAIN tasks = due THEN 0 ELSE highest
      /\ robbed' = robbed
    BY DEF ProcessTasks
<1>2. ASSUME NEW i \in DOMAIN tasks \ due
      PROVE  /\ tasks'[i].conn = tasks[i].conn
             /\ tasks'[i] \in [conn: Conns, left: 0 .. Timeout]
  <2>1. tasks[i] \in [conn: Conns, left: 0 .. Timeout] /\ tasks[i].left > 0 /\ Timeout \in Nat
      BY <1>1, HttpConnectionsAssumption DEF Timed
  <2>2. tasks'[i] = [tasks[i] EXCEPT !.left = @ - 1]
      BY <1>1
  <2> QED BY <2>1, <2>2
<1>3. DOMAIN tasks' = DOMAIN tasks \ due
    BY <1>1
<1>4. ASSUME NEW i \in DOMAIN tasks'
      PROVE  i \in 1 .. highest'
    BY <1>1, <1>3, <1>4 DEF Timed
<1>5. highest' \in Nat
    BY <1>1 DEF Timed
<1> QED BY <1>1, <1>2, <1>3, <1>4, <1>5 DEF Timed
-----------------------------------------------------------------------------
(* The worker.                                                             *)

Codes == {0, 200, 400, 404}
Whose == {0} \cup Conns
Feeding == [conn: Whose, buf: Seq(Unit), code: Codes, bad: BOOLEAN]

\* The worker's buffer, changed in one field, and in those that a step changes.
WithConn(w, c) == [w EXCEPT !.conn = c]
WithBuf(w, b) == [w EXCEPT !.buf = b]
WithCode(w, k) == [w EXCEPT !.code = k]
WithBad(w) == [w EXCEPT !.bad = TRUE]

Works(w, c, b, k, bad) ==
    w \in Feeding /\ w.conn = c /\ w.buf = b /\ w.code = k /\ (w.bad <=> bad)

LEMMA WorksIs ==
    ASSUME NEW w \in Feeding
    PROVE  Works(w, w.conn, w.buf, w.code, w.bad)
    BY DEF Works

LEMMA WorkerWith ==
    ASSUME NEW w, NEW c, NEW b, NEW k, NEW bad, Works(w, c, b, k, bad)
    PROVE  /\ \A d \in Whose : Works(WithConn(w, d), d, b, k, bad)
           /\ \A d \in Seq(Unit) : Works(WithBuf(w, d), c, d, k, bad)
           /\ \A d \in Codes : Works(WithCode(w, d), c, b, d, bad)
           /\ Works(WithBad(w), c, b, k, TRUE)
<1>0. w \in Feeding /\ w.conn = c /\ w.buf = b /\ w.code = k /\ (w.bad <=> bad)
    BY DEF Works
<1>1. ASSUME NEW d \in Whose PROVE Works(WithConn(w, d), d, b, k, bad)
  <2>1. /\ WithConn(w, d) \in Feeding /\ WithConn(w, d).conn = d /\ WithConn(w, d).buf = w.buf
        /\ WithConn(w, d).code = w.code /\ WithConn(w, d).bad = w.bad
      BY <1>0 DEF Feeding, WithConn
  <2> QED BY <1>0, <2>1 DEF Works
<1>2. ASSUME NEW d \in Seq(Unit) PROVE Works(WithBuf(w, d), c, d, k, bad)
  <2>1. /\ WithBuf(w, d) \in Feeding /\ WithBuf(w, d).conn = w.conn /\ WithBuf(w, d).buf = d
        /\ WithBuf(w, d).code = w.code /\ WithBuf(w, d).bad = w.bad
      BY <1>0 DEF Feeding, WithBuf
  <2> QED BY <1>0, <2>1 DEF Works
<1>3. ASSUME NEW d \in Codes PROVE Works(WithCode(w, d), c, b, d, bad)
  <2>1. /\ WithCode(w, d) \in Feeding /\ WithCode(w, d).conn = w.conn /\ WithCode(w, d).buf = w.buf
        /\ WithCode(w, d).code = d /\ WithCode(w, d).bad = w.bad
      BY <1>0 DEF Feeding, WithCode
  <2> QED BY <1>0, <2>1 DEF Works
<1>4. Works(WithBad(w), c, b, k, TRUE)
  <2>1. /\ WithBad(w) \in Feeding /\ WithBad(w).conn = w.conn /\ WithBad(w).buf = w.buf
        /\ WithBad(w).code = w.code /\ WithBad(w).bad = TRUE
      BY <1>0 DEF Feeding, WithBad
  <2> QED BY <1>0, <2>1 DEF Works
<1> QED BY <1>1, <1>2, <1>3, <1>4

LEMMA IdleWorks == Works(Idle, 0, <<>>, 0, FALSE)
    BY NoData DEF Works, Feeding, Idle, Whose, Codes

LEMMA CodesAre == 0 \in Codes /\ 404 \in Codes /\ \A c \in Conns : c \in Whose
    BY DEF Codes, Whose

LEMMA TailTwo ==
    ASSUME NEW S, NEW s \in Seq(S), Len(s) > 1
    PROVE  /\ s # <<>> /\ Tail(s) \in Seq(S) /\ Tail(s) # <<>>
           /\ SubSeq(s, 3, Len(s)) = Tail(Tail(s)) /\ Tail(Tail(s)) \in Seq(S)
<1>1. s # <<>> /\ Len(s) \in Nat
    BY LenProperties
<1>2. Tail(s) \in Seq(S) /\ Len(Tail(s)) = Len(s) - 1 /\ Tail(s) = SubSeq(s, 2, Len(s))
    BY <1>1, HeadTailProperties, TailIsSubSeq
<1>3. Tail(s) # <<>>
  <2> DEFINE t == Tail(s)
  <2>1. t \in Seq(S) /\ Len(t) # 0
      BY <1>1, <1>2
  <2> HIDE DEF t
  <2>2. t # <<>>
      BY ONLY <2>1, EmptySeq
  <2> QED BY <2>2 DEF t
<1>4. Tail(Tail(s)) \in Seq(S)
    BY <1>2, <1>3, HeadTailProperties
<1>5. 2 \in 1 .. Len(s) /\ Len(s) \in 2 .. Len(s)
    BY <1>1
<1>6. Tail(SubSeq(s, 2, Len(s))) = SubSeq(s, 2 + 1, Len(s))
    BY <1>5, HeadTailOfSubSeq
<1> QED BY <1>1, <1>2, <1>3, <1>4, <1>6

LEMMA CodeIs ==
    \A k : /\ Code(k) \in Codes
           /\ k \in Kinds /\ k \notin {"odd", "socket"} => Code(k) # 0
           /\ Code("missing") = 404
    BY DEF Code, Kinds, Codes

\* What on_url does to the buffer: past the URL or what there is of it, or no further.
Onward ==
    \/ /\ Head(work.buf).part = "path" /\ Tail(work.buf) # <<>>
       /\ Works(work', work.conn, Tail(Tail(work.buf)), 0, FALSE)
    \/ Works(work', work.conn, Tail(work.buf), 0, FALSE)
Refused == Works(work', work.conn, <<>>, 404, TRUE) /\ (Head(work.buf).kind = "missing" \/ cut'[work.conn])

LEMMA LeftIs ==
    ASSUME NEW S, NEW s \in Seq(S), s # <<>>, NEW m \in {2, 3}
    PROVE  /\ SubSeq(s, m, Len(s)) \in Seq(S)
           /\ SubSeq(s, m, Len(s)) = Tail(s) \/ (Tail(s) # <<>> /\ SubSeq(s, m, Len(s)) = Tail(Tail(s)))
           /\ m = 2 => SubSeq(s, m, Len(s)) = Tail(s)
<1>1. /\ Len(s) \in Nat \ {0} /\ Tail(s) \in Seq(S)
      /\ Tail(s) = SubSeq(s, 2, Len(s)) /\ Len(Tail(s)) = Len(s) - 1
    BY EmptySeq, LenProperties, HeadTailProperties, TailIsSubSeq
<1>2. CASE m = 2
    BY <1>1, <1>2
<1>3. CASE m = 3 /\ Len(s) > 1
    BY <1>3, TailTwo
<1>4. CASE m = 3 /\ ~(Len(s) > 1)
  <2> DEFINE t == Tail(s)
             n == SubSeq(s, m, Len(s))
  <2>1. t \in Seq(S) /\ Len(t) = 0
      BY <1>1, <1>4
  <2>2. n \in Seq(S) /\ Len(n) = 0
      BY <1>1, <1>4, SubSeqProperties
  <2> HIDE DEF t, n
  <2>3. t = <<>> /\ n = <<>>
      BY ONLY <2>1, <2>2, EmptySeq
  <2> QED BY <1>4, <2>2, <2>3 DEF t, n
<1> QED BY <1>2, <1>3, <1>4

LEMMA RouteWorks ==
    ASSUME work \in Feeding, cut \in [Conns -> BOOLEAN], work.conn \in Conns, RouteUrl
    PROVE  /\ cut' \in [Conns -> BOOLEAN] /\ \A d \in Conns : cut[d] => cut'[d]
           /\ work.code = 0 /\ ~work.bad /\ work.buf # <<>> /\ Head(work.buf).part \in {"path", "rest"}
           /\ Onward \/ Refused
<1> DEFINE c == work.conn
           rest == Head(work.buf).part = "rest"
           whole == rest \/ Len(work.buf) > 1
           m == IF rest THEN 2 ELSE 3
           left == SubSeq(work.buf, m, Len(work.buf))
<1>1. work.code = 0 /\ ~work.bad /\ work.buf # <<>> /\ Head(work.buf).part \in {"path", "rest"}
    BY DEF RouteUrl, Feeds
<1>2. PICK found \in BOOLEAN :
          /\ whole => (found <=> Head(work.buf).kind # "missing")
          /\ work' = IF found THEN [work EXCEPT !.buf = left]
                              ELSE [work EXCEPT !.buf = <<>>, !.code = 404, !.bad = TRUE]
          /\ cut' = [cut EXCEPT ![c] = @ \/ (~whole /\ ~found)]
  <2>1. Feeds("rest") <=> rest
      BY <1>1 DEF Feeds
  <2> HIDE DEF rest
  <2> QED BY <2>1 DEF RouteUrl
<1>3. /\ left \in Seq(Unit)
      /\ left = Tail(work.buf) \/ (Tail(work.buf) # <<>> /\ left = Tail(Tail(work.buf)))
      /\ m = 2 => left = Tail(work.buf)
  <2>1. work.buf \in Seq(Unit) /\ m \in {2, 3}
      BY DEF Feeding
  <2> HIDE DEF m
  <2> QED BY <1>1, <2>1, LeftIs
<1>4. m = 2 <=> rest
    OBVIOUS
<1> HIDE DEF whole, left, m
<1>5. cut' \in [Conns -> BOOLEAN] /\ (\A d \in Conns : cut[d] => cut'[d])
      /\ (~found /\ ~whole => cut'[c])
    BY <1>2
<1>6. CASE found
  <2>1. work' = WithBuf(work, left)
      BY <1>2, <1>6 DEF WithBuf
  <2>2. Works(work', c, left, work.code, work.bad)
      BY <1>3, <2>1, WorksIs, WorkerWith
  <2>3. Works(work', c, left, 0, FALSE)
      BY <1>1, <2>2 DEF Works
  <2>4. Onward
      BY <1>1, <1>3, <1>4, <2>3 DEF Onward
  <2> QED BY <1>1, <1>5, <2>4
<1>7. CASE ~found
  <2> DEFINE v == WithBuf(work, <<>>)
             w == WithCode(v, 404)
  <2>1. work' = WithBad(w)
      BY <1>2, <1>7 DEF WithBad, WithCode, WithBuf
  <2>2. Works(v, c, <<>>, work.code, work.bad)
      BY NoData, WorksIs, WorkerWith
  <2> HIDE DEF v
  <2>3. \A d \in Codes : Works(WithCode(v, d), c, <<>>, d, work.bad)
      BY <2>2, WorkerWith
  <2>4. Works(w, c, <<>>, 404, work.bad)
      BY <2>3, CodesAre
  <2> HIDE DEF w
  <2>5. Works(work', c, <<>>, 404, TRUE)
      BY <2>1, <2>4, WorkerWith
  <2>6. Refused
      BY <1>2, <1>5, <1>7, <2>5 DEF Refused
  <2> QED BY <1>1, <1>5, <2>6
<1> QED BY <1>6, <1>7

LEMMA RepliesWorks ==
    ASSUME work \in Feeding, Feeds("end"), Replies
    PROVE  Works(work', work.conn, Tail(work.buf), Code(Head(work.buf).kind), FALSE)
<1>1. work.buf \in Seq(Unit) /\ work.buf # <<>> /\ ~work.bad
    BY DEF Feeding, Feeds
<1>2. Tail(work.buf) \in Seq(Unit)
    BY <1>1, HeadTailProperties
<1> DEFINE b == Tail(work.buf)
           k == Code(Head(work.buf).kind)
<1>3. work' = WithCode(WithBuf(work, b), k)
    BY DEF Replies, WithCode, WithBuf
<1>4. k \in Codes
    BY CodeIs
<1> HIDE DEF b, k
<1>5. Works(WithBuf(work, b), work.conn, b, work.code, work.bad)
    BY <1>2, WorksIs, WorkerWith DEF b
<1>6. Works(work', work.conn, b, k, work.bad)
    BY <1>3, <1>4, <1>5, WorkerWith
<1> QED BY <1>1, <1>6 DEF Works, b, k

\* The worker turns to what a read brought.
LEMMA FeedWorks ==
    ASSUME HttpTypeOK, NEW c \in Conns, Feed(c)
    PROVE  Works(work', c, conn[c].data, 0, FALSE)
<1> DEFINE d == conn[c].data
<1>1. d \in Seq(Unit)
    BY Object DEF HttpTypeOK
<1>2. work' = WithBuf(WithConn(Idle, c), d)
    BY DEF Feed, WithBuf, WithConn
<1> HIDE DEF d
<1>3. Works(WithConn(Idle, c), c, <<>>, 0, FALSE)
    BY IdleWorks, CodesAre, WorkerWith
<1> QED BY <1>1, <1>2, <1>3, WorkerWith DEF d
-----------------------------------------------------------------------------
(* Types.                                                                  *)

Jobs == ({"start", "read"} \X Conns) \cup {<<"tick">>}

SentTyped ==
    /\ client \in [Conns -> {"away", "here", "fin", "reset"}]
    /\ asked \in [Conns -> Seq(Requests)]
    /\ unsent \in [Conns -> Seq(Unit)] /\ inbox \in [Conns -> Seq(Unit)]
ConnTyped == conn \in [Conns -> ConnSet]
ReadyTyped == ready \in Seq(Jobs)
WorkTyped == work \in Feeding
ToldTyped ==
    /\ answers \in [Conns -> Seq({200, 400, 404})] /\ unread \in [Conns -> 0 .. Room]
CutTyped == cut \in [Conns -> BOOLEAN]

AllTyped ==
    SentTyped /\ ConnTyped /\ Timed /\ ReadyTyped /\ WorkTyped /\ ToldTyped /\ CutTyped

\* The conjuncts of the type invariant.
LEMMA TypeParts ==
    ASSUME HttpTypeOK
    PROVE  SentTyped /\ ConnTyped /\ Timed /\ ReadyTyped /\ WorkTyped /\ ToldTyped /\ CutTyped
<1>1. SentTyped
    BY DEF HttpTypeOK, SentTyped
<1>2. ConnTyped /\ CutTyped
    BY DEF HttpTypeOK, ConnTyped, CutTyped
<1>3. Timed
    BY DEF HttpTypeOK, Timed
<1>4. ReadyTyped
    BY DEF HttpTypeOK, ReadyTyped, Jobs
<1>5. WorkTyped
    BY DEF HttpTypeOK, WorkTyped, Feeding, Whose, Codes
<1>6. ToldTyped
    BY DEF HttpTypeOK, ToldTyped
<1> QED BY <1>1, <1>2, <1>3, <1>4, <1>5, <1>6

LEMMA TypesThen ==
    AllTyped => HttpTypeOK
    BY DEF AllTyped, HttpTypeOK, SentTyped, ConnTyped, Timed, ReadyTyped, WorkTyped, ToldTyped,
           CutTyped, Jobs, Feeding, Codes, Whose

LEMMA TypesNext ==
    AllTyped' => HttpTypeOK'
    BY DEF AllTyped, HttpTypeOK, SentTyped, ConnTyped, Timed, ReadyTyped, WorkTyped, ToldTyped,
           CutTyped, Jobs, Feeding, Codes, Whose

LEMMA JobsAre ==
    /\ <<"tick">> \in Jobs
    /\ \A c \in Conns : <<"start", c>> \in Jobs /\ <<"read", c>> \in Jobs
    BY DEF Jobs

\* The worker has a connection whenever it has something to do.
Placed == (work.conn = 0 => work = Idle) /\ (work.code # 0 => work.conn # 0)

LEMMA PlacedIs ==
    ASSUME HttpTypeOK, Placed, work.code # 0 \/ work.buf # <<>> \/ work.conn # 0
    PROVE  work.conn \in Conns
<1>1. work.conn = 0 \/ work.conn \in Conns
    BY TypeParts DEF WorkTyped, Feeding, Whose
<1>2. Idle.buf = <<>> /\ Idle.code = 0
    BY DEF Idle
<1> QED BY <1>1, <1>2 DEF Placed

LEMMA UnitsTyped ==
    ASSUME NEW k \in Requests
    PROVE  Head(Units(k)) \in Unit /\ Tail(Units(k)) \in Seq(Unit) /\ Units(k)[1] \in Unit
<1> DEFINE p == [part |-> "path", kind |-> k]
           r == [part |-> "rest", kind |-> k]
           e == [part |-> "end", kind |-> k]
<1>1. p \in Unit /\ r \in Unit /\ e \in Unit
    BY DEF Unit
<1>2. Units(k)[1] = p /\ Head(Units(k)) = p /\ Tail(Units(k)) = <<r, e>>
    BY UnitsAre
<1> HIDE DEF p, r, e
<1>3. <<r, e>> \in Seq(Unit)
    BY <1>1
<1> QED BY <1>1, <1>2, <1>3

\* The types, at the start and after each step.
LEMMA TypeInit == HttpInit => HttpTypeOK
<1> SUFFICES ASSUME HttpInit PROVE HttpTypeOK
    OBVIOUS
<1>1. SentTyped
    BY EmptySeq DEF HttpInit, SentTyped
<1>2. ConnTyped
  <2>1. NoConn \in ConnSet
      BY NoData DEF NoConn, ConnSet
  <2> QED BY <2>1 DEF HttpInit, ConnTyped
<1>3. Timed
    BY DEF HttpInit, Timed
<1>4. ReadyTyped
    BY EmptySeq DEF HttpInit, ReadyTyped
<1>5. WorkTyped
    BY IdleWorks DEF HttpInit, WorkTyped, Works
<1>6. ToldTyped
    BY HttpConnectionsAssumption, EmptySeq DEF HttpInit, ToldTyped
<1>7. CutTyped
    BY DEF HttpInit, CutTyped
<1> QED BY <1>1, <1>2, <1>3, <1>4, <1>5, <1>6, <1>7, TypesThen DEF AllTyped

\* What a client and the kernel do.
LEMMA ClientTypes ==
    ASSUME HttpTypeOK, NEW c \in Conns,
           \/ Connect(c) \/ SendMore(c) \/ Leaves(c) \/ ReadsAnswer(c) \/ ReadCompletes(c)
           \/ \E k \in Requests : Begin(c, k)
    PROVE  HttpTypeOK'
<1> USE DEF clientVars, outVars
<1>0. SentTyped /\ ConnTyped /\ Timed /\ ReadyTyped /\ WorkTyped /\ ToldTyped /\ CutTyped
    BY TypeParts
<1>1. CASE Connect(c)
  <2>1. SentTyped' /\ ReadyTyped'
      BY <1>0, <1>1, JobsAre, AppendProperties DEF Connect, SentTyped, ReadyTyped
  <2>2. ConnTyped'
      BY <1>1, ConnectChanges DEF Changes, ConnTyped
  <2>3. Timed' /\ WorkTyped' /\ ToldTyped' /\ CutTyped'
      BY <1>0, <1>1 DEF Connect, Timed, WorkTyped, ToldTyped, CutTyped
  <2> QED BY <2>1, <2>2, <2>3, TypesNext DEF AllTyped
<1>2. CASE SendMore(c)
  <2>1. unsent[c] \in Seq(Unit) /\ unsent[c] # <<>> /\ inbox[c] \in Seq(Unit)
      BY <1>0, <1>2 DEF SendMore, SentTyped
  <2>2. Head(unsent[c]) \in Unit /\ Tail(unsent[c]) \in Seq(Unit)
      BY <2>1, HeadTailProperties
  <2>3. Append(inbox[c], Head(unsent[c])) \in Seq(Unit)
      BY <2>1, <2>2, AppendProperties
  <2>4. SentTyped'
      BY <1>0, <1>2, <2>2, <2>3 DEF SendMore, SentTyped
  <2>5. ConnTyped' /\ ReadyTyped' /\ Timed' /\ WorkTyped' /\ ToldTyped' /\ CutTyped'
      BY <1>0, <1>2 DEF SendMore, ConnTyped, ReadyTyped, Timed, WorkTyped, ToldTyped, CutTyped
  <2> QED BY <2>4, <2>5, TypesNext DEF AllTyped
<1>3. CASE Leaves(c)
  <2>1. SentTyped'
      BY <1>0, <1>3, NoData DEF Leaves, SentTyped
  <2>2. ConnTyped' /\ ReadyTyped' /\ Timed' /\ WorkTyped' /\ ToldTyped' /\ CutTyped'
      BY <1>0, <1>3 DEF Leaves, ConnTyped, ReadyTyped, Timed, WorkTyped, ToldTyped, CutTyped
  <2> QED BY <2>1, <2>2, TypesNext DEF AllTyped
<1>4. CASE ReadsAnswer(c)
  <2>1. ToldTyped'
      BY <1>0, <1>4, HttpConnectionsAssumption DEF ReadsAnswer, ToldTyped
  <2>2. SentTyped' /\ ConnTyped' /\ ReadyTyped' /\ Timed' /\ WorkTyped' /\ CutTyped'
      BY <1>0, <1>4 DEF ReadsAnswer, SentTyped, ConnTyped, ReadyTyped, Timed, WorkTyped, CutTyped
  <2> QED BY <2>1, <2>2, TypesNext DEF AllTyped
<1>5. CASE ReadCompletes(c)
  <2>1. SentTyped' /\ ReadyTyped'
      BY <1>0, <1>5, JobsAre, AppendProperties, NoData DEF ReadCompletes, SentTyped, ReadyTyped
  <2>2. ConnTyped'
      BY <1>5, ReadCompletesChanges DEF Changes, ConnTyped
  <2>3. Timed' /\ WorkTyped' /\ ToldTyped' /\ CutTyped'
      BY <1>0, <1>5 DEF ReadCompletes, Timed, WorkTyped, ToldTyped, CutTyped
  <2> QED BY <2>1, <2>2, <2>3, TypesNext DEF AllTyped
<1>6. ASSUME NEW k \in Requests, Begin(c, k) PROVE HttpTypeOK'
  <2>1. /\ asked' = [asked EXCEPT ![c] = Append(@, k)]
        /\ inbox' = [inbox EXCEPT ![c] = Append(@, Head(Units(k)))]
        /\ unsent' = [unsent EXCEPT ![c] = Tail(Units(k))]
        /\ UNCHANGED <<client, conn, tasks, highest, ready, work, answers, unread, cut, robbed>>
      BY <1>6, Zenon DEF Begin
  <2>2. Append(asked[c], k) \in Seq(Requests) /\ Append(inbox[c], Head(Units(k))) \in Seq(Unit)
      BY <1>0, UnitsTyped, AppendProperties DEF SentTyped
  <2>3. SentTyped'
      BY <1>0, <2>1, <2>2, UnitsTyped DEF SentTyped
  <2>4. ConnTyped' /\ ReadyTyped' /\ Timed' /\ WorkTyped' /\ ToldTyped' /\ CutTyped'
      BY <1>0, <2>1 DEF ConnTyped, ReadyTyped, Timed, WorkTyped, ToldTyped, CutTyped
  <2> QED BY <2>3, <2>4, TypesNext DEF AllTyped
<1> QED BY <1>1, <1>2, <1>3, <1>4, <1>5, <1>6
-----------------------------------------------------------------------------
LEMMA TailTyped ==
    ASSUME ReadyTyped, ready # <<>>
    PROVE  Tail(ready) \in Seq(Jobs)
    BY HeadTailProperties DEF ReadyTyped

\* The reads in flight that a tick ends, as it puts them into the io_context.
Ended(order) == [n \in DOMAIN order |-> <<"read", tasks[order[n]].conn>>]

LEMMA EndedIs ==
    ASSUME Timed, NEW S \in SUBSET DOMAIN tasks, NEW order \in InOrder(S)
    PROVE  /\ Ended(order) \in Seq(Jobs)
           /\ \A n \in 1 .. Len(Ended(order)) :
                 order[n] \in S /\ Ended(order)[n] = <<"read", tasks[order[n]].conn>>
           /\ \A m, n \in 1 .. Len(Ended(order)) : m < n => order[m] < order[n]
<1> DEFINE l == Cardinality(S)
           s == Ended(order)
<1>1. IsFiniteSet(S)
  <2> DEFINE T == 1 .. highest
  <2>1. S \in SUBSET T
      BY DEF Timed
  <2>2. 1 \in Int /\ highest \in Int
      BY DEF Timed
  <2>3. IsFiniteSet(T)
      BY ONLY <2>2, FS_Interval
  <2> HIDE DEF T
  <2> QED BY ONLY <2>1, <2>3, FS_Subset
<1>2. l \in Nat
    BY <1>1, FS_CardinalityType
<1>3. order \in [1 .. l -> S] /\ \A m, n \in 1 .. l : m < n => order[m] < order[n]
    BY DEF InOrder
<1> HIDE DEF l
<1>4. DOMAIN order = 1 .. l
    BY <1>3
<1>5. \A n \in 1 .. l : order[n] \in S /\ tasks[order[n]].conn \in Conns
  <2>1. \A i \in S : tasks[i].conn \in Conns
      BY DEF Timed
  <2> QED BY <1>3, <2>1
<1>6. s = [n \in 1 .. l |-> <<"read", tasks[order[n]].conn>>]
    BY <1>4 DEF Ended
<1> HIDE DEF s
<1>7. s \in [1 .. l -> Jobs] /\ \A n \in 1 .. l : s[n] = <<"read", tasks[order[n]].conn>>
    BY <1>5, <1>6, JobsAre
<1>8. s \in Seq(Jobs) /\ Len(s) = l
    BY <1>2, <1>7, SeqDef, LenProperties
<1> QED BY <1>3, <1>5, <1>7, <1>8 DEF s

LEMMA WorkerTypes ==
    ASSUME HttpTypeOK, Placed, NEW c \in Conns, StartConnection(c) \/ ReadDone(c)
    PROVE  HttpTypeOK'
<1> USE DEF clientVars, outVars
<1>0. SentTyped /\ ConnTyped /\ Timed /\ ReadyTyped /\ WorkTyped /\ ToldTyped /\ CutTyped
    BY TypeParts
<1>1. CASE StartConnection(c)
  <2>1. Reads(c) /\ ready # <<>> /\ ready' = Tail(ready)
        /\ UNCHANGED <<client, asked, unsent, inbox, work, answers, unread, cut>>
      BY <1>1 DEF StartConnection, Runs
  <2>2. ConnTyped'
      BY <2>1, ReadsChanges DEF Changes, ConnTyped
  <2>3. Timed'
      BY <1>0, <2>1, RestartsTimed DEF Reads
  <2>4. ReadyTyped'
      BY <1>0, <2>1, TailTyped DEF ReadyTyped
  <2>5. SentTyped' /\ WorkTyped' /\ ToldTyped' /\ CutTyped'
      BY <1>0, <2>1 DEF SentTyped, WorkTyped, ToldTyped, CutTyped
  <2> QED BY <2>2, <2>3, <2>4, <2>5, TypesNext DEF AllTyped
<1>2. CASE ReadDone(c)
  <2>1. /\ (Fails(c) /\ work' = work) \/ Feed(c)
        /\ ready # <<>> /\ ready' = Tail(ready)
        /\ UNCHANGED <<client, asked, unsent, inbox, answers, unread, cut>>
      BY <1>2 DEF ReadDone, Runs, Feed
  <2>2. ConnTyped'
      BY <2>1, FreedChanges, FeedChanges DEF Changes, ConnTyped, Fails
  <2>3. Timed'
    <3>1. CASE Fails(c)
        BY <1>0, <3>1, CancelsTimed DEF Fails
    <3>2. CASE Feed(c)
        BY <1>0, <3>2 DEF Feed, Timed
    <3> QED BY <2>1, <3>1, <3>2
  <2>4. ReadyTyped'
      BY <1>0, <2>1, TailTyped DEF ReadyTyped
  <2>5. WorkTyped'
      BY <1>0, <2>1, FeedWorks DEF Works, WorkTyped
  <2>6. SentTyped' /\ ToldTyped' /\ CutTyped'
      BY <1>0, <2>1 DEF SentTyped, ToldTyped, CutTyped
  <2> QED BY <2>2, <2>3, <2>4, <2>5, <2>6, TypesNext DEF AllTyped
<1> QED BY <1>1, <1>2

LEMMA TickTypes ==
    ASSUME HttpTypeOK, Tick \/ TimerExpires
    PROVE  HttpTypeOK'
<1> USE DEF clientVars, outVars
<1>0. SentTyped /\ ConnTyped /\ Timed /\ ReadyTyped /\ WorkTyped /\ ToldTyped /\ CutTyped
    BY TypeParts
<1>1. CASE TimerExpires
  <2>1. ReadyTyped'
      BY <1>0, <1>1, JobsAre, AppendProperties DEF TimerExpires, ReadyTyped
  <2>2. SentTyped' /\ ConnTyped' /\ Timed' /\ WorkTyped' /\ ToldTyped' /\ CutTyped'
      BY <1>0, <1>1 DEF TimerExpires, SentTyped, ConnTyped, Timed, WorkTyped, ToldTyped, CutTyped
  <2> QED BY <2>1, <2>2, TypesNext DEF AllTyped
<1>2. CASE Tick
  <2>1. PICK due \in SUBSET DOMAIN tasks :
            ProcessTasks(due, IF DOMAIN tasks = due THEN 0 ELSE highest)
      BY <1>2 DEF Tick
  <2>2. Timed'
      BY <1>0, <2>1, ProcessTimed
  <2>3. ready # <<>>
      BY <1>2 DEF Tick
  <2> DEFINE closed == {tasks[i].conn : i \in due}
             S == {i \in due : conn[tasks[i].conn].read = "waiting"}
  <2>4. conn' = [d \in Conns |-> IF d \notin closed THEN conn[d] ELSE ToClosed(conn[d])]
      BY <2>1 DEF ProcessTasks, ToClosed
  <2>5. PICK order \in InOrder(S) : ready' = Tail(ready) \o Ended(order)
      BY <2>1 DEF ProcessTasks, Ended
  <2>6. UNCHANGED <<client, asked, unsent, inbox, work, answers, unread, cut, robbed>>
      BY <2>1 DEF ProcessTasks
  <2>7. S \subseteq DOMAIN tasks
      OBVIOUS
  <2> HIDE DEF closed, S
  <2>8. ConnTyped'
    <3>1. \A d \in Conns : conn[d] \in ConnSet /\ ToClosed(conn[d]) \in ConnSet
        BY <1>0, ObjectTo DEF ConnTyped, Is
    <3> QED BY <2>4, <3>1 DEF ConnTyped
  <2>9. ReadyTyped'
    <3>1. Tail(ready) \in Seq(Jobs) /\ Ended(order) \in Seq(Jobs)
        BY <1>0, <2>3, <2>7, TailTyped, EndedIs
    <3>2. Tail(ready) \o Ended(order) \in Seq(Jobs)
        BY <3>1, ConcatProperties
    <3> QED BY <2>5, <3>2 DEF ReadyTyped
  <2>10. SentTyped' /\ WorkTyped' /\ ToldTyped' /\ CutTyped'
      BY <1>0, <2>6 DEF SentTyped, WorkTyped, ToldTyped, CutTyped
  <2> QED BY <2>2, <2>8, <2>9, <2>10, TypesNext DEF AllTyped
<1> QED BY <1>1, <1>2

LEMMA FeedTypes ==
    ASSUME HttpTypeOK, Placed, RouteUrl \/ HandleRequest \/ WriteAnswer \/ AfterFeed
    PROVE  HttpTypeOK'
<1> USE DEF clientVars, outVars
<1>0. SentTyped /\ ConnTyped /\ Timed /\ ReadyTyped /\ WorkTyped /\ ToldTyped /\ CutTyped
    BY TypeParts
<1> DEFINE c == work.conn
<1>1. c \in Conns
    BY PlacedIs DEF RouteUrl, HandleRequest, Feeds, WriteAnswer, AfterFeed
<1>2. CASE RouteUrl
  <2>1. WorkTyped' /\ CutTyped'
      BY <1>0, <1>1, <1>2, RouteWorks DEF WorkTyped, CutTyped, Works, Onward, Refused
  <2>2. SentTyped' /\ ConnTyped' /\ Timed' /\ ReadyTyped' /\ ToldTyped'
      BY <1>0, <1>2 DEF RouteUrl, SentTyped, ConnTyped, Timed, ReadyTyped, ToldTyped
  <2> QED BY <2>1, <2>2, TypesNext DEF AllTyped
<1>3. CASE HandleRequest
  <2>1. /\ Feeds("end") /\ Cancels(c) /\ highest' = highest
        /\ UNCHANGED <<client, asked, unsent, inbox, ready, answers, unread, cut>>
        /\ Drops \/ Upgrades \/ Replies
      BY <1>3, HandleCases
  <2>2. ConnTyped'
    <3>1. CASE Drops
        BY <1>1, <3>1, FreedChanges DEF Drops, Changes, ConnTyped
    <3>2. CASE Upgrades
        BY <1>1, <3>2, UpgradesChanges DEF Changes, ConnTyped
    <3>3. CASE Replies
        BY <1>1, <3>3, RepliesChanges DEF Changes, ConnTyped
    <3> QED BY <2>1, <3>1, <3>2, <3>3
  <2>3. Timed'
      BY <1>0, <1>1, <2>1, CancelsTimed
  <2>4. WorkTyped'
    <3>1. CASE Drops \/ Upgrades
        BY <3>1, IdleWorks DEF Drops, Upgrades, Works, WorkTyped
    <3>2. CASE Replies
        BY <1>0, <2>1, <3>2, RepliesWorks DEF Works, WorkTyped
    <3> QED BY <2>1, <3>1, <3>2
  <2>5. SentTyped' /\ ReadyTyped' /\ ToldTyped' /\ CutTyped'
      BY <1>0, <2>1 DEF SentTyped, ReadyTyped, ToldTyped, CutTyped
  <2> QED BY <2>2, <2>3, <2>4, <2>5, TypesNext DEF AllTyped
<1>4. CASE WriteAnswer
  <2> DEFINE lost == client[c] = "reset" \/ conn[c].state = "closed"
  <2>1. /\ answers' = [answers EXCEPT ![c] = IF lost THEN @ ELSE Append(@, work.code)]
        /\ unread' = [unread EXCEPT ![c] = IF lost THEN @ ELSE @ + 1]
        /\ work.code # 0
        /\ work' = WithCode(work, 0)
        /\ UNCHANGED <<client, asked, unsent, inbox, conn, tasks, highest, ready, cut, robbed>>
      BY <1>4 DEF WriteAnswer, WithCode
  <2>2. ~lost => unread[c] # Room
      BY <1>4 DEF WriteAnswer, Blocked
  <2> HIDE DEF lost
  <2>3. WorkTyped'
      BY <1>0, <2>1, WorksIs, WorkerWith, CodesAre DEF WorkTyped, Works
  <2>4. ToldTyped'
    <3>1. work.code \in {200, 400, 404}
        BY <1>0, <2>1 DEF WorkTyped, Feeding, Codes
    <3>2. answers[c] \in Seq({200, 400, 404}) /\ unread[c] \in 0 .. Room /\ Room \in Nat
        BY <1>0, <1>1, HttpConnectionsAssumption DEF ToldTyped
    <3>3. Append(answers[c], work.code) \in Seq({200, 400, 404})
        BY <3>1, <3>2, AppendProperties
    <3>4. ~lost => unread[c] + 1 \in 0 .. Room
        BY <2>2, <3>2
    <3>5. answers' \in [Conns -> Seq({200, 400, 404})]
        BY <1>0, <1>1, <2>1, <3>2, <3>3 DEF ToldTyped
    <3>6. unread' \in [Conns -> 0 .. Room]
        BY <1>0, <1>1, <2>1, <3>2, <3>4 DEF ToldTyped
    <3> QED BY <3>5, <3>6 DEF ToldTyped
  <2>5. SentTyped' /\ ConnTyped' /\ Timed' /\ ReadyTyped' /\ CutTyped'
      BY <1>0, <2>1 DEF SentTyped, ConnTyped, Timed, ReadyTyped, CutTyped
  <2> QED BY <2>3, <2>4, <2>5, TypesNext DEF AllTyped
<1>5. CASE AfterFeed
  <2>1. /\ Fails(c) \/ Reads(c)
        /\ work' = Idle
        /\ UNCHANGED <<client, asked, unsent, inbox, ready, answers, unread, cut>>
      BY <1>5 DEF AfterFeed
  <2>2. ConnTyped'
      BY <1>1, <2>1, FreedChanges, ReadsChanges DEF Changes, ConnTyped, Fails
  <2>3. Timed'
    <3>1. CASE Fails(c)
        BY <1>0, <1>1, <3>1, CancelsTimed DEF Fails
    <3>2. CASE Reads(c)
        BY <1>0, <1>1, <3>2, RestartsTimed DEF Reads
    <3> QED BY <2>1, <3>1, <3>2
  <2>4. WorkTyped'
      BY <2>1, IdleWorks DEF Works, WorkTyped
  <2>5. SentTyped' /\ ReadyTyped' /\ ToldTyped' /\ CutTyped'
      BY <1>0, <2>1 DEF SentTyped, ReadyTyped, ToldTyped, CutTyped
  <2> QED BY <2>2, <2>3, <2>4, <2>5, TypesNext DEF AllTyped
<1> QED BY <1>2, <1>3, <1>4, <1>5
-----------------------------------------------------------------------------
(* What each object, what is ready to run and the worker tell of each other. *)

Fits(cl, o, served) ==
    /\ o.read # "none" => o.state \in {"open", "closed"}
    /\ o.read = "waiting" => o.state = "open"
    /\ o.data # <<>> => o.read = "done"
    /\ served => o.read = "none" /\ o.state \in {"open", "closed"}
    /\ cl = "away" <=> o.state = "none"

SlotFits == \A d \in Conns : Fits(client[d], conn[d], work.conn = d)

SlotReady ==
    /\ Distinct(ready)
    /\ \A d \in Conns : /\ In(<<"start", d>>, ready) => conn[d].state = "posted"
                        /\ In(<<"read", d>>, ready) => conn[d].read = "done"

Slots == Placed /\ SlotFits /\ SlotReady

LEMMA SlotsInit == HttpInit => Slots
<1> SUFFICES ASSUME HttpInit PROVE Slots
    OBVIOUS
<1>1. Placed
    BY DEF HttpInit, Placed, Idle
<1>2. SlotFits
    BY DEF HttpInit, SlotFits, Fits, NoConn, Idle, Conns
<1>3. SlotReady
    BY DEF HttpInit, SlotReady, Distinct, In
<1> QED BY <1>1, <1>2, <1>3 DEF Slots

\* An object that changes where it may.
LEMMA FitsNext ==
    ASSUME HttpTypeOK, SlotFits, NEW c \in Conns, NEW st, NEW rd, NEW dt, NEW tk,
           Changes(c, st, rd, dt, tk), Fits(client'[c], conn'[c], work'.conn = c),
           \A d \in Conns : d # c => client'[d] = client[d] /\ (work'.conn = d => work.conn = d)
    PROVE  SlotFits'
<1> SUFFICES ASSUME NEW d \in Conns, d # c
             PROVE  Fits(client'[d], conn'[d], work'.conn = d)
    BY DEF SlotFits
<1>1. conn'[d] = conn[d] /\ client'[d] = client[d] /\ (work'.conn = d => work.conn = d)
    BY DEF Changes
<1>2. Fits(client[d], conn[d], work.conn = d)
    BY DEF SlotFits
<1> QED BY <1>1, <1>2 DEF Fits

\* What is ready, one taken off the front.
LEMMA ReadyTail ==
    ASSUME HttpTypeOK, SlotReady, NEW x, Runs(x), NEW c \in Conns, x \in {<<"start", c>>, <<"read", c>>},
           NEW st, NEW rd, NEW dt, NEW tk, Changes(c, st, rd, dt, tk),
           In(<<"start", c>>, Tail(ready)) => st = "posted",
           In(<<"read", c>>, Tail(ready)) => rd = "done"
    PROVE  SlotReady' /\ In(x, ready)
<1>1. ready \in Seq(Jobs) /\ ready # <<>> /\ ready' = Tail(ready) /\ Distinct(ready) /\ Head(ready) = x
    BY TypeParts DEF ReadyTyped, Runs, SlotReady
<1>2. Distinct(ready') /\ (\A y : In(y, ready') => In(y, ready) /\ y # x) /\ In(x, ready)
    BY <1>1, TailDistinct
<1>3. ASSUME NEW d \in Conns
      PROVE  /\ In(<<"start", d>>, ready') => conn'[d].state = "posted"
             /\ In(<<"read", d>>, ready') => conn'[d].read = "done"
  <2>1. CASE d = c
      BY <1>1, <2>1 DEF Changes, Is
  <2>2. CASE d # c
      BY <1>2, <2>2 DEF Changes, SlotReady
  <2> QED BY <2>1, <2>2
<1> QED BY <1>2, <1>3 DEF SlotReady

\* What is ready stays as it was, and so does what it says of a changed object.
LEMMA ReadySame ==
    ASSUME SlotReady, ready' = ready, NEW c \in Conns, NEW st, NEW rd, NEW dt, NEW tk,
           Changes(c, st, rd, dt, tk),
           In(<<"start", c>>, ready) => st = "posted", In(<<"read", c>>, ready) => rd = "done"
    PROVE  SlotReady'
<1>1. ASSUME NEW d \in Conns
      PROVE  /\ In(<<"start", d>>, ready') => conn'[d].state = "posted"
             /\ In(<<"read", d>>, ready') => conn'[d].read = "done"
  <2>1. CASE d = c
      BY <2>1 DEF Changes, Is
  <2>2. CASE d # c
      BY <2>2 DEF Changes, SlotReady
  <2> QED BY <2>1, <2>2
<1> QED BY <1>1 DEF SlotReady

\* One more is ready.
LEMMA ReadyMore ==
    ASSUME HttpTypeOK, SlotReady, NEW c \in Conns, NEW x \in {<<"start", c>>, <<"read", c>>}, ~In(x, ready),
           ready' = Append(ready, x), NEW st, NEW rd, NEW dt, NEW tk, Changes(c, st, rd, dt, tk),
           In(<<"start", c>>, ready) \/ x = <<"start", c>> => st = "posted",
           In(<<"read", c>>, ready) \/ x = <<"read", c>> => rd = "done"
    PROVE  SlotReady'
<1>1. ready \in Seq(Jobs) /\ Distinct(ready) /\ x \in Jobs
    BY TypeParts, JobsAre DEF ReadyTyped, SlotReady
<1>2. Distinct(ready') /\ (\A y : In(y, ready') => In(y, ready) \/ y = x)
    BY <1>1, AppendDistinct
<1>3. ASSUME NEW d \in Conns
      PROVE  /\ In(<<"start", d>>, ready') => conn'[d].state = "posted"
             /\ In(<<"read", d>>, ready') => conn'[d].read = "done"
  <2>1. CASE d = c
      BY <1>2, <2>1 DEF Changes, Is
  <2>2. CASE d # c
      BY <1>2, <2>2 DEF Changes, SlotReady
  <2> QED BY <2>1, <2>2
<1> QED BY <1>2, <1>3 DEF SlotReady
-----------------------------------------------------------------------------
LEMMA ClientSlots ==
    ASSUME HttpTypeOK, Slots, NEW c \in Conns,
           \/ Connect(c) \/ SendMore(c) \/ Leaves(c) \/ ReadsAnswer(c) \/ ReadCompletes(c)
           \/ \E k \in Requests : Begin(c, k)
    PROVE  Slots'
<1> USE DEF clientVars, outVars
<1>0. /\ SlotFits /\ SlotReady /\ Placed /\ Fits(client[c], conn[c], work.conn = c)
      /\ client \in [Conns -> {"away", "here", "fin", "reset"}]
    BY TypeParts DEF Slots, SlotFits, SentTyped
<1>1. CASE Connect(c)
  <2>1. /\ client[c] = "away" /\ client' = [client EXCEPT ![c] = "here"]
        /\ ready' = Append(ready, <<"start", c>>) /\ work' = work
      BY <1>1 DEF Connect
  <2>2. Changes(c, "posted", conn[c].read, conn[c].data, conn[c].task)
      BY <1>1, ConnectChanges
  <2>3. conn[c].state = "none"
      BY <1>0, <2>1 DEF Fits
  <2>4. SlotFits'
    <3>1. Fits(client'[c], conn'[c], work'.conn = c)
        BY <1>0, <2>1, <2>2, <2>3 DEF Fits, Changes, Is
    <3> QED BY <1>0, <2>1, <2>2, <3>1, FitsNext
  <2>5. SlotReady'
    <3>1. ~In(<<"start", c>>, ready) /\ (In(<<"read", c>>, ready) => conn[c].read = "done")
          /\ <<"read", c>> # <<"start", c>>
        BY <1>0, <2>3 DEF SlotReady
    <3> QED BY <1>0, <2>1, <2>2, <3>1, ReadyMore
  <2> QED BY <1>0, <2>1, <2>4, <2>5 DEF Slots, Placed
<1>2. CASE ReadCompletes(c)
  <2>1. /\ conn[c].read = "waiting" /\ client' = client
        /\ ready' = Append(ready, <<"read", c>>) /\ work' = work
      BY <1>2 DEF ReadCompletes
  <2>2. Changes(c, conn[c].state, "done", inbox[c], conn[c].task)
      BY <1>2, ReadCompletesChanges
  <2>3. conn[c].state = "open" /\ work.conn # c
      BY <1>0, <2>1 DEF Fits
  <2>4. SlotFits'
    <3>1. Fits(client'[c], conn'[c], work'.conn = c)
        BY <1>0, <2>1, <2>2, <2>3 DEF Fits, Changes, Is
    <3> QED BY <1>0, <2>1, <2>2, <3>1, FitsNext
  <2>5. SlotReady'
    <3>1. ~In(<<"read", c>>, ready) /\ ~In(<<"start", c>>, ready) /\ <<"read", c>> # <<"start", c>>
        BY <1>0, <2>1, <2>3 DEF SlotReady
    <3> QED BY <1>0, <2>1, <2>2, <3>1, ReadyMore
  <2> QED BY <1>0, <2>1, <2>4, <2>5 DEF Slots, Placed
<1>3. CASE Leaves(c)
  <2>1. /\ UNCHANGED <<conn, ready, work>>
        /\ client' = [client EXCEPT ![c] = "fin"] \/ client' = [client EXCEPT ![c] = "reset"]
        /\ Has(c)
      BY <1>3 DEF Leaves
  <2>2. ASSUME NEW d \in Conns
        PROVE  Fits(client'[d], conn'[d], work'.conn = d)
    <3>1. Fits(client[d], conn[d], work.conn = d)
        BY <1>0 DEF SlotFits
    <3>2. client'[d] = client[d] \/ (client'[d] # "away" /\ conn[d].state # "none")
        BY <1>0, <2>1 DEF Has
    <3> QED BY <2>1, <3>1, <3>2 DEF Fits
  <2> QED BY <1>0, <2>1, <2>2 DEF Slots, Placed, SlotFits, SlotReady
<1>4. CASE SendMore(c) \/ ReadsAnswer(c) \/ \E k \in Requests : Begin(c, k)
  <2>1. UNCHANGED <<client, conn, ready, work>>
    <3>1. CASE SendMore(c) \/ ReadsAnswer(c)
        BY <3>1 DEF SendMore, ReadsAnswer
    <3>2. ASSUME NEW k \in Requests, Begin(c, k) PROVE UNCHANGED <<client, conn, ready, work>>
        BY <3>2, Zenon DEF Begin
    <3> QED BY <1>4, <3>1, <3>2
  <2> QED BY <1>0, <2>1 DEF Slots, Placed, SlotFits, SlotReady
<1> QED BY <1>1, <1>2, <1>3, <1>4

LEMMA WorkerSlots ==
    ASSUME HttpTypeOK, Slots, NEW c \in Conns, StartConnection(c) \/ ReadDone(c)
    PROVE  Slots'
<1> USE DEF clientVars, outVars
<1>0. SlotFits /\ SlotReady /\ Placed /\ Fits(client[c], conn[c], work.conn = c)
      /\ c # 0 /\ Idle.conn = 0
    BY DEF Slots, SlotFits, Conns, Idle
<1>1. CASE StartConnection(c)
  <2>1. Runs(<<"start", c>>) /\ Reads(c) /\ client' = client /\ work' = work /\ work = Idle
      BY <1>1 DEF StartConnection, Runs
  <2>2. Changes(c, "open", "waiting", <<>>, highest + 1)
      BY <2>1, ReadsChanges
  <2>3. In(<<"start", c>>, ready) /\ ~In(<<"start", c>>, Tail(ready)) /\ ~In(<<"read", c>>, Tail(ready))
    <3>1. ready \in Seq(Jobs) /\ ready # <<>> /\ Distinct(ready) /\ Head(ready) = <<"start", c>>
        BY <1>0, <2>1, TypeParts DEF ReadyTyped, Runs, SlotReady
    <3>2. /\ In(<<"start", c>>, ready) /\ ~In(<<"start", c>>, Tail(ready))
          /\ In(<<"read", c>>, Tail(ready)) => In(<<"read", c>>, ready)
        BY <3>1, TailDistinct
    <3> QED BY <1>0, <3>2 DEF SlotReady, Fits
  <2>4. conn[c].state = "posted"
      BY <1>0, <2>3 DEF SlotReady
  <2>5. SlotFits'
    <3>1. Fits(client'[c], conn'[c], work'.conn = c)
        BY <1>0, <2>1, <2>2, <2>4 DEF Fits, Changes, Is
    <3> QED BY <1>0, <2>1, <2>2, <3>1, FitsNext
  <2>6. SlotReady'
      BY <1>0, <2>1, <2>2, <2>3, ReadyTail
  <2> QED BY <1>0, <2>1, <2>5, <2>6 DEF Slots, Placed
<1>2. CASE ReadDone(c)
  <2>1. /\ Runs(<<"read", c>>) /\ client' = client /\ work = Idle
        /\ (Fails(c) /\ work' = work) \/ Feed(c)
      BY <1>2 DEF ReadDone, Runs, Feed
  <2>2. In(<<"read", c>>, ready) /\ ~In(<<"start", c>>, Tail(ready)) /\ ~In(<<"read", c>>, Tail(ready))
    <3>1. ready \in Seq(Jobs) /\ ready # <<>> /\ Distinct(ready) /\ Head(ready) = <<"read", c>>
        BY <1>0, <2>1, TypeParts DEF ReadyTyped, Runs, SlotReady
    <3>2. /\ In(<<"read", c>>, ready) /\ ~In(<<"read", c>>, Tail(ready))
          /\ In(<<"start", c>>, Tail(ready)) => In(<<"start", c>>, ready)
        BY <3>1, TailDistinct
    <3> QED BY <1>0, <3>2 DEF SlotReady, Fits
  <2>3. conn[c].read = "done" /\ conn[c].state \in {"open", "closed"}
      BY <1>0, <2>2 DEF SlotReady, Fits
  <2>4. CASE Fails(c) /\ work' = work
    <3>1. Changes(c, "gone", "none", <<>>, 0)
        BY <2>4, FreedChanges DEF Fails
    <3>2. Fits(client'[c], conn'[c], work'.conn = c)
        BY <1>0, <2>1, <2>3, <2>4, <3>1 DEF Fits, Changes, Is
    <3>3. SlotFits'
        BY <1>0, <2>1, <2>4, <3>1, <3>2, FitsNext
    <3>4. SlotReady'
        BY <1>0, <2>1, <2>2, <3>1, ReadyTail
    <3> QED BY <1>0, <2>4, <3>3, <3>4 DEF Slots, Placed
  <2>5. CASE Feed(c)
    <3>1. Changes(c, conn[c].state, "none", <<>>, conn[c].task)
        BY <2>5, FeedChanges
    <3>2. work'.conn = c
        BY <2>5, FeedWorks DEF Works
    <3>3. Fits(client'[c], conn'[c], work'.conn = c)
        BY <1>0, <2>1, <2>3, <3>1, <3>2 DEF Fits, Changes, Is
    <3>4. SlotFits'
        BY <1>0, <2>1, <3>1, <3>2, <3>3, FitsNext
    <3>5. SlotReady'
        BY <1>0, <2>1, <2>2, <3>1, ReadyTail
    <3> QED BY <1>0, <3>2, <3>4, <3>5 DEF Slots, Placed
  <2> QED BY <2>1, <2>4, <2>5
<1> QED BY <1>1, <1>2

LEMMA FeedSlots ==
    ASSUME HttpTypeOK, Slots, RouteUrl \/ HandleRequest \/ WriteAnswer \/ AfterFeed
    PROVE  Slots'
<1> USE DEF clientVars, outVars
<1> DEFINE c == work.conn
<1>0. c \in Conns /\ c # 0 /\ SlotFits /\ SlotReady /\ Placed /\ Fits(client[c], conn[c], TRUE)
      /\ work \in Feeding /\ Idle.conn = 0
  <2>1. c \in Conns
      BY PlacedIs DEF RouteUrl, HandleRequest, Feeds, WriteAnswer, AfterFeed, Slots
  <2>2. work \in Feeding
      BY TypeParts DEF WorkTyped
  <2>3. Fits(client[c], conn[c], work.conn = c)
      BY <2>1 DEF Slots, SlotFits
  <2>4. Fits(client[c], conn[c], TRUE)
      BY <2>3 DEF Fits
  <2>5. c # 0 /\ Idle.conn = 0
      BY <2>1 DEF Conns, Idle
  <2> QED BY <2>1, <2>2, <2>4, <2>5 DEF Slots
<1>1. /\ conn[c].read = "none" /\ conn[c].state \in {"open", "closed"} /\ client[c] # "away"
      /\ conn[c].data = <<>> /\ ~In(<<"start", c>>, ready) /\ ~In(<<"read", c>>, ready)
    BY <1>0 DEF Fits, SlotReady
<1>2. CASE RouteUrl
  <2>1. UNCHANGED <<client, conn, ready>>
      BY <1>2 DEF RouteUrl
  <2>2. work'.conn = c
      BY <1>0, <1>2, TypeParts, RouteWorks DEF Works, CutTyped, Onward, Refused
  <2> QED BY <1>0, <2>1, <2>2 DEF Slots, Placed, SlotFits, SlotReady
<1>3. CASE HandleRequest
  <2>1. Feeds("end") /\ UNCHANGED <<client, ready>> /\ (Drops \/ Upgrades \/ Replies)
      BY <1>3, HandleCases
  <2>2. CASE Drops
    <3>1. Changes(c, "gone", "none", <<>>, 0) /\ work' = Idle
        BY <1>0, <2>2, FreedChanges DEF Drops
    <3>2. Fits(client'[c], conn'[c], work'.conn = c)
        BY <1>0, <1>1, <2>1, <3>1 DEF Fits, Changes, Is
    <3>3. SlotFits'
        BY <1>0, <2>1, <3>1, <3>2, FitsNext DEF Conns
    <3>4. SlotReady'
        BY <1>0, <1>1, <2>1, <3>1, ReadySame
    <3> QED BY <3>1, <3>3, <3>4 DEF Slots, Placed, Idle
  <2>3. CASE Upgrades
    <3>1. Changes(c, "upgraded", "none", <<>>, 0) /\ work' = Idle
        BY <1>0, <2>3, UpgradesChanges DEF Upgrades
    <3>2. Fits(client'[c], conn'[c], work'.conn = c)
        BY <1>0, <1>1, <2>1, <3>1 DEF Fits, Changes, Is
    <3>3. SlotFits'
        BY <1>0, <2>1, <3>1, <3>2, FitsNext DEF Conns
    <3>4. SlotReady'
        BY <1>0, <1>1, <2>1, <3>1, ReadySame
    <3> QED BY <3>1, <3>3, <3>4 DEF Slots, Placed, Idle
  <2>4. CASE Replies
    <3>1. Changes(c, conn[c].state, conn[c].read, conn[c].data, conn[c].task)
        BY <1>0, <2>4, RepliesChanges
    <3>2. work'.conn = c
        BY <1>0, <2>1, <2>4, RepliesWorks DEF Works
    <3>3. Fits(client'[c], conn'[c], work'.conn = c)
        BY <1>0, <1>1, <2>1, <3>1, <3>2 DEF Fits, Changes, Is
    <3>4. SlotFits'
        BY <1>0, <2>1, <3>1, <3>2, <3>3, FitsNext
    <3>5. SlotReady'
        BY <1>0, <1>1, <2>1, <3>1, ReadySame
    <3> QED BY <1>0, <3>2, <3>4, <3>5 DEF Slots, Placed
  <2> QED BY <2>1, <2>2, <2>3, <2>4
<1>4. CASE WriteAnswer
  <2>1. UNCHANGED <<client, conn, ready>> /\ work' = WithCode(work, 0)
      BY <1>4 DEF WriteAnswer, WithCode
  <2>2. work'.conn = c
    <3>1. Works(work, c, work.buf, work.code, work.bad)
        BY <1>0, WorksIs
    <3>2. \A d \in Codes : Works(WithCode(work, d), c, work.buf, d, work.bad)
        BY <3>1, WorkerWith
    <3> QED BY <2>1, <3>2, CodesAre DEF Works
  <2> QED BY <1>0, <2>1, <2>2 DEF Slots, Placed, SlotFits, SlotReady
<1>5. CASE AfterFeed
  <2>1. Fails(c) \/ Reads(c)
      BY <1>5 DEF AfterFeed
  <2>2. UNCHANGED <<client, ready>> /\ work' = Idle
      BY <1>5 DEF AfterFeed
  <2>3. CASE Fails(c)
    <3>1. Changes(c, "gone", "none", <<>>, 0)
        BY <1>0, <2>3, FreedChanges DEF Fails
    <3>2. Fits(client'[c], conn'[c], work'.conn = c)
        BY <1>0, <1>1, <2>2, <3>1 DEF Fits, Changes, Is
    <3>3. SlotFits'
        BY <1>0, <2>2, <3>1, <3>2, FitsNext DEF Conns
    <3>4. SlotReady'
        BY <1>0, <1>1, <2>2, <3>1, ReadySame
    <3> QED BY <2>2, <3>3, <3>4 DEF Slots, Placed, Idle
  <2>4. CASE Reads(c)
    <3>1. Changes(c, "open", "waiting", <<>>, highest + 1)
        BY <1>0, <2>4, ReadsChanges
    <3>2. Fits(client'[c], conn'[c], work'.conn = c)
        BY <1>0, <1>1, <2>2, <3>1 DEF Fits, Changes, Is
    <3>3. SlotFits'
        BY <1>0, <2>2, <3>1, <3>2, FitsNext DEF Conns
    <3>4. SlotReady'
        BY <1>0, <1>1, <2>2, <3>1, ReadySame
    <3> QED BY <2>2, <3>3, <3>4 DEF Slots, Placed, Idle
  <2> QED BY <2>1, <2>3, <2>4
<1> QED BY <1>2, <1>3, <1>4, <1>5
-----------------------------------------------------------------------------
(* Deadlines.                                                              *)

Guard(d) ==
    conn[d].read = "waiting" /\ ~robbed[d] =>
        conn[d].task \in DOMAIN tasks /\ tasks[conn[d].task].conn = d
Owner(d, i) ==
    tasks[i].conn = d =>
        i = conn[d].task /\ conn[d].state = "open" /\ (work.conn = d => work.code \in {0, 404})

Guards == \A d \in Conns : Guard(d) /\ \A i \in DOMAIN tasks : Owner(d, i)

LEMMA GuardsThen == Guards => GuardedOrRobbed
    BY DEF GuardedOrRobbed, Guards, Guard, Owner

\* The worker serves no other connection than before, and c none of whose answers waits.
ServesSame(c) ==
    \A d \in Conns : d # c /\ work'.conn = d => work.conn = d /\ work'.code = work.code

\* A deadline is cancelled.
LEMMA GuardsErase ==
    ASSUME Timed, Guards, NEW c \in Conns, Cancels(c), ServesSame(c),
           NEW st, NEW rd, NEW dt, NEW tk, Changes(c, st, rd, dt, tk), rd # "waiting"
    PROVE  Guards'
<1>1. /\ DOMAIN tasks' = DOMAIN tasks \ {conn[c].task}
      /\ \A i \in DOMAIN tasks' : tasks'[i] = tasks[i]
      /\ \A d \in Conns : robbed'[d] <=>
           robbed[d] \/ (d # c /\ conn[c].task \in DOMAIN tasks /\ tasks[conn[c].task].conn = d)
    BY CancelsIs
<1> SUFFICES ASSUME NEW d \in Conns
             PROVE  Guard(d)' /\ \A i \in DOMAIN tasks' : Owner(d, i)'
    BY DEF Guards
<1>2. Guard(d) /\ \A i \in DOMAIN tasks : Owner(d, i)
    BY DEF Guards
<1>3. CASE d = c
  <2>1. conn'[c].read # "waiting"
      BY DEF Changes, Is
  <2>2. \A i \in DOMAIN tasks' : tasks'[i].conn # c
      BY <1>1, <1>2, <1>3 DEF Owner
  <2> QED BY <1>3, <2>1, <2>2 DEF Guard, Owner
<1>4. CASE d # c
  <2>1. conn'[d] = conn[d] /\ (work'.conn = d => work.conn = d /\ work'.code = work.code)
      BY <1>4 DEF Changes, ServesSame
  <2>2. Guard(d)'
      BY <1>1, <1>2, <1>4, <2>1 DEF Guard
  <2>3. ASSUME NEW i \in DOMAIN tasks'
        PROVE  Owner(d, i)'
      BY <1>1, <1>2, <2>1 DEF Owner
  <2> QED BY <2>2, <2>3
<1> QED BY <1>3, <1>4

\* A deadline is set, and the one before cancelled.
LEMMA GuardsRestart ==
    ASSUME Timed, Guards, NEW c \in Conns, Restarts(c), ServesSame(c), work'.conn # c,
           Changes(c, "open", "waiting", <<>>, highest + 1)
    PROVE  Guards'
<1> DEFINE id == highest + 1
<1>1. /\ id \notin DOMAIN tasks
      /\ DOMAIN tasks' = (DOMAIN tasks \ {conn[c].task}) \cup {id}
      /\ tasks'[id] = [conn |-> c, left |-> Timeout]
      /\ \A i \in DOMAIN tasks \ {conn[c].task} : tasks'[i] = tasks[i]
      /\ \A d \in Conns : robbed'[d] <=>
           /\ d # c
           /\ robbed[d] \/ (conn[c].task \in DOMAIN tasks /\ tasks[conn[c].task].conn = d)
    BY RestartsIs
<1>2. conn'[c].state = "open" /\ conn'[c].task = id
    BY DEF Changes, Is
<1> HIDE DEF id
<1> SUFFICES ASSUME NEW d \in Conns
             PROVE  Guard(d)' /\ \A i \in DOMAIN tasks' : Owner(d, i)'
    BY DEF Guards
<1>3. Guard(d) /\ \A i \in DOMAIN tasks : Owner(d, i)
    BY DEF Guards
<1>4. tasks'[id].conn = c
    BY <1>1
<1>5. CASE d = c
  <2>1. \A i \in DOMAIN tasks' : i # id => tasks'[i].conn # c
      BY <1>1, <1>3, <1>5 DEF Owner
  <2> QED BY <1>1, <1>2, <1>4, <1>5, <2>1 DEF Guard, Owner
<1>6. CASE d # c
  <2>1. conn'[d] = conn[d] /\ (work'.conn = d => work.conn = d /\ work'.code = work.code)
      BY <1>6 DEF Changes, ServesSame
  <2>2. Guard(d)'
      BY <1>1, <1>3, <1>6, <2>1 DEF Guard
  <2>3. ASSUME NEW i \in DOMAIN tasks'
        PROVE  Owner(d, i)'
    <3>1. CASE i = id
        BY <1>4, <1>6, <3>1 DEF Owner
    <3>2. CASE i # id
      <4>1. i \in DOMAIN tasks /\ tasks'[i] = tasks[i]
          BY <1>1, <3>2
      <4> QED BY <1>3, <2>1, <4>1 DEF Owner
    <3> QED BY <3>1, <3>2
  <2> QED BY <2>2, <2>3
<1> QED BY <1>5, <1>6

\* One connection changes, and no deadline.
LEMMA GuardsSame ==
    ASSUME Guards, tasks' = tasks, robbed' = robbed, NEW c \in Conns, ServesSame(c),
           NEW st, NEW rd, NEW dt, NEW tk, Changes(c, st, rd, dt, tk), tk = conn[c].task,
           rd = "waiting" => conn[c].read = "waiting",
           conn[c].state = "open" => st = "open",
           work'.conn = c => work'.code \in {0, 404}
    PROVE  Guards'
<1> SUFFICES ASSUME NEW d \in Conns
             PROVE  Guard(d)' /\ \A i \in DOMAIN tasks' : Owner(d, i)'
    BY DEF Guards
<1>1. Guard(d) /\ \A i \in DOMAIN tasks : Owner(d, i)
    BY DEF Guards
<1>2. CASE d = c
  <2>1. conn'[c].read = rd /\ conn'[c].task = conn[c].task /\ conn'[c].state = st
      BY DEF Changes, Is
  <2>2. Guard(d)'
      BY <1>1, <1>2, <2>1 DEF Guard
  <2>3. ASSUME NEW i \in DOMAIN tasks'
        PROVE  Owner(d, i)'
      BY <1>1, <1>2, <2>1 DEF Owner
  <2> QED BY <2>2, <2>3
<1>3. CASE d # c
  <2>1. conn'[d] = conn[d] /\ (work'.conn = d => work.conn = d /\ work'.code = work.code)
      BY <1>3 DEF Changes, ServesSame
  <2>2. Guard(d)'
      BY <1>1, <2>1 DEF Guard
  <2>3. ASSUME NEW i \in DOMAIN tasks'
        PROVE  Owner(d, i)'
      BY <1>1, <2>1 DEF Owner
  <2> QED BY <2>2, <2>3
<1> QED BY <1>2, <1>3

\* The worker goes on, and no deadline changes.
LEMMA GuardsStill ==
    ASSUME Guards, tasks' = tasks, robbed' = robbed, conn' = conn,
           \A d \in Conns : work'.conn = d =>
               work'.code \in {0, 404} \/ (work'.code = work.code /\ work.conn = d)
    PROVE  Guards'
<1> SUFFICES ASSUME NEW d \in Conns
             PROVE  Guard(d)' /\ \A i \in DOMAIN tasks' : Owner(d, i)'
    BY DEF Guards
<1>1. Guard(d) /\ \A i \in DOMAIN tasks : Owner(d, i)
    BY DEF Guards
<1>2. Guard(d)'
    BY <1>1 DEF Guard
<1>3. ASSUME NEW i \in DOMAIN tasks'
      PROVE  Owner(d, i)'
    BY <1>1 DEF Owner
<1> QED BY <1>2, <1>3
-----------------------------------------------------------------------------
LEMMA ClientGuards ==
    ASSUME HttpTypeOK, Slots, Guards, NEW c \in Conns,
           \/ Connect(c) \/ SendMore(c) \/ Leaves(c) \/ ReadsAnswer(c) \/ ReadCompletes(c)
           \/ \E k \in Requests : Begin(c, k)
    PROVE  Guards'
<1> USE DEF clientVars, outVars
<1>0. Fits(client[c], conn[c], work.conn = c)
    BY DEF Slots, SlotFits
<1>1. CASE Connect(c)
  <2>1. client[c] = "away" /\ UNCHANGED <<tasks, robbed, work>>
      BY <1>1 DEF Connect
  <2>2. Changes(c, "posted", conn[c].read, conn[c].data, conn[c].task)
      BY <1>1, ConnectChanges
  <2>3. conn[c].state = "none" /\ work.conn # c
      BY <1>0, <2>1 DEF Fits
  <2> QED BY <2>1, <2>2, <2>3, GuardsSame DEF ServesSame
<1>2. CASE ReadCompletes(c)
  <2>1. conn[c].read = "waiting" /\ UNCHANGED <<tasks, robbed, work>>
      BY <1>2 DEF ReadCompletes
  <2>2. Changes(c, conn[c].state, "done", inbox[c], conn[c].task)
      BY <1>2, ReadCompletesChanges
  <2>3. work.conn # c
      BY <1>0, <2>1 DEF Fits
  <2> QED BY <2>1, <2>2, <2>3, GuardsSame DEF ServesSame
<1>3. CASE Leaves(c) \/ SendMore(c) \/ ReadsAnswer(c) \/ \E k \in Requests : Begin(c, k)
  <2>1. UNCHANGED <<conn, tasks, robbed, work>>
    <3>1. CASE Leaves(c) \/ SendMore(c) \/ ReadsAnswer(c)
        BY <3>1 DEF Leaves, SendMore, ReadsAnswer
    <3>2. ASSUME NEW k \in Requests, Begin(c, k) PROVE UNCHANGED <<conn, tasks, robbed, work>>
        BY <3>2, Zenon DEF Begin
    <3> QED BY <1>3, <3>1, <3>2
  <2> QED BY <2>1, GuardsStill
<1> QED BY <1>1, <1>2, <1>3

LEMMA WorkerGuards ==
    ASSUME HttpTypeOK, Slots, Guards, NEW c \in Conns, StartConnection(c) \/ ReadDone(c)
    PROVE  Guards'
<1> USE DEF clientVars, outVars
<1>0. Timed /\ \A d \in Conns : d # 0
    BY TypeParts DEF Conns
<1>1. CASE StartConnection(c)
  <2>1. Reads(c) /\ Restarts(c) /\ work' = work /\ work.conn = 0
      BY <1>1 DEF StartConnection, Runs, Reads, Idle
  <2>2. Changes(c, "open", "waiting", <<>>, highest + 1)
      BY <2>1, ReadsChanges
  <2>3. ServesSame(c) /\ work'.conn # c
      BY <1>0, <2>1 DEF ServesSame
  <2> QED BY <1>0, <2>1, <2>2, <2>3, GuardsRestart
<1>2. CASE ReadDone(c)
  <2>1. (Fails(c) /\ work' = work) \/ Feed(c)
      BY <1>2 DEF ReadDone, Feed
  <2>2. CASE Fails(c) /\ work' = work
    <3>1. Changes(c, "gone", "none", <<>>, 0) /\ Cancels(c)
        BY <2>2, FreedChanges DEF Fails
    <3>2. ServesSame(c)
        BY <2>2 DEF ServesSame
    <3> QED BY <1>0, <3>1, <3>2, GuardsErase
  <2>3. CASE Feed(c)
    <3>1. Changes(c, conn[c].state, "none", <<>>, conn[c].task)
        BY <2>3, FeedChanges
    <3>2. work'.conn = c /\ work'.code = 0 /\ tasks' = tasks /\ robbed' = robbed
        BY <2>3, FeedWorks DEF Works, Feed
    <3>3. ServesSame(c)
        BY <3>2 DEF ServesSame
    <3>4. tasks' = tasks /\ robbed' = robbed /\ (work'.conn = c => work'.code \in {0, 404})
        BY <3>2
    <3> DEFINE st == conn[c].state
               tk == conn[c].task
               rd == "none"
               dt == <<>>
    <3>5. /\ Changes(c, st, rd, dt, tk) /\ tk = conn[c].task
          /\ conn[c].state = "open" => st = "open"
          /\ rd = "waiting" => conn[c].read = "waiting"
        BY <3>1
    <3> HIDE DEF st, tk, rd, dt
    <3> QED BY <3>3, <3>4, <3>5, GuardsSame
  <2> QED BY <2>1, <2>2, <2>3
<1> QED BY <1>1, <1>2

LEMMA FeedGuards ==
    ASSUME HttpTypeOK, Slots, Guards, RouteUrl \/ HandleRequest \/ WriteAnswer \/ AfterFeed
    PROVE  Guards'
<1> USE DEF clientVars, outVars
<1> DEFINE c == work.conn
<1>0. c \in Conns /\ Timed /\ work \in Feeding /\ Idle.conn = 0 /\ \A d \in Conns : d # 0
  <2>1. c \in Conns
      BY PlacedIs DEF RouteUrl, HandleRequest, Feeds, WriteAnswer, AfterFeed, Slots
  <2> QED BY <2>1, TypeParts DEF WorkTyped, Conns, Idle
<1>1. work' = Idle => ServesSame(c) /\ work'.conn # c
    BY <1>0 DEF ServesSame
<1>2. CASE RouteUrl
  <2>1. UNCHANGED <<tasks, robbed, conn>>
      BY <1>2 DEF RouteUrl
  <2>2. work'.conn = c /\ work'.code \in {0, 404}
      BY <1>0, <1>2, TypeParts, RouteWorks DEF Works, CutTyped, Onward, Refused
  <2> QED BY <2>1, <2>2, GuardsStill
<1>3. CASE HandleRequest
  <2>1. Feeds("end") /\ Cancels(c) /\ (Drops \/ Upgrades \/ Replies)
      BY <1>3, HandleCases
  <2>2. CASE Drops
    <3>1. Changes(c, "gone", "none", <<>>, 0) /\ ServesSame(c)
        BY <1>0, <1>1, <2>2, FreedChanges DEF Drops
    <3> QED BY <1>0, <2>1, <3>1, GuardsErase
  <2>3. CASE Upgrades
    <3>1. Changes(c, "upgraded", "none", <<>>, 0) /\ ServesSame(c)
        BY <1>0, <1>1, <2>3, UpgradesChanges DEF Upgrades
    <3> QED BY <1>0, <2>1, <3>1, GuardsErase
  <2>4. CASE Replies
    <3>1. Changes(c, conn[c].state, conn[c].read, conn[c].data, conn[c].task)
        BY <1>0, <2>4, RepliesChanges
    <3>2. work'.conn = c
        BY <1>0, <2>1, <2>4, RepliesWorks DEF Works
    <3>3. conn[c].read = "none"
        BY <1>0 DEF Slots, SlotFits, Fits
    <3> QED BY <1>0, <2>1, <3>1, <3>2, <3>3, GuardsErase DEF ServesSame
  <2> QED BY <2>1, <2>2, <2>3, <2>4
<1>4. CASE WriteAnswer
  <2>1. UNCHANGED <<tasks, robbed, conn>> /\ work' = WithCode(work, 0)
      BY <1>4 DEF WriteAnswer, WithCode
  <2>2. work'.code = 0
    <3>1. Works(work, c, work.buf, work.code, work.bad)
        BY <1>0, WorksIs
    <3>2. \A d \in Codes : Works(WithCode(work, d), c, work.buf, d, work.bad)
        BY <3>1, WorkerWith
    <3> QED BY <2>1, <3>2, CodesAre DEF Works
  <2> QED BY <2>1, <2>2, GuardsStill
<1>5. CASE AfterFeed
  <2>1. (Fails(c) \/ Reads(c)) /\ ServesSame(c) /\ work'.conn # c
      BY <1>1, <1>5 DEF AfterFeed
  <2>2. CASE Fails(c)
    <3>1. Changes(c, "gone", "none", <<>>, 0) /\ Cancels(c)
        BY <1>0, <2>2, FreedChanges DEF Fails
    <3> QED BY <1>0, <2>1, <3>1, GuardsErase
  <2>3. CASE Reads(c)
    <3>1. Changes(c, "open", "waiting", <<>>, highest + 1) /\ Restarts(c)
        BY <1>0, <2>3, ReadsChanges DEF Reads
    <3> QED BY <1>0, <2>1, <3>1, GuardsRestart
  <2> QED BY <2>1, <2>2, <2>3
<1> QED BY <1>2, <1>3, <1>4, <1>5

\* A task that is due closes a connection that is open, and ends its read if it waits.
LEMMA TickSlots ==
    ASSUME HttpTypeOK, Slots, Guards, Tick \/ TimerExpires
    PROVE  Slots' /\ Guards'
<1> USE DEF clientVars, outVars
<1>0. Timed /\ ready \in Seq(Jobs) /\ SlotFits /\ SlotReady /\ Placed /\ conn \in [Conns -> ConnSet]
      /\ \A d \in Conns : d # 0
    BY TypeParts DEF ReadyTyped, ConnTyped, Slots, Conns
<1>1. CASE TimerExpires
  <2>1. /\ ~In(<<"tick">>, ready) /\ ready' = Append(ready, <<"tick">>)
        /\ UNCHANGED <<client, conn, tasks, robbed, work>>
      BY <1>1 DEF TimerExpires, In, Contains
  <2>2. Distinct(ready')
      BY <1>0, <2>1, AppendDistinct, JobsAre DEF SlotReady
  <2>3. \A x : In(x, ready') => In(x, ready) \/ x = <<"tick">>
      BY <1>0, <2>1, AppendDistinct, JobsAre DEF SlotReady
  <2>4. \A d : <<"start", d>> # <<"tick">> /\ <<"read", d>> # <<"tick">>
      OBVIOUS
  <2>5. SlotReady'
      BY <1>0, <2>1, <2>2, <2>3, <2>4 DEF SlotReady
  <2>6. Placed' /\ SlotFits'
      BY <1>0, <2>1 DEF Placed, SlotFits
  <2> QED BY <2>1, <2>5, <2>6, GuardsStill DEF Slots
<1>2. CASE Tick
  <2>1. PICK due \in SUBSET DOMAIN tasks :
            ProcessTasks(due, IF DOMAIN tasks = due THEN 0 ELSE highest)
      BY <1>2 DEF Tick
  <2>2. /\ DOMAIN tasks' = DOMAIN tasks \ due /\ robbed' = robbed
        /\ \A i \in DOMAIN tasks' : tasks'[i].conn = tasks[i].conn
      BY <1>0, <2>1, ProcessTimed
  <2>3. ready # <<>> /\ Head(ready) = <<"tick">> /\ work.conn = 0
      BY <1>2 DEF Tick, Idle
  <2> DEFINE closed == {tasks[i].conn : i \in due}
             S == {i \in due : conn[tasks[i].conn].read = "waiting"}
  <2>4. conn' = [d \in Conns |-> IF d \notin closed THEN conn[d] ELSE ToClosed(conn[d])]
      BY <2>1 DEF ProcessTasks, ToClosed
  <2>5. PICK order \in InOrder(S) : ready' = Tail(ready) \o Ended(order)
      BY <2>1 DEF ProcessTasks, Ended
  <2>6. UNCHANGED <<client, work>>
      BY <2>1 DEF ProcessTasks
  <2>7. /\ S \in SUBSET DOMAIN tasks
        /\ \A i \in S : conn[tasks[i].conn].read = "waiting" /\ tasks[i].conn \in closed
        /\ \A d \in closed : \E i \in due : tasks[i].conn = d
      OBVIOUS
  <2>8. \A i \in due : tasks[i].conn \in closed
      OBVIOUS
  <2> DEFINE t == Tail(ready)
             e == Ended(order)
  <2> HIDE DEF closed, S
  <2>9. \A d \in Conns : \A i \in DOMAIN tasks : Owner(d, i)
      BY DEF Guards
  <2>10. /\ \A d \in Conns : d \notin closed => conn'[d] = conn[d]
         /\ \A d \in closed : d \in Conns /\ Is(conn'[d], "closed", "done", conn[d].data, conn[d].task)
    <3>1. \A d \in closed : d \in Conns
        BY <1>0, <2>7 DEF Timed
    <3>2. \A d \in Conns : Is(ToClosed(conn[d]), "closed", "done", conn[d].data, conn[d].task)
        BY <1>0, ObjectTo
    <3> QED BY <2>4, <3>1, <3>2
  <2>11. \A d \in closed : conn[d].state = "open"
      BY <2>7, <2>9, <2>10 DEF Owner
  <2>12. SlotFits'
    <3> SUFFICES ASSUME NEW d \in Conns PROVE Fits(client'[d], conn'[d], work'.conn = d)
        BY DEF SlotFits
    <3>1. Fits(client[d], conn[d], work.conn = d) /\ work'.conn # d
        BY <1>0, <2>3, <2>6 DEF SlotFits
    <3>2. CASE d \in closed
        BY <2>6, <2>10, <2>11, <3>1, <3>2 DEF Fits, Is
    <3>3. CASE d \notin closed
        BY <2>6, <2>10, <3>1, <3>3 DEF Fits
    <3> QED BY <3>2, <3>3
  <2>13. /\ e \in Seq(Jobs)
         /\ \A n \in 1 .. Len(e) : order[n] \in S /\ e[n] = <<"read", tasks[order[n]].conn>>
         /\ \A m, n \in 1 .. Len(e) : m < n => order[m] < order[n]
      BY <1>0, <2>7, EndedIs
  <2>14. t \in Seq(Jobs) /\ Distinct(t) /\ \A x : In(x, t) => In(x, ready)
      BY <1>0, <2>3, TailDistinct DEF SlotReady
  <2> HIDE DEF t, e
  <2>15. \A x : In(x, e) => \E d \in closed : x = <<"read", d>> /\ conn[d].read = "waiting"
    <3>1. ASSUME NEW n \in 1 .. Len(e)
          PROVE  \E d \in closed : e[n] = <<"read", d>> /\ conn[d].read = "waiting"
      <4> DEFINE f == tasks[order[n]].conn
      <4>1. order[n] \in S /\ e[n] = <<"read", f>>
          BY <2>13
      <4>2. f \in closed /\ conn[f].read = "waiting"
          BY <2>7, <4>1
      <4> HIDE DEF f
      <4> QED BY <4>1, <4>2
    <3> QED BY <3>1 DEF In
  <2>16. Distinct(e)
    <3> SUFFICES ASSUME NEW m \in 1 .. Len(e), NEW n \in 1 .. Len(e), e[m] = e[n]
                 PROVE  m = n
        BY DEF Distinct
    <3>1. /\ tasks[order[m]].conn = tasks[order[n]].conn
          /\ order[m] \in DOMAIN tasks /\ order[n] \in DOMAIN tasks
        BY <2>7, <2>13
    <3>2. tasks[order[m]].conn \in Conns
        BY <1>0, <3>1 DEF Timed
    <3>3. order[m] = order[n] /\ order[m] \in Nat
        BY <1>0, <2>9, <3>1, <3>2 DEF Owner, Timed
    <3>4. ~(m < n) /\ ~(n < m)
        BY <2>13, <3>3
    <3>5. Len(e) \in Nat
        BY <2>13, LenProperties
    <3> QED BY <3>4, <3>5
  <2>17. \A x : In(x, e) => ~In(x, t)
    <3> SUFFICES ASSUME NEW d \in closed, conn[d].read = "waiting", In(<<"read", d>>, t)
                 PROVE  FALSE
        BY <2>15
    <3> QED BY <1>0, <2>10, <2>14 DEF SlotReady
  <2>18. Distinct(ready') /\ \A x : In(x, ready') => In(x, t) \/ In(x, e)
      BY <2>5, <2>13, <2>14, <2>16, <2>17, ConcatDistinct DEF t, e
  <2>19. SlotReady'
    <3> SUFFICES ASSUME NEW d \in Conns
                 PROVE  /\ In(<<"start", d>>, ready') => conn'[d].state = "posted"
                        /\ In(<<"read", d>>, ready') => conn'[d].read = "done"
        BY <2>18 DEF SlotReady
    <3>1. \A f \in closed : <<"start", d>> # <<"read", f>> /\ (<<"read", d>> = <<"read", f>> => d = f)
        OBVIOUS
    <3>2. In(<<"start", d>>, ready') => In(<<"start", d>>, ready)
        BY <2>14, <2>15, <2>18, <3>1
    <3>3. In(<<"read", d>>, ready') => In(<<"read", d>>, ready) \/ d \in closed
        BY <2>14, <2>15, <2>18, <3>1
    <3>4. In(<<"start", d>>, ready) => d \notin closed
        BY <1>0, <2>11 DEF SlotReady
    <3> QED BY <1>0, <2>10, <3>2, <3>3, <3>4 DEF SlotReady, Is
  <2>20. Guards'
    <3> SUFFICES ASSUME NEW d \in Conns
                 PROVE  Guard(d)' /\ \A i \in DOMAIN tasks' : Owner(d, i)'
        BY DEF Guards
    <3>1. Guard(d) /\ \A i \in DOMAIN tasks : Owner(d, i)
        BY DEF Guards
    <3>2. CASE d \in closed
      <4>1. conn'[d].read = "done"
          BY <2>10, <3>2 DEF Is
      <4>2. PICK j \in due : tasks[j].conn = d
          BY <2>7, <3>2
      <4>3. \A i \in DOMAIN tasks' : tasks'[i].conn # d
          BY <2>2, <3>1, <4>2 DEF Owner
      <4> QED BY <4>1, <4>3 DEF Guard, Owner
    <3>3. CASE d \notin closed
      <4>1. conn'[d] = conn[d] /\ work'.conn # d
          BY <1>0, <2>3, <2>6, <2>10, <3>3
      <4>2. \A i \in due : tasks[i].conn # d
          BY <2>8, <3>3
      <4>3. Guard(d)'
          BY <2>2, <3>1, <4>1, <4>2 DEF Guard
      <4>4. ASSUME NEW i \in DOMAIN tasks'
            PROVE  Owner(d, i)'
          BY <2>2, <3>1, <4>1 DEF Owner
      <4> QED BY <4>3, <4>4
    <3> QED BY <3>2, <3>3
  <2>21. Placed'
      BY <1>0, <2>6 DEF Placed
  <2> QED BY <2>12, <2>19, <2>20, <2>21 DEF Slots
<1> QED BY <1>1, <1>2
-----------------------------------------------------------------------------
Base == HttpTypeOK /\ Slots /\ Guards

LEMMA BaseInit == HttpInit => Base
<1> SUFFICES ASSUME HttpInit PROVE Base
    OBVIOUS
<1>1. Guards
    BY DEF HttpInit, Guards, Guard, Owner, NoConn
<1> QED BY <1>1, TypeInit, SlotsInit DEF Base

\* Every action, by who takes it.
LEMMA Actions ==
    ASSUME HttpNext
    PROVE  \/ \E c \in Conns : \/ Connect(c) \/ SendMore(c) \/ Leaves(c) \/ ReadsAnswer(c)
                               \/ ReadCompletes(c) \/ \E k \in Requests : Begin(c, k)
           \/ \E c \in Conns : StartConnection(c) \/ ReadDone(c)
           \/ Tick \/ TimerExpires
           \/ RouteUrl \/ HandleRequest \/ WriteAnswer \/ AfterFeed
    BY DEF HttpNext, Worker, Kernel

\* One step of the system.
LEMMA BaseStep == Base /\ [HttpNext]_httpVars => Base'
<1> SUFFICES ASSUME Base, [HttpNext]_httpVars PROVE Base'
    OBVIOUS
<1>1. HttpTypeOK /\ Slots /\ Guards /\ Placed
    BY DEF Base, Slots
<1>2. CASE UNCHANGED httpVars
  <2>1. SentTyped' /\ ConnTyped' /\ Timed' /\ ReadyTyped' /\ WorkTyped' /\ ToldTyped' /\ CutTyped'
      BY <1>1, <1>2, TypeParts DEF httpVars, SentTyped, ConnTyped, Timed, ReadyTyped, WorkTyped,
                                  ToldTyped, CutTyped
  <2>2. Slots'
      BY <1>1, <1>2 DEF httpVars, Slots, Placed, SlotFits, SlotReady
  <2>3. Guards'
      BY <1>1, <1>2, GuardsStill DEF httpVars
  <2> QED BY <2>1, <2>2, <2>3, TypesNext DEF Base, AllTyped
<1>3. ASSUME NEW c \in Conns,
             \/ Connect(c) \/ SendMore(c) \/ Leaves(c) \/ ReadsAnswer(c) \/ ReadCompletes(c)
             \/ \E k \in Requests : Begin(c, k)
      PROVE  Base'
    BY <1>1, <1>3, ClientTypes, ClientSlots, ClientGuards DEF Base
<1>4. ASSUME NEW c \in Conns, StartConnection(c) \/ ReadDone(c)
      PROVE  Base'
    BY <1>1, <1>4, WorkerTypes, WorkerSlots, WorkerGuards DEF Base
<1>5. CASE Tick \/ TimerExpires
    BY <1>1, <1>5, TickTypes, TickSlots DEF Base
<1>6. CASE RouteUrl \/ HandleRequest \/ WriteAnswer \/ AfterFeed
    BY <1>1, <1>6, FeedTypes, FeedSlots, FeedGuards DEF Base
<1>7. CASE HttpNext
    BY <1>3, <1>4, <1>5, <1>6, <1>7, Actions
<1> QED BY <1>2, <1>7

LEMMA BaseAlways == HttpSpec => []Base
<1>1. HttpInit => Base
    BY BaseInit
<1>2. Base /\ [HttpNext]_httpVars => Base'
    BY BaseStep
<1> QED BY <1>1, <1>2, PTL DEF HttpSpec

\* Every variable keeps its type; in particular a new identifier of the timer is never in use.
THEOREM TypeCorrect == HttpSpec => []HttpTypeOK
<1>1. Base => HttpTypeOK
    BY DEF Base
<1> QED BY <1>1, BaseAlways, PTL

\* A read in flight has its deadline unless another connection cancelled it, and no connection
\* keeps a deadline past its read.
THEOREM GuardedSafe == HttpSpec => []GuardedOrRobbed
<1>1. Base => GuardedOrRobbed
    BY GuardsThen DEF Base
<1> QED BY <1>1, BaseAlways, PTL
-----------------------------------------------------------------------------
(* Answers.                                                                *)

\* How many requests are answered, the one whose answer k waits to be written included.
Told(s, k) == IF k = 0 THEN Len(s) ELSE Len(s) + 1

\* For one connection: it is served, a is what its client asked, h what the parser holds, i what
\* arrived, u what the client has to send if it is there, s the answers, k the one to be written,
\* bad that its parser gave up, ct that a read cut a URL.
Streams(served, a, h, i, u, here, s, k, bad) ==
    served /\ ~bad => \E r \in 0 .. 2 : Flow(a, h, i, u, 3 * Told(s, k) + r, here)

AnswersFit(a, s, ct) ==
    \A n \in 1 .. Len(s) :
        n <= Len(a) /\ (s[n] = Code(a[n]) \/ (ct /\ n = Len(s) /\ s[n] = 404))

AnswersOwn(served, a, s, k, bad) ==
    served /\ ~(bad /\ k = 0) => \A n \in 1 .. Len(s) : s[n] = Code(a[n])

Awaits(served, a, s, k, bad, ct) ==
    served /\ k # 0 =>
        Len(s) < Len(a) /\ (k = Code(a[Len(s) + 1]) \/ (k = 404 /\ ct /\ bad))

Answering(served, a, h, i, u, here, s, k, bad, ct) ==
    /\ Streams(served, a, h, i, u, here, s, k, bad)
    /\ AnswersFit(a, s, ct) /\ AnswersOwn(served, a, s, k, bad) /\ Awaits(served, a, s, k, bad, ct)

\* Less is known of a connection that is not served, of a client that may be gone, of a cut URL.
LEMMA AnsweringWeaker ==
    ASSUME NEW served, NEW a, NEW h, NEW i, NEW u, NEW here, NEW s, NEW k, NEW bad, NEW ct,
           Answering(served, a, h, i, u, here, s, k, bad, ct),
           NEW served2, NEW here2, NEW bad2, NEW ct2,
           served2 => served, here2 => here, bad => bad2, ct => ct2
    PROVE  Answering(served2, a, h, i, u, here2, s, k, bad2, ct2)
<1>1. Streams(served2, a, h, i, u, here2, s, k, bad2)
    BY DEF Answering, Streams, Flow
<1>2. AnswersFit(a, s, ct2)
    BY DEF Answering, AnswersFit
<1>3. AnswersOwn(served2, a, s, k, bad2) /\ Awaits(served2, a, s, k, bad2, ct2)
    BY DEF Answering, AnswersOwn, Awaits
<1> QED BY <1>1, <1>2, <1>3 DEF Answering

\* The client begins a request.
LEMMA AnsweringBegin ==
    ASSUME NEW S, NEW a \in Seq(S), NEW x \in S, NEW T, NEW h \in Seq(T), NEW i \in Seq(T),
           Units(x)[1] \in T, NEW s \in Seq(Codes), NEW k, NEW served, NEW bad, NEW ct,
           Answering(served, a, h, i, <<>>, TRUE, s, k, bad, ct)
    PROVE  Answering(served, Append(a, x), h, Append(i, Head(Units(x))), Tail(Units(x)), TRUE,
                     s, k, bad, ct)
<1> DEFINE b == Append(a, x)
           j == Append(i, Head(Units(x)))
           v == Tail(Units(x))
<1>1. /\ Len(a) \in Nat /\ Len(b) = Len(a) + 1 /\ \A n \in 1 .. Len(a) : b[n] = a[n]
      /\ Len(s) \in Nat
    BY LenProperties, AppendProperties
<1>2. Told(s, k) \in Nat
    BY <1>1 DEF Told
<1>3. Streams(served, b, h, j, v, TRUE, s, k, bad)
  <2> SUFFICES ASSUME served, ~bad
               PROVE  \E r \in 0 .. 2 : Flow(b, h, j, v, 3 * Told(s, k) + r, TRUE)
      BY DEF Streams
  <2>1. PICK r \in 0 .. 2 : Flow(a, h, i, <<>>, 3 * Told(s, k) + r, TRUE)
      BY DEF Answering, Streams
  <2> DEFINE at == 3 * Told(s, k) + r
  <2>2. at \in Nat
      BY <1>2
  <2> HIDE DEF at
  <2>3. Flow(a, h, i, <<>>, at, TRUE)
      BY <2>1 DEF at
  <2>4. Flow(b, h, j, v, at, TRUE)
      BY <2>2, <2>3, FlowBegin
  <2> QED BY <2>4 DEF at
<1> HIDE DEF b, j, v
<1>4. AnswersFit(a, s, ct) /\ AnswersOwn(served, a, s, k, bad) /\ Awaits(served, a, s, k, bad, ct)
    BY DEF Answering
<1>5. AnswersFit(b, s, ct)
  <2> SUFFICES ASSUME NEW n \in 1 .. Len(s)
               PROVE  n <= Len(b) /\ (s[n] = Code(b[n]) \/ (ct /\ n = Len(s) /\ s[n] = 404))
      BY DEF AnswersFit
  <2>1. n <= Len(a) /\ (s[n] = Code(a[n]) \/ (ct /\ n = Len(s) /\ s[n] = 404))
      BY <1>4 DEF AnswersFit
  <2>2. n <= Len(b) /\ b[n] = a[n]
      BY <1>1, <2>1
  <2> QED BY <2>1, <2>2
<1>6. AnswersOwn(served, b, s, k, bad)
  <2> SUFFICES ASSUME served, ~(bad /\ k = 0), NEW n \in 1 .. Len(s)
               PROVE  s[n] = Code(b[n])
      BY DEF AnswersOwn
  <2>1. n <= Len(a) /\ s[n] = Code(a[n])
      BY <1>4 DEF AnswersFit, AnswersOwn
  <2> QED BY <1>1, <2>1
<1>7. Awaits(served, b, s, k, bad, ct)
  <2> SUFFICES ASSUME served, k # 0
               PROVE  Len(s) < Len(b) /\ (k = Code(b[Len(s) + 1]) \/ (k = 404 /\ ct /\ bad))
      BY DEF Awaits
  <2>1. Len(s) < Len(a) /\ (k = Code(a[Len(s) + 1]) \/ (k = 404 /\ ct /\ bad))
      BY <1>4 DEF Awaits
  <2>2. Len(s) < Len(b) /\ b[Len(s) + 1] = a[Len(s) + 1]
      BY <1>1, <2>1
  <2> QED BY <2>1, <2>2
<1>8. Answering(served, b, h, j, v, TRUE, s, k, bad, ct)
    BY <1>3, <1>5, <1>6, <1>7 DEF Answering
<1> QED BY <1>8 DEF b, j, v

\* What moves along the stream without a change to the answers.
LEMMA AnsweringMoves ==
    ASSUME NEW a, NEW h, NEW i, NEW u, NEW h2, NEW i2, NEW u2, NEW here, NEW s \in Seq(Codes), NEW k,
           NEW served, NEW bad, NEW ct, Answering(served, a, h, i, u, here, s, k, bad, ct),
           \A at \in Nat : Flow(a, h, i, u, at, here) => Flow(a, h2, i2, u2, at, here)
    PROVE  Answering(served, a, h2, i2, u2, here, s, k, bad, ct)
<1>1. Told(s, k) \in Nat
    BY LenProperties DEF Told
<1>2. Streams(served, a, h2, i2, u2, here, s, k, bad)
  <2> SUFFICES ASSUME served, ~bad
               PROVE  \E r \in 0 .. 2 : Flow(a, h2, i2, u2, 3 * Told(s, k) + r, here)
      BY DEF Streams
  <2>1. PICK r \in 0 .. 2 : Flow(a, h, i, u, 3 * Told(s, k) + r, here)
      BY DEF Answering, Streams
  <2>2. 3 * Told(s, k) + r \in Nat
      BY <1>1
  <2> QED BY <2>1, <2>2
<1> QED BY <1>2 DEF Answering
-----------------------------------------------------------------------------
\* Where the parser is: at a part of the first request that is not answered.
LEMMA Place ==
    ASSUME NEW a, NEW T, NEW h \in Seq(T), h # <<>>, NEW i, NEW u, NEW here, NEW s \in Seq(Codes),
           NEW ct, Answering(TRUE, a, h, i, u, here, s, 0, FALSE, ct)
    PROVE  /\ Len(s) < Len(a) /\ Head(h).kind = a[Len(s) + 1]
           /\ Head(h).part = "path" => Flow(a, h, i, u, 3 * Len(s), here)
           /\ Head(h).part = "rest" => Flow(a, h, i, u, 3 * Len(s) + 1, here)
           /\ Head(h).part = "end" => Flow(a, h, i, u, 3 * Len(s) + 2, here)
<1> DEFINE l == Len(s)
<1>1. l \in Nat /\ Told(s, 0) = l
    BY LenProperties DEF Told
<1>2. PICK r \in 0 .. 2 : Flow(a, h, i, u, 3 * l + r, here)
    BY <1>1 DEF Answering, Streams
<1> HIDE DEF l
<1> DEFINE at == 3 * l + r
           p == r + 1
<1>3. at \in Nat /\ p \in 1 .. 3 /\ at + 1 = 3 * l + p
    BY <1>1
<1>10. at = 3 * l + r /\ p = r + 1
    OBVIOUS
<1>4. Flow(a, h, i, u, at, here)
    BY <1>2
<1> HIDE DEF at, p
<1>5. l < Len(a) /\ Head(h) = Units(a[l + 1])[p]
    BY <1>1, <1>3, <1>4, FlowHead
<1> DEFINE x == a[l + 1]
<1> HIDE DEF x
<1>6. Head(h).kind = x /\ (Head(h).part = "path" <=> p = 1)
      /\ (Head(h).part = "rest" <=> p = 2) /\ (Head(h).part = "end" <=> p = 3)
  <2>1. Head(h) = Units(x)[p]
      BY <1>5 DEF x
  <2> QED BY <1>3, <2>1, PartIs
<1>7. Head(h).part = "path" => at = 3 * l
    BY <1>1, <1>6, <1>10
<1>8. Head(h).part = "rest" => at = 3 * l + 1
    BY <1>1, <1>6, <1>10
<1>9. Head(h).part = "end" => at = 3 * l + 2
    BY <1>1, <1>6, <1>10
<1> QED BY <1>4, <1>5, <1>6, <1>7, <1>8, <1>9 DEF l, x

\* The parser goes on from a URL to the headers.
LEMMA AnsweringRouted ==
    ASSUME NEW a, NEW T, NEW h \in Seq(T), h # <<>>, Tail(h) # <<>>, Head(h).part = "path",
           NEW i \in Seq(T), NEW u \in Seq(T), NEW here \in BOOLEAN, NEW s \in Seq(Codes), NEW ct,
           Answering(TRUE, a, h, i, u, here, s, 0, FALSE, ct)
    PROVE  Answering(TRUE, a, Tail(Tail(h)), i, u, here, s, 0, FALSE, ct)
<1> DEFINE l == Len(s)
           t == Tail(h)
           at == 3 * l
<1>1. l \in Nat /\ at \in Nat /\ Told(s, 0) = l
    BY LenProperties DEF Told
<1>2. Flow(a, h, i, u, at, here)
    BY Place
<1>3. t \in Seq(T)
    BY HeadTailProperties
<1> HIDE DEF at
<1>4. Flow(a, t, i, u, at + 1, here)
    BY <1>1, <1>2, FlowDrop
<1>5. at + 1 \in Nat /\ (at + 1) + 1 = 3 * l + 2
    BY <1>1 DEF at
<1> HIDE DEF t
<1>6. Flow(a, Tail(t), i, u, (at + 1) + 1, here)
    BY <1>3, <1>4, <1>5, FlowDrop DEF t
<1>7. Streams(TRUE, a, Tail(t), i, u, here, s, 0, FALSE)
  <2>1. Flow(a, Tail(t), i, u, 3 * Told(s, 0) + 2, here)
      BY <1>1, <1>5, <1>6
  <2> QED BY <2>1 DEF Streams
<1> QED BY <1>7 DEF Answering, t

\* The parser goes on from a piece of a URL, to its rest or to the headers.
LEMMA AnsweringPiece ==
    ASSUME NEW a, NEW T, NEW h \in Seq(T), h # <<>>, Head(h).part \in {"path", "rest"},
           NEW i \in Seq(T), NEW u \in Seq(T), NEW here \in BOOLEAN, NEW s \in Seq(Codes), NEW ct,
           Answering(TRUE, a, h, i, u, here, s, 0, FALSE, ct)
    PROVE  Answering(TRUE, a, Tail(h), i, u, here, s, 0, FALSE, ct)
<1> DEFINE l == Len(s)
           t == Tail(h)
           r == IF Head(h).part = "path" THEN 0 ELSE 1
           at == 3 * l + r
           n == r + 1
<1>1. l \in Nat /\ Told(s, 0) = l
    BY LenProperties DEF Told
<1>2. Flow(a, h, i, u, at, here)
  <2>1. CASE Head(h).part = "path"
    <3>1. at = 3 * Len(s)
        BY <1>1, <2>1
    <3> QED BY <2>1, <3>1, Place
  <2>2. CASE Head(h).part = "rest"
    <3>1. at = 3 * Len(s) + 1
        BY <2>2
    <3> QED BY <2>2, <3>1, Place
  <2> QED BY <2>1, <2>2
<1>3. at \in Nat /\ n \in 0 .. 2 /\ at + 1 = 3 * l + n
  <2>1. r \in {0, 1} /\ l \in Nat
      BY <1>1
  <2> HIDE DEF r, l
  <2> QED BY <2>1
<1> HIDE DEF at, t, n
<1>4. Flow(a, t, i, u, at + 1, here)
    BY <1>2, <1>3, FlowDrop DEF t
<1>5. Flow(a, t, i, u, 3 * Told(s, 0) + n, here)
  <2>1. 3 * Told(s, 0) + n = at + 1
      BY <1>1, <1>3
  <2> QED BY <1>4, <2>1
<1>6. Streams(TRUE, a, t, i, u, here, s, 0, FALSE)
    BY <1>3, <1>5 DEF Streams
<1> QED BY <1>6 DEF Answering, t

\* The request is whole, and its answer ready.
LEMMA AnsweringReplies ==
    ASSUME NEW a, NEW T, NEW h \in Seq(T), h # <<>>, Head(h).part = "end",
           NEW i \in Seq(T), NEW u \in Seq(T), NEW here \in BOOLEAN, NEW s \in Seq(Codes), NEW ct,
           Answering(TRUE, a, h, i, u, here, s, 0, FALSE, ct), Code(Head(h).kind) # 0
    PROVE  Answering(TRUE, a, Tail(h), i, u, here, s, Code(Head(h).kind), FALSE, ct)
<1> DEFINE l == Len(s)
           k == Code(Head(h).kind)
           at == 3 * l + 2
<1>1. l \in Nat /\ at \in Nat /\ Told(s, k) = l + 1
    BY LenProperties DEF Told
<1>2. Flow(a, h, i, u, at, here) /\ l < Len(a) /\ k = Code(a[l + 1])
    BY Place
<1>3. at + 1 = 3 * (l + 1) + 0
    BY <1>1
<1> HIDE DEF at, k
<1>4. Flow(a, Tail(h), i, u, at + 1, here)
    BY <1>1, <1>2, FlowDrop
<1>5. Streams(TRUE, a, Tail(h), i, u, here, s, k, FALSE)
  <2>1. Flow(a, Tail(h), i, u, 3 * Told(s, k) + 0, here)
      BY <1>1, <1>3, <1>4
  <2> QED BY <2>1 DEF Streams
<1>6. AnswersFit(a, s, ct) /\ AnswersOwn(TRUE, a, s, k, FALSE)
    BY DEF Answering, AnswersOwn
<1>7. Awaits(TRUE, a, s, k, FALSE, ct)
    BY <1>2 DEF Awaits
<1> QED BY <1>5, <1>6, <1>7 DEF Answering, k

\* The kernel takes the answer.
LEMMA AnsweringWritten ==
    ASSUME NEW S, NEW a \in Seq(S), NEW h, NEW i, NEW u, NEW here, NEW s \in Seq(Codes),
           NEW k \in Codes, k # 0, NEW bad, NEW ct, Answering(TRUE, a, h, i, u, here, s, k, bad, ct)
    PROVE  Answering(TRUE, a, h, i, u, here, Append(s, k), 0, bad, ct)
<1> DEFINE l == Len(s)
           t == Append(s, k)
<1>1. /\ l \in Nat /\ Len(a) \in Nat /\ Len(t) = l + 1 /\ t[l + 1] = k
      /\ \A n \in 1 .. l : t[n] = s[n]
    BY LenProperties, AppendProperties
<1>2. AnswersFit(a, s, ct) /\ (\A n \in 1 .. l : s[n] = Code(a[n])) /\ l < Len(a)
      /\ (k = Code(a[l + 1]) \/ (k = 404 /\ ct /\ bad))
    BY DEF Answering, AnswersOwn, Awaits
<1>3. Told(t, 0) = Told(s, k)
    BY <1>1 DEF Told
<1> HIDE DEF t
<1>4. Streams(TRUE, a, h, i, u, here, t, 0, bad)
    BY <1>3 DEF Answering, Streams
<1> HIDE DEF l
<1>5. AnswersFit(a, t, ct)
  <2> SUFFICES ASSUME NEW n \in 1 .. l + 1
               PROVE  n <= Len(a) /\ (t[n] = Code(a[n]) \/ (ct /\ n = Len(t) /\ t[n] = 404))
      BY <1>1 DEF AnswersFit
  <2>1. CASE n = l + 1
    <3>1. n <= Len(a)
        BY <1>1, <1>2, <2>1
    <3> QED BY <1>1, <1>2, <2>1, <3>1
  <2>2. CASE n # l + 1
    <3>1. n \in 1 .. l
        BY <1>1, <2>2
    <3>2. n <= Len(a)
        BY <1>2, <3>1 DEF AnswersFit, l
    <3> QED BY <1>1, <1>2, <3>1, <3>2
  <2> QED BY <2>1, <2>2
<1>6. AnswersOwn(TRUE, a, t, 0, bad)
  <2> SUFFICES ASSUME ~bad, NEW n \in 1 .. l + 1 PROVE t[n] = Code(a[n])
      BY <1>1 DEF AnswersOwn
  <2>1. CASE n = l + 1
      BY <1>1, <1>2, <2>1
  <2>2. CASE n # l + 1
    <3>1. n \in 1 .. l
        BY <1>1, <2>2
    <3> QED BY <1>1, <1>2, <3>1
  <2> QED BY <2>1, <2>2
<1>7. Awaits(TRUE, a, t, 0, bad, ct)
    BY DEF Awaits
<1> QED BY <1>4, <1>5, <1>6, <1>7 DEF Answering, t
-----------------------------------------------------------------------------
\* What the parser of c has, or will be fed next; the answer it has to write; did it give up?
Held(c) == IF work.conn = c THEN work.buf ELSE conn[c].data
Waiting(c) == IF work.conn = c THEN work.code ELSE 0
Bad(c) == work.conn = c /\ work.bad
Serving(c) == client[c] # "reset" /\ conn[c].state \in {"none", "posted", "open"}
Here(c) == client[c] \in {"away", "here"}

Answered(c) ==
    Answering(Serving(c), asked[c], Held(c), inbox[c], unsent[c], Here(c), answers[c], Waiting(c),
              Bad(c), cut[c])

Serial == \A c \in Conns : Answered(c)

\* What is found of c's answers after a step, said of its new state.
LEMMA AnsweredNext ==
    ASSUME NEW c, NEW served, NEW here, NEW bad, NEW ct,
           Answering(served, asked'[c], Held(c)', inbox'[c], unsent'[c], here, answers'[c],
                     Waiting(c)', bad, ct),
           Serving(c)' => served, Here(c)' => here, bad => Bad(c)', ct => cut'[c]
    PROVE  Answered(c)'
<1> DEFINE sv == Serving(c)'
           hr == Here(c)'
           bd == Bad(c)'
<1>1. (sv => served) /\ (hr => here) /\ (bad => bd) /\ (ct => cut'[c])
    OBVIOUS
<1> DEFINE h == Held(c)'
           k == Waiting(c)'
<1> HIDE DEF sv, hr, bd, h, k
<1>2. Answering(sv, asked'[c], h, inbox'[c], unsent'[c], hr, answers'[c], k, bd, cut'[c])
    BY <1>1, AnsweringWeaker DEF h, k
<1> QED BY <1>2 DEF Answered, sv, hr, bd, h, k

\* Nothing of c changes but what is less to be known.
LEMMA AnsweredSame ==
    ASSUME NEW c, Answered(c), Serving(c)' => Serving(c), asked'[c] = asked[c], Held(c)' = Held(c),
           inbox'[c] = inbox[c], unsent'[c] = unsent[c], Here(c)' => Here(c),
           answers'[c] = answers[c], Waiting(c)' = Waiting(c), Bad(c) => Bad(c)', cut[c] => cut'[c]
    PROVE  Answered(c)'
<1> DEFINE sv == Serving(c)
           hr == Here(c)
           bd == Bad(c)
           sv2 == Serving(c)'
           hr2 == Here(c)'
           bd2 == Bad(c)'
<1>1. Answering(sv, asked[c], Held(c), inbox[c], unsent[c], hr, answers[c], Waiting(c), bd, cut[c])
    BY DEF Answered
<1>2. (sv2 => sv) /\ (hr2 => hr) /\ (bd => bd2) /\ (cut[c] => cut'[c])
    OBVIOUS
<1> HIDE DEF sv, hr, bd, sv2, hr2, bd2
<1>3. Answering(sv2, asked[c], Held(c), inbox[c], unsent[c], hr2, answers[c], Waiting(c), bd2, cut'[c])
    BY <1>1, <1>2, AnsweringWeaker
<1> HIDE DEF Held, Waiting
<1>4. Answering(sv2, asked'[c], Held(c)', inbox'[c], unsent'[c], hr2, answers'[c], Waiting(c)', bd2,
                cut'[c])
    BY <1>3
<1> QED BY <1>4 DEF Answered, sv2, hr2, bd2

\* c is served no more.
LEMMA AnsweredOver ==
    ASSUME NEW c, Answered(c), ~Serving(c)', asked'[c] = asked[c], answers'[c] = answers[c],
           cut[c] => cut'[c]
    PROVE  Answered(c)'
<1> DEFINE sv2 == Serving(c)'
           hr2 == Here(c)'
           bd2 == Bad(c)'
           i2 == inbox'[c]
           u2 == unsent'[c]
           h2 == Held(c)'
           k2 == Waiting(c)'
           ct2 == cut'[c]
<1>1. AnswersFit(asked[c], answers[c], cut[c])
    BY DEF Answered, Answering
<1>2. AnswersFit(asked'[c], answers'[c], ct2)
    BY <1>1 DEF AnswersFit
<1>3. ~sv2
    OBVIOUS
<1> HIDE DEF sv2, hr2, bd2, i2, u2, h2, k2, ct2
<1>4. Answering(sv2, asked'[c], h2, i2, u2, hr2, answers'[c], k2, bd2, ct2)
    BY <1>2, <1>3 DEF Answering, Streams, AnswersOwn, Awaits
<1> QED BY <1>4 DEF Answered, sv2, hr2, bd2, i2, u2, h2, k2, ct2

\* Something happens to another connection.
LEMMA AnsweredElse ==
    ASSUME NEW d, Answered(d), client'[d] = client[d], conn'[d] = conn[d], asked'[d] = asked[d],
           unsent'[d] = unsent[d], inbox'[d] = inbox[d], answers'[d] = answers[d], cut[d] => cut'[d],
           work' = work \/ (work.conn # d /\ work'.conn # d)
    PROVE  Answered(d)'
<1>1. Held(d)' = Held(d) /\ Waiting(d)' = Waiting(d) /\ (Bad(d)' <=> Bad(d))
    BY DEF Held, Waiting, Bad
<1>2. (Serving(d)' <=> Serving(d)) /\ (Here(d)' <=> Here(d))
    BY DEF Serving, Here
<1> QED BY <1>1, <1>2, AnsweredSame
-----------------------------------------------------------------------------
\* Nobody has asked anything.
LEMMA AnsweredInit == HttpInit => Serial
<1> SUFFICES ASSUME HttpInit, NEW c \in Conns PROVE Answered(c)
    BY DEF Serial
<1>1. /\ asked[c] = <<>> /\ inbox[c] = <<>> /\ unsent[c] = <<>> /\ answers[c] = <<>>
      /\ conn[c].data = <<>> /\ work.conn = 0 /\ c # 0
    BY DEF HttpInit, NoConn, Idle, Conns
<1>2. Held(c) = <<>> /\ Waiting(c) = 0
    BY <1>1 DEF Held, Waiting
<1> DEFINE sv == Serving(c)
           hr == Here(c)
           bd == Bad(c)
           ct == cut[c]
           e == <<>>
<1> HIDE DEF sv, hr, bd, ct
<1>3. Flow(e, e, e, e, 0, hr)
    BY PieceNone DEF Flow
<1>4. Told(e, 0) = 0 /\ 3 * 0 + 0 = 0
    BY DEF Told
<1>5. Streams(sv, e, e, e, e, hr, e, 0, bd)
  <2>1. Flow(e, e, e, e, 3 * Told(e, 0) + 0, hr)
      BY <1>3, <1>4
  <2> QED BY <2>1 DEF Streams
<1>6. AnswersFit(e, e, ct) /\ AnswersOwn(sv, e, e, 0, bd) /\ Awaits(sv, e, e, 0, bd, ct)
    BY DEF AnswersFit, AnswersOwn, Awaits
<1>7. Answering(sv, e, e, e, e, hr, e, 0, bd, ct)
    BY <1>5, <1>6 DEF Answering
<1> QED BY <1>1, <1>2, <1>7 DEF Answered, sv, hr, bd, ct

\* What is known of c's connection, by the types.
LEMMA Known ==
    ASSUME HttpTypeOK, NEW c \in Conns
    PROVE  /\ asked[c] \in Seq(Requests) /\ unsent[c] \in Seq(Unit) /\ inbox[c] \in Seq(Unit)
           /\ answers[c] \in Seq(Codes) /\ Held(c) \in Seq(Unit) /\ Waiting(c) \in Codes
           /\ work \in Feeding /\ cut \in [Conns -> BOOLEAN] /\ conn[c] \in ConnSet
<1>1. /\ asked[c] \in Seq(Requests) /\ unsent[c] \in Seq(Unit) /\ inbox[c] \in Seq(Unit)
      /\ work \in Feeding /\ cut \in [Conns -> BOOLEAN] /\ conn[c] \in ConnSet
    BY TypeParts DEF SentTyped, WorkTyped, CutTyped, ConnTyped
<1>2. answers[c] \in Seq(Codes)
  <2> DEFINE s == answers[c]
             C == {200, 400, 404}
  <2>1. s \in Seq(C)
      BY TypeParts DEF ToldTyped
  <2> HIDE DEF s
  <2>2. Len(s) \in Nat /\ s \in [1 .. Len(s) -> C]
      BY <2>1, LenProperties
  <2>3. s \in [1 .. Len(s) -> Codes]
      BY <2>2 DEF Codes
  <2>4. s \in Seq(Codes)
      BY <2>2, <2>3, SeqDef
  <2> QED BY <2>4 DEF s
<1>3. Held(c) \in Seq(Unit)
    BY <1>1, Object DEF Held, Feeding
<1>4. Waiting(c) \in Codes
    BY <1>1, CodesAre DEF Waiting, Feeding
<1> QED BY <1>1, <1>2, <1>3, <1>4

\* Clients ask, send, read and leave; reads complete.
LEMMA ClientSerial ==
    ASSUME HttpTypeOK, Slots, Serial, NEW c \in Conns,
           \/ Connect(c) \/ SendMore(c) \/ Leaves(c) \/ ReadsAnswer(c) \/ ReadCompletes(c)
           \/ \E k \in Requests : Begin(c, k)
    PROVE  Serial'
<1> USE DEF clientVars, outVars
<1>0. /\ Answered(c) /\ Fits(client[c], conn[c], work.conn = c)
      /\ client \in [Conns -> {"away", "here", "fin", "reset"}]
      /\ asked \in [Conns -> Seq(Requests)]
      /\ unsent \in [Conns -> Seq(Unit)] /\ inbox \in [Conns -> Seq(Unit)]
    BY TypeParts DEF Serial, Slots, SlotFits, SentTyped
<1>1. ASSUME NEW d \in Conns, d # c PROVE Answered(d)'
  <2>1. Answered(d)
      BY DEF Serial
  <2>2. /\ client'[d] = client[d] /\ asked'[d] = asked[d] /\ unsent'[d] = unsent[d]
        /\ inbox'[d] = inbox[d] /\ UNCHANGED <<answers, cut, work>>
    <3>1. CASE Connect(c) \/ SendMore(c) \/ Leaves(c) \/ ReadsAnswer(c) \/ ReadCompletes(c)
        BY <1>0, <1>1, <3>1 DEF Connect, SendMore, Leaves, ReadsAnswer, ReadCompletes
    <3>2. ASSUME NEW k \in Requests, Begin(c, k)
          PROVE  /\ client'[d] = client[d] /\ asked'[d] = asked[d] /\ unsent'[d] = unsent[d]
                 /\ inbox'[d] = inbox[d] /\ UNCHANGED <<answers, cut, work>>
      <4>1. /\ asked' = [asked EXCEPT ![c] = Append(@, k)]
            /\ inbox' = [inbox EXCEPT ![c] = Append(@, Head(Units(k)))]
            /\ unsent' = [unsent EXCEPT ![c] = Tail(Units(k))]
            /\ UNCHANGED <<client, answers, cut, work>>
          BY <3>2, Zenon DEF Begin
      <4> QED BY <1>0, <1>1, <4>1
    <3> QED BY <3>1, <3>2
  <2>3. conn'[d] = conn[d]
    <3>1. CASE Connect(c) \/ ReadCompletes(c)
        BY <1>1, <3>1, ConnectChanges, ReadCompletesChanges DEF Changes
    <3>2. CASE SendMore(c) \/ Leaves(c) \/ ReadsAnswer(c)
        BY <3>2 DEF SendMore, Leaves, ReadsAnswer
    <3>3. ASSUME NEW k \in Requests, Begin(c, k) PROVE conn' = conn
        BY <3>3, Zenon DEF Begin
    <3> QED BY <3>1, <3>2, <3>3
  <2> QED BY <2>1, <2>2, <2>3, AnsweredElse
<1>2. CASE Connect(c)
  <2>1. /\ client[c] = "away" /\ client'[c] = "here"
        /\ UNCHANGED <<asked, unsent, inbox, answers, cut, work>>
      BY <1>0, <1>2 DEF Connect
  <2>2. conn'[c].state = "posted" /\ conn'[c].data = conn[c].data /\ conn[c].state = "none"
      BY <1>0, <1>2, <2>1, ConnectChanges DEF Changes, Is, Fits
  <2>3. Held(c)' = Held(c) /\ Waiting(c)' = Waiting(c) /\ (Bad(c) => Bad(c)') /\ Serving(c) /\ Here(c)
      BY <2>1, <2>2 DEF Held, Waiting, Bad, Serving, Here
  <2>4. Answered(c)'
      BY <1>0, <2>1, <2>3, AnsweredSame
  <2> QED BY <1>1, <2>4 DEF Serial
<1>3. CASE ReadsAnswer(c)
  <2>1. UNCHANGED <<client, asked, unsent, inbox, conn, work, answers, cut>>
      BY <1>3 DEF ReadsAnswer
  <2>2. Answered(c)'
      BY <1>0, <2>1, AnsweredElse
  <2> QED BY <1>1, <2>2 DEF Serial
<1>4. CASE Leaves(c)
  <2>1. UNCHANGED <<asked, unsent, conn, work, answers, cut>>
      BY <1>4 DEF Leaves
  <2>2. ASSUME client' = [client EXCEPT ![c] = "fin"], UNCHANGED inbox, client[c] = "here"
        PROVE  Answered(c)'
    <3>1. Held(c)' = Held(c) /\ Waiting(c)' = Waiting(c) /\ (Bad(c) => Bad(c)') /\ Here(c)
          /\ (Serving(c)' => Serving(c))
        BY <2>1, <2>2 DEF Held, Waiting, Bad, Serving, Here
    <3>2. /\ asked'[c] = asked[c] /\ unsent'[c] = unsent[c] /\ inbox'[c] = inbox[c]
          /\ answers'[c] = answers[c] /\ (cut[c] => cut'[c]) /\ (Here(c)' => Here(c))
        BY <2>1, <2>2, <3>1
    <3> QED BY <1>0, <3>1, <3>2, AnsweredSame
  <2>3. ASSUME client' = [client EXCEPT ![c] = "reset"] PROVE Answered(c)'
    <3>1. ~Serving(c)'
        BY <1>0, <2>3 DEF Serving
    <3>2. asked'[c] = asked[c] /\ answers'[c] = answers[c] /\ (cut[c] => cut'[c])
        BY <2>1
    <3> QED BY <1>0, <3>1, <3>2, AnsweredOver
  <2>4. Answered(c)'
      BY <1>4, <2>2, <2>3 DEF Leaves
  <2> QED BY <1>1, <2>4 DEF Serial
<1>5. CASE SendMore(c)
  <2>1. /\ client[c] = "here" /\ unsent[c] # <<>>
        /\ inbox'[c] = Append(inbox[c], Head(unsent[c])) /\ unsent'[c] = Tail(unsent[c])
        /\ UNCHANGED <<client, asked, conn, work, answers, cut>>
      BY <1>0, <1>5 DEF SendMore, Asks
  <2> DEFINE sv == Serving(c)
             bd == Bad(c)
             h == Held(c)
             s == answers[c]
             k == Waiting(c)
  <2>2. Answering(sv, asked[c], h, inbox[c], unsent[c], TRUE, s, k, bd, cut[c])
    <3>1. Here(c) <=> TRUE
        BY <2>1 DEF Here
    <3> QED BY <1>0, <3>1 DEF Answered
  <2>3. /\ h \in Seq(Unit) /\ s \in Seq(Codes)
        /\ inbox[c] \in Seq(Unit) /\ unsent[c] \in Seq(Unit)
      BY Known
  <2>4. (Serving(c)' => sv) /\ Held(c)' = h /\ Waiting(c)' = k /\ (bd => Bad(c)')
      BY <2>1 DEF Serving, Held, Waiting, Bad
  <2> HIDE DEF sv, bd, h, s, k
  <2>5. \A at \in Nat : Flow(asked[c], h, inbox[c], unsent[c], at, TRUE) =>
            Flow(asked[c], h, inbox'[c], unsent'[c], at, TRUE)
      BY <2>1, <2>3, FlowSend
  <2>6. Answering(sv, asked[c], h, inbox'[c], unsent'[c], TRUE, s, k, bd, cut[c])
      BY <2>2, <2>3, <2>5, AnsweringMoves
  <2>7. asked'[c] = asked[c] /\ answers'[c] = s /\ (cut[c] => cut'[c])
      BY <2>1 DEF s
  <2> DEFINE on == TRUE
             ct == cut[c]
  <2> HIDE DEF on, ct
  <2>8. /\ Answering(sv, asked'[c], Held(c)', inbox'[c], unsent'[c], on, answers'[c], Waiting(c)', bd, ct)
        /\ (Serving(c)' => sv) /\ (Here(c)' => on) /\ (bd => Bad(c)') /\ (ct => cut'[c])
      BY <2>4, <2>6, <2>7 DEF on, ct
  <2>9. Answered(c)'
      BY <2>8, AnsweredNext, Zenon
  <2> QED BY <1>1, <2>9 DEF Serial
<1>6. ASSUME NEW x \in Requests, Begin(c, x) PROVE Serial'
  <2>1. /\ asked' = [asked EXCEPT ![c] = Append(@, x)]
        /\ inbox' = [inbox EXCEPT ![c] = Append(@, Head(Units(x)))]
        /\ unsent' = [unsent EXCEPT ![c] = Tail(Units(x))]
        /\ Asks(c) /\ unsent[c] = <<>>
        /\ UNCHANGED <<client, answers, cut, work, conn>>
      BY <1>6, Zenon DEF Begin
  <2>2. /\ asked'[c] = Append(asked[c], x) /\ inbox'[c] = Append(inbox[c], Head(Units(x)))
        /\ unsent'[c] = Tail(Units(x))
      BY <1>0, <2>1
  <2> DEFINE sv == Serving(c)
             bd == Bad(c)
             h == Held(c)
             s == answers[c]
             k == Waiting(c)
             ct == cut[c]
             on == TRUE
  <2>3. Answering(sv, asked[c], h, inbox[c], <<>>, TRUE, s, k, bd, ct)
    <3>1. Here(c) <=> TRUE
        BY <2>1 DEF Here, Asks
    <3> QED BY <1>0, <2>1, <3>1 DEF Answered
  <2>4. /\ h \in Seq(Unit) /\ s \in Seq(Codes)
        /\ inbox[c] \in Seq(Unit) /\ asked[c] \in Seq(Requests) /\ Units(x)[1] \in Unit
      BY Known, UnitsTyped
  <2>5. (Serving(c)' => sv) /\ Held(c)' = h /\ Waiting(c)' = k /\ (bd => Bad(c)') /\ answers'[c] = s
        /\ (ct => cut'[c])
      BY <2>1 DEF Serving, Held, Waiting, Bad
  <2> HIDE DEF sv, bd, h, s, k, ct
  <2>6. Answering(sv, asked'[c], h, inbox'[c], unsent'[c], TRUE, s, k, bd, ct)
      BY <2>2, <2>3, <2>4, AnsweringBegin
  <2>7. Answering(sv, asked'[c], Held(c)', inbox'[c], unsent'[c], on, answers'[c], Waiting(c)', bd, ct)
        /\ (Here(c)' => on)
      BY <2>5, <2>6
  <2> HIDE DEF on
  <2>8. Answered(c)'
      BY <2>5, <2>7, AnsweredNext, Zenon
  <2> QED BY <1>1, <2>8 DEF Serial
<1>7. CASE ReadCompletes(c)
  <2>1. /\ conn[c].read = "waiting" /\ inbox'[c] = <<>>
        /\ UNCHANGED <<client, asked, unsent, work, answers, cut>>
      BY <1>0, <1>7 DEF ReadCompletes
  <2>2. /\ conn'[c].state = conn[c].state /\ conn'[c].data = inbox[c]
        /\ conn[c].data = <<>> /\ work.conn # c
      BY <1>0, <1>7, <2>1, ReadCompletesChanges DEF Changes, Is, Fits
  <2> DEFINE sv == Serving(c)
             hr == Here(c)
             bd == Bad(c)
             s == answers[c]
             k == Waiting(c)
             ct == cut[c]
             e == <<>>
  <2>3. Answering(sv, asked[c], e, inbox[c], unsent[c], hr, s, k, bd, ct)
    <3>1. Held(c) = e
        BY <2>2 DEF Held
    <3> HIDE DEF e
    <3> QED BY <1>0, <3>1 DEF Answered
  <2>4. s \in Seq(Codes) /\ inbox[c] \in Seq(Unit) /\ hr \in BOOLEAN
      BY Known DEF Here
  <2>5. /\ (Serving(c)' => sv) /\ Held(c)' = inbox[c] /\ Waiting(c)' = k /\ (bd => Bad(c)')
        /\ (hr <=> Here(c)') /\ inbox'[c] = e
      BY <2>1, <2>2 DEF Serving, Held, Waiting, Bad, Here
  <2>6. asked'[c] = asked[c] /\ answers'[c] = s /\ unsent'[c] = unsent[c] /\ (ct => cut'[c])
      BY <2>1
  <2> HIDE DEF sv, bd, hr, s, k, ct
  <2>7. \A at \in Nat : Flow(asked[c], e, inbox[c], unsent[c], at, hr) =>
            Flow(asked[c], inbox[c], e, unsent[c], at, hr)
      BY <2>4, FlowRead
  <2> HIDE DEF e
  <2>8. Answering(sv, asked[c], inbox[c], e, unsent[c], hr, s, k, bd, ct)
      BY <2>3, <2>4, <2>7, AnsweringMoves
  <2>9. Answering(sv, asked'[c], Held(c)', inbox'[c], unsent'[c], hr, answers'[c], Waiting(c)', bd, ct)
      BY <2>5, <2>6, <2>8
  <2>10. Answered(c)'
      BY <2>5, <2>6, <2>9, AnsweredNext, Zenon
  <2> QED BY <1>1, <2>10 DEF Serial
<1> QED BY <1>2, <1>3, <1>4, <1>5, <1>6, <1>7
-----------------------------------------------------------------------------
\* Only c's answers, and what leads to them, change.
LEMMA SerialElse ==
    ASSUME Serial, NEW c \in Conns, Answered(c)',
           \A d \in Conns : d # c =>
               /\ client'[d] = client[d] /\ conn'[d] = conn[d] /\ asked'[d] = asked[d]
               /\ unsent'[d] = unsent[d] /\ inbox'[d] = inbox[d] /\ answers'[d] = answers[d]
               /\ cut[d] => cut'[d]
               /\ work' = work \/ (work.conn # d /\ work'.conn # d)
    PROVE  Serial'
<1>1. ASSUME NEW d \in Conns, d # c PROVE Answered(d)'
    BY <1>1, AnsweredElse DEF Serial
<1> QED BY <1>1 DEF Serial

\* A connection is started, or what was read goes to the parser.
LEMMA WorkerSerial ==
    ASSUME HttpTypeOK, Slots, Serial, NEW c \in Conns, StartConnection(c) \/ ReadDone(c)
    PROVE  Serial'
<1> USE DEF clientVars, outVars
<1>0. SlotFits /\ SlotReady /\ Fits(client[c], conn[c], work.conn = c) /\ Answered(c)
      /\ c # 0 /\ Idle = [conn |-> 0, buf |-> <<>>, code |-> 0, bad |-> FALSE]
      /\ \A d \in Conns : d # 0
    BY DEF Slots, SlotFits, Conns, Idle, Serial
<1>1. UNCHANGED <<client, asked, unsent, inbox, answers, cut>> /\ work = Idle
    BY DEF StartConnection, ReadDone, Runs
<1>2. CASE StartConnection(c)
  <2>1. Runs(<<"start", c>>) /\ Reads(c) /\ work' = work
      BY <1>2 DEF StartConnection
  <2>2. Changes(c, "open", "waiting", <<>>, highest + 1)
      BY <2>1, ReadsChanges
  <2>3. In(<<"start", c>>, ready)
    <3>1. ready \in Seq(Jobs) /\ ready # <<>> /\ Distinct(ready) /\ Head(ready) = <<"start", c>>
        BY <1>0, <2>1, TypeParts DEF ReadyTyped, Runs, SlotReady
    <3> QED BY <3>1, TailDistinct
  <2>4. conn[c].state = "posted" /\ conn[c].data = <<>>
      BY <1>0, <2>3 DEF SlotReady, Fits
  <2>5. Answered(c)'
    <3>1. /\ Held(c)' = Held(c) /\ Waiting(c)' = Waiting(c) /\ (Bad(c) => Bad(c)')
          /\ (Serving(c)' => Serving(c)) /\ (Here(c)' => Here(c))
        BY <1>0, <1>1, <2>1, <2>2, <2>4 DEF Held, Waiting, Bad, Serving, Here, Changes, Is
    <3>2. /\ asked'[c] = asked[c] /\ unsent'[c] = unsent[c] /\ inbox'[c] = inbox[c]
          /\ answers'[c] = answers[c] /\ (cut[c] => cut'[c])
        BY <1>1
    <3> QED BY <1>0, <3>1, <3>2, AnsweredSame
  <2> QED BY <1>1, <2>1, <2>2, <2>5, SerialElse DEF Changes
<1>3. CASE ReadDone(c)
  <2>1. (Fails(c) /\ work' = work) \/ Feed(c)
      BY <1>3 DEF ReadDone, Feed
  <2>2. CASE Fails(c) /\ work' = work
    <3>1. Changes(c, "gone", "none", <<>>, 0)
        BY <2>2, FreedChanges DEF Fails
    <3>2. Answered(c)'
      <4>1. ~Serving(c)' /\ asked'[c] = asked[c] /\ answers'[c] = answers[c] /\ (cut[c] => cut'[c])
          BY <1>1, <3>1 DEF Serving, Changes, Is
      <4> QED BY <1>0, <4>1, AnsweredOver
    <3> QED BY <1>1, <2>2, <3>1, <3>2, SerialElse DEF Changes
  <2>3. CASE Feed(c)
    <3>1. Changes(c, conn[c].state, "none", <<>>, conn[c].task)
        BY <2>3, FeedChanges
    <3>2. Works(work', c, conn[c].data, 0, FALSE)
        BY <2>3, FeedWorks
    <3>3. Answered(c)'
      <4>1. /\ Held(c)' = Held(c) /\ Waiting(c)' = Waiting(c) /\ (Bad(c) => Bad(c)')
            /\ (Serving(c)' => Serving(c)) /\ (Here(c)' => Here(c))
          BY <1>0, <1>1, <3>1, <3>2 DEF Held, Waiting, Bad, Serving, Here, Changes, Is, Works
      <4>2. /\ asked'[c] = asked[c] /\ unsent'[c] = unsent[c] /\ inbox'[c] = inbox[c]
            /\ answers'[c] = answers[c] /\ (cut[c] => cut'[c])
          BY <1>1
      <4> QED BY <1>0, <4>1, <4>2, AnsweredSame
    <3>4. \A d \in Conns : d # c => work.conn # d /\ work'.conn # d
        BY <1>0, <1>1, <3>2 DEF Works
    <3> QED BY <1>1, <3>1, <3>3, <3>4, SerialElse DEF Changes
  <2> QED BY <2>1, <2>2, <2>3
<1> QED BY <1>2, <1>3

\* A connection that the timer closes is served no more.
LEMMA TickSerial ==
    ASSUME HttpTypeOK, Slots, Serial, Tick \/ TimerExpires
    PROVE  Serial'
<1> USE DEF clientVars, outVars
<1> SUFFICES ASSUME NEW d \in Conns PROVE Answered(d)'
    BY DEF Serial
<1>0. UNCHANGED <<client, asked, unsent, inbox, answers, cut, work>> /\ Answered(d)
  <2>1. CASE Tick
      BY <2>1 DEF Tick, ProcessTasks, Serial
  <2>2. CASE TimerExpires
      BY <2>2 DEF TimerExpires, Serial
  <2> QED BY <2>1, <2>2
<1>1. CASE conn'[d] = conn[d]
    BY <1>0, <1>1, AnsweredElse
<1>2. CASE conn'[d] # conn[d]
  <2>1. Tick
      BY <1>2 DEF TimerExpires
  <2>2. PICK due \in SUBSET DOMAIN tasks :
            ProcessTasks(due, IF DOMAIN tasks = due THEN 0 ELSE highest)
      BY <2>1 DEF Tick
  <2> DEFINE closed == {tasks[i].conn : i \in due}
  <2>3. conn' = [c \in Conns |-> IF c \notin closed THEN conn[c] ELSE ToClosed(conn[c])]
      BY <2>2 DEF ProcessTasks, ToClosed
  <2> HIDE DEF closed
  <2>4. conn'[d] = ToClosed(conn[d])
      BY <1>2, <2>3
  <2>5. conn'[d].state = "closed"
      BY <2>4, TypeParts, ObjectTo DEF ConnTyped, Is
  <2>6. ~Serving(d)' /\ asked'[d] = asked[d] /\ answers'[d] = answers[d] /\ (cut[d] => cut'[d])
      BY <1>0, <2>5 DEF Serving
  <2> QED BY <1>0, <2>6, AnsweredOver
<1> QED BY <1>1, <1>2
-----------------------------------------------------------------------------
\* What is known while c's buffer is fed to its parser and c is served.
LEMMA Fed ==
    ASSUME NEW c, Answered(c), Serving(c), work.conn = c, NEW bad \in BOOLEAN, bad <=> work.bad
    PROVE  Answering(TRUE, asked[c], work.buf, inbox[c], unsent[c], Here(c), answers[c], work.code,
                     bad, cut[c])
<1>1. Held(c) = work.buf /\ Waiting(c) = work.code /\ (Bad(c) <=> bad) /\ (Serving(c) <=> TRUE)
    BY DEF Held, Waiting, Bad
<1>2. Bad(c) = bad
    BY <1>1 DEF Bad
<1> QED BY <1>1, <1>2 DEF Answered

\* The worker has dealt with a part: h is left, k is to be written.
LEMMA FedNext ==
    ASSUME NEW c, NEW served, NEW here, NEW h, NEW k, NEW bad, NEW ct,
           Answering(served, asked'[c], h, inbox'[c], unsent'[c], here, answers'[c], k, bad, ct),
           Serving(c)' => served, Here(c)' => here, ct => cut'[c], Works(work', c, h, k, bad)
    PROVE  Answered(c)'
<1>1. Held(c)' = h /\ Waiting(c)' = k /\ (bad => Bad(c)')
    BY DEF Held, Waiting, Bad, Works
<1>2. Answering(served, asked'[c], Held(c)', inbox'[c], unsent'[c], here, answers'[c], Waiting(c)', bad, ct)
    BY <1>1
<1> QED BY <1>1, <1>2, AnsweredNext, Zenon

\* The parser's callbacks, the write, and the end of the handler.
LEMMA FeedSerial ==
    ASSUME HttpTypeOK, Slots, Serial, NEW c \in Conns, work.conn = c,
           RouteUrl \/ HandleRequest \/ WriteAnswer \/ AfterFeed
    PROVE  Serial'
<1> USE DEF clientVars, outVars
<1>0. c \in Conns /\ work.conn = c /\ c # 0 /\ Fits(client[c], conn[c], TRUE) /\ Answered(c)
      /\ work \in Feeding /\ cut \in [Conns -> BOOLEAN] /\ client[c] # "away"
      /\ Idle.conn = 0 /\ Idle.buf = <<>> /\ Idle.code = 0
  <2>2. work \in Feeding /\ cut \in [Conns -> BOOLEAN]
      BY TypeParts DEF WorkTyped, CutTyped
  <2>3. Fits(client[c], conn[c], work.conn = c)
      BY DEF Slots, SlotFits
  <2>4. Fits(client[c], conn[c], TRUE)
      BY <2>3 DEF Fits
  <2>5. c # 0 /\ Idle.conn = 0 /\ Idle.buf = <<>> /\ Idle.code = 0
      BY DEF Conns, Idle
  <2> QED BY <2>2, <2>4, <2>5 DEF Serial, Fits
<1>1. conn[c].state \in {"open", "closed"} /\ conn[c].data = <<>>
    BY <1>0 DEF Fits
<1>2. /\ asked[c] \in Seq(Requests) /\ unsent[c] \in Seq(Unit) /\ inbox[c] \in Seq(Unit)
      /\ answers[c] \in Seq(Codes) /\ work.buf \in Seq(Unit) /\ work.code \in Codes
      /\ Here(c) \in BOOLEAN
    BY <1>0, Known DEF Here, Feeding
<1> DEFINE a == asked[c]
           h == work.buf
           s == answers[c]
           hr == Here(c)
           ct == cut[c]
<1>3. CASE RouteUrl
  <2>1. UNCHANGED <<client, asked, unsent, inbox, conn, answers>>
      BY <1>3 DEF RouteUrl
  <2>2. /\ \A d \in Conns : cut[d] => cut'[d]
        /\ work.code = 0 /\ ~work.bad /\ h # <<>> /\ Head(h).part \in {"path", "rest"}
        /\ \/ Works(work', c, Tail(Tail(h)), 0, FALSE) /\ Head(h).part = "path" /\ Tail(h) # <<>>
           \/ Works(work', c, Tail(h), 0, FALSE)
           \/ Works(work', c, <<>>, 404, TRUE) /\ (Head(h).kind = "missing" \/ cut'[c])
      BY <1>0, <1>3, RouteWorks DEF Onward, Refused
  <2>3. Answered(c)'
    <3>1. CASE ~Serving(c)
      <4>1. ~Serving(c)' /\ asked'[c] = asked[c] /\ answers'[c] = answers[c] /\ (cut[c] => cut'[c])
          BY <1>0, <2>1, <2>2, <3>1 DEF Serving
      <4> QED BY <1>0, <4>1, AnsweredOver
    <3>2. CASE Serving(c)
      <4> DEFINE t == Tail(Tail(h))
                 e == <<>>
                 z == 0
                 n == 404
                 yes == TRUE
                 no == FALSE
                 ct2 == cut'[c]
      <4>1. Answering(TRUE, a, h, inbox[c], unsent[c], hr, s, 0, FALSE, ct)
          BY <1>0, <2>2, <3>2, Fed
      <4>2. (Serving(c)' => yes) /\ (Here(c)' => hr) /\ (ct => ct2) /\ (ct2 => cut'[c])
          BY <1>0, <2>1, <2>2 DEF Here
      \* On to the headers.
      <4>3. CASE Works(work', c, Tail(Tail(h)), 0, FALSE) /\ Head(h).part = "path" /\ Tail(h) # <<>>
        <5>1. Answering(TRUE, a, t, inbox[c], unsent[c], hr, s, 0, FALSE, ct)
            BY <1>2, <2>2, <4>1, <4>3, AnsweringRouted
        <5>2. Answering(yes, asked'[c], t, inbox'[c], unsent'[c], hr, answers'[c], z, no, ct)
              /\ Works(work', c, t, z, no) /\ (ct => cut'[c])
            BY <2>1, <4>2, <4>3, <5>1
        <5> HIDE DEF t, z, yes, no, hr, ct, ct2
        <5> QED BY ONLY <4>2, <5>2, FedNext, Zenon
      \* On past a piece.
      <4>5. CASE Works(work', c, Tail(h), 0, FALSE)
        <5> DEFINE p == Tail(h)
        <5>1. Answering(TRUE, a, p, inbox[c], unsent[c], hr, s, 0, FALSE, ct)
            BY <1>2, <2>2, <4>1, AnsweringPiece
        <5>2. Answering(yes, asked'[c], p, inbox'[c], unsent'[c], hr, answers'[c], z, no, ct)
              /\ Works(work', c, p, z, no) /\ (ct => cut'[c])
            BY <2>1, <4>2, <4>5, <5>1
        <5> HIDE DEF p, z, yes, no, hr, ct, ct2
        <5> QED BY ONLY <4>2, <5>2, FedNext, Zenon
      \* No further: the URL has no route, or is cut.
      <4>4. CASE Works(work', c, <<>>, 404, TRUE) /\ (Head(h).kind = "missing" \/ cut'[c])
        <5>1. Answering(TRUE, a, <<>>, inbox[c], unsent[c], hr, s, n, TRUE, ct2)
          <6> HIDE DEF a, h, s, hr, ct, ct2
          <6>1. h \in Seq(Unit) /\ s \in Seq(Codes) /\ h # <<>>
              BY <1>2, <2>2 DEF h, s
          <6>2. Len(s) < Len(a) /\ Head(h).kind = a[Len(s) + 1]
              BY <4>1, <6>1, Place
          <6>3. AnswersFit(a, s, ct2) /\ AnswersOwn(TRUE, a, s, n, TRUE)
              BY <4>1, <4>2 DEF Answering, AnswersFit, AnswersOwn
          <6>4. Awaits(TRUE, a, s, n, TRUE, ct2)
              BY <4>4, <6>2, CodeIs DEF Awaits, h, ct2
          <6>5. Streams(TRUE, a, <<>>, inbox[c], unsent[c], hr, s, n, TRUE)
              BY DEF Streams
          <6> QED BY <6>3, <6>4, <6>5 DEF Answering
        <5>2. Answering(yes, asked'[c], e, inbox'[c], unsent'[c], hr, answers'[c], n, yes, ct2)
              /\ Works(work', c, e, n, yes)
            BY <2>1, <4>4, <5>1
        <5> HIDE DEF e, n, yes, hr, ct, ct2
        <5> QED BY ONLY <4>2, <5>2, FedNext, Zenon
      <4> QED BY <2>2, <4>3, <4>4, <4>5
    <3> QED BY <3>1, <3>2
  <2>4. work'.conn = c
      BY <2>2 DEF Works
  <2> QED BY <1>0, <2>1, <2>2, <2>3, <2>4, SerialElse
<1>4. CASE HandleRequest
  <2>1. Feeds("end") /\ (Drops \/ Upgrades \/ Replies)
        /\ UNCHANGED <<client, asked, unsent, inbox, answers, cut>>
      BY <1>4, HandleCases
  <2>2. CASE Drops \/ Upgrades
    <3>1. \E st \in {"gone", "upgraded"} : Changes(c, st, "none", <<>>, 0)
        BY <1>0, <2>2, FreedChanges, UpgradesChanges DEF Drops
    <3>2. work' = Idle
        BY <2>2 DEF Drops, Upgrades
    <3>3. Answered(c)'
      <4>1. ~Serving(c)' /\ asked'[c] = asked[c] /\ answers'[c] = answers[c] /\ (cut[c] => cut'[c])
          BY <2>1, <3>1 DEF Serving, Changes, Is
      <4> QED BY <1>0, <4>1, AnsweredOver
    <3>4. \A d \in Conns : d # c => conn'[d] = conn[d] /\ work.conn # d /\ work'.conn # d
        BY <1>0, <3>1, <3>2 DEF Changes, Conns
    <3> QED BY <1>0, <2>1, <3>3, <3>4, SerialElse
  <2>3. CASE Replies
    <3> DEFINE k == Code(Head(h).kind)
    <3>1. Changes(c, conn[c].state, conn[c].read, conn[c].data, conn[c].task)
        BY <1>0, <2>3, RepliesChanges
    <3>2. Works(work', c, Tail(h), k, FALSE)
        BY <1>0, <2>1, <2>3, RepliesWorks
    <3>3. /\ work.code = 0 /\ ~work.bad /\ h # <<>> /\ Head(h).part = "end" /\ Serving(c)
          /\ Head(h).kind \notin {"odd", "socket"}
        BY <1>1, <2>1, <2>3 DEF Feeds, Replies, Serving, Lost
    <3>4. k # 0
      <4>1. Head(h) \in Unit
          BY <1>2, <3>3, HeadTailProperties
      <4>2. Head(h).kind \in Kinds
          BY <4>1, HttpConnectionsAssumption DEF Unit
      <4> QED BY <3>3, <4>2, CodeIs
    <3>5. Answering(TRUE, a, h, inbox[c], unsent[c], hr, s, 0, FALSE, ct)
        BY <1>0, <3>3, Fed
    <3>6. Answering(TRUE, a, Tail(h), inbox[c], unsent[c], hr, s, k, FALSE, ct)
      <4>1. k = Code(Head(h).kind)
          OBVIOUS
      <4> HIDE DEF a, s, hr, ct, k
      <4>2. Answering(TRUE, a, Tail(h), inbox[c], unsent[c], hr, s, Code(Head(h).kind), FALSE, ct)
        <5>1. hr \in BOOLEAN /\ s \in Seq(Codes)
            BY <1>2 DEF hr, s
        <5> QED BY <1>2, <3>3, <3>4, <3>5, <4>1, <5>1, AnsweringReplies
      <4> QED BY <4>1, <4>2
    <3>7. Answered(c)'
      <4> DEFINE yes == TRUE
                 no == FALSE
                 t == Tail(h)
      <4>1. (Serving(c)' => yes) /\ (Here(c)' => hr) /\ (ct => cut'[c])
          BY <2>1 DEF Here
      <4>2. Answering(yes, asked'[c], t, inbox'[c], unsent'[c], hr, answers'[c], k, no, ct)
            /\ Works(work', c, t, k, no)
          BY <2>1, <3>2, <3>6
      <4> HIDE DEF yes, no, t, k, hr, ct
      <4> QED BY ONLY <4>1, <4>2, FedNext, Zenon
    <3>8. \A d \in Conns : d # c => conn'[d] = conn[d] /\ work.conn # d /\ work'.conn # d
        BY <3>1, <3>2 DEF Changes, Works
    <3> QED BY <1>0, <2>1, <3>7, <3>8, SerialElse
  <2> QED BY <2>1, <2>2, <2>3
<1>5. CASE WriteAnswer
  <2>1. UNCHANGED <<client, asked, unsent, inbox, conn, cut>> /\ work' = WithCode(work, 0)
        /\ work.code # 0
      BY <1>5 DEF WriteAnswer, WithCode
  <2>2. /\ answers'[c] = IF Lost THEN s ELSE Append(s, work.code)
        /\ \A d \in Conns : d # c => answers'[d] = answers[d]
      BY <1>0, <1>5, TypeParts DEF WriteAnswer, Lost, ToldTyped
  <2>3. Works(work', c, h, 0, work.bad)
    <3>1. Works(work, c, h, work.code, work.bad)
        BY <1>0, WorksIs
    <3>2. \A d \in Codes : Works(WithCode(work, d), c, h, d, work.bad)
        BY <3>1, WorkerWith
    <3> QED BY <2>1, <3>2, CodesAre
  <2>4. Answered(c)'
    <3>1. CASE Lost
      <4>1. ~Serving(c)' /\ asked'[c] = asked[c] /\ answers'[c] = answers[c] /\ (cut[c] => cut'[c])
          BY <2>1, <2>2, <3>1 DEF Serving, Lost
      <4> QED BY <1>0, <4>1, AnsweredOver
    <3>2. CASE ~Lost
      <4> DEFINE bd == work.bad
      <4>1. Serving(c)
          BY <1>1, <3>2 DEF Serving, Lost
      <4>2. Answering(TRUE, a, h, inbox[c], unsent[c], hr, s, work.code, bd, ct)
        <5>1. bd \in BOOLEAN
            BY <1>0 DEF Feeding
        <5> QED BY <1>0, <4>1, <5>1, Fed
      <4>3. Works(work', c, h, 0, bd)
          BY <2>3
      <4> HIDE DEF bd
      <4>4. Answering(TRUE, a, h, inbox[c], unsent[c], hr, Append(s, work.code), 0, bd, ct)
          BY <1>2, <2>1, <4>2, AnsweringWritten
      <4> DEFINE yes == TRUE
      <4> DEFINE z == 0
      <4>5. (Serving(c)' => yes) /\ (Here(c)' => hr) /\ (ct => cut'[c])
          BY <2>1 DEF Here
      <4>6. Answering(yes, asked'[c], h, inbox'[c], unsent'[c], hr, answers'[c], z, bd, ct)
            /\ Works(work', c, h, z, bd)
          BY <2>1, <2>2, <3>2, <4>3, <4>4
      <4> HIDE DEF yes, z, hr, ct
      <4> QED BY ONLY <4>5, <4>6, FedNext, Zenon
    <3> QED BY <3>1, <3>2
  <2>5. work'.conn = c
      BY <2>3 DEF Works
  <2> QED BY <1>0, <2>1, <2>2, <2>4, <2>5, SerialElse
<1>6. CASE AfterFeed
  <2>1. /\ UNCHANGED <<client, asked, unsent, inbox, answers, cut>> /\ work' = Idle
        /\ work.code = 0 /\ work.buf = <<>>
        /\ Fails(c) \/ (Reads(c) /\ ~work.bad /\ conn[c].state # "closed")
      BY <1>6 DEF AfterFeed
  <2>2. CASE Fails(c)
    <3>1. Changes(c, "gone", "none", <<>>, 0)
        BY <1>0, <2>2, FreedChanges DEF Fails
    <3>2. Answered(c)'
      <4>1. ~Serving(c)' /\ asked'[c] = asked[c] /\ answers'[c] = answers[c] /\ (cut[c] => cut'[c])
          BY <2>1, <3>1 DEF Serving, Changes, Is
      <4> QED BY <1>0, <4>1, AnsweredOver
    <3>3. \A d \in Conns : d # c => conn'[d] = conn[d] /\ work.conn # d /\ work'.conn # d
        BY <1>0, <2>1, <3>1 DEF Changes, Conns
    <3> QED BY <1>0, <2>1, <3>2, <3>3, SerialElse
  <2>3. CASE Reads(c) /\ ~work.bad /\ conn[c].state # "closed"
    <3>1. Changes(c, "open", "waiting", <<>>, highest + 1)
        BY <1>0, <2>3, ReadsChanges
    <3>2. Answered(c)'
      <4>1. /\ Held(c)' = Held(c) /\ Waiting(c)' = Waiting(c) /\ (Bad(c) => Bad(c)')
            /\ (Serving(c)' => Serving(c)) /\ (Here(c)' => Here(c))
          BY <1>0, <1>1, <2>1, <2>3, <3>1 DEF Held, Waiting, Bad, Serving, Here, Changes, Is
      <4>2. /\ asked'[c] = asked[c] /\ unsent'[c] = unsent[c] /\ inbox'[c] = inbox[c]
            /\ answers'[c] = answers[c] /\ (cut[c] => cut'[c])
          BY <2>1
      <4> QED BY <1>0, <4>1, <4>2, AnsweredSame
    <3>3. \A d \in Conns : d # c => conn'[d] = conn[d] /\ work.conn # d /\ work'.conn # d
        BY <1>0, <2>1, <3>1 DEF Changes, Conns
    <3> QED BY <1>0, <2>1, <3>2, <3>3, SerialElse
  <2> QED BY <2>1, <2>2, <2>3
<1> QED BY <1>3, <1>4, <1>5, <1>6
-----------------------------------------------------------------------------
\* One step of the system.
LEMMA SerialStep == Base /\ Serial /\ [HttpNext]_httpVars => Serial'
<1> SUFFICES ASSUME Base, Serial, [HttpNext]_httpVars PROVE Serial'
    OBVIOUS
<1>1. HttpTypeOK /\ Slots
    BY DEF Base
<1>2. CASE UNCHANGED httpVars
  <2>1. UNCHANGED <<client, asked, unsent, inbox, conn, work, answers, cut>>
      BY <1>2 DEF httpVars
  <2>2. ASSUME NEW d \in Conns PROVE Answered(d)'
    <3>1. Answered(d)
        BY DEF Serial
    <3> QED BY <2>1, <3>1, AnsweredElse
  <2> QED BY <2>2 DEF Serial
<1>3. ASSUME NEW c \in Conns,
             \/ Connect(c) \/ SendMore(c) \/ Leaves(c) \/ ReadsAnswer(c) \/ ReadCompletes(c)
             \/ \E k \in Requests : Begin(c, k)
      PROVE  Serial'
    BY <1>1, <1>3, ClientSerial
<1>4. ASSUME NEW c \in Conns, StartConnection(c) \/ ReadDone(c)
      PROVE  Serial'
    BY <1>1, <1>4, WorkerSerial
<1>5. CASE Tick \/ TimerExpires
    BY <1>1, <1>5, TickSerial
<1>6. CASE RouteUrl \/ HandleRequest \/ WriteAnswer \/ AfterFeed
  <2>1. work.conn \in Conns
      BY <1>1, <1>6, PlacedIs DEF RouteUrl, HandleRequest, Feeds, WriteAnswer, AfterFeed, Slots
  <2>2. ASSUME NEW c \in Conns, work.conn = c PROVE Serial'
      BY <1>1, <1>6, <2>2, FeedSerial
  <2> QED BY <2>1, <2>2
<1>7. CASE HttpNext
    BY <1>3, <1>4, <1>5, <1>6, <1>7, Actions
<1> QED BY <1>2, <1>7

\* The invariant has what is to be shown.
LEMMA SerialThen == HttpTypeOK /\ Serial => AnswersRight
<1> SUFFICES ASSUME HttpTypeOK, Serial, NEW c \in Conns, NEW n \in DOMAIN answers[c]
             PROVE  /\ n <= Len(asked[c])
                    /\ \/ answers[c][n] = Code(asked[c][n])
                       \/ cut[c] /\ n = Len(answers[c]) /\ answers[c][n] = 404
    BY DEF AnswersRight
<1>1. AnswersFit(asked[c], answers[c], cut[c])
    BY DEF Serial, Answered, Answering
<1>2. DOMAIN answers[c] = 1 .. Len(answers[c])
    BY Known, LenProperties
<1> QED BY <1>1, <1>2 DEF AnswersFit

\* Requests are answered in their order, each once and with its own code, however they are cut,
\* read together or left; only a URL that a read cut is answered 404, as the last one.
THEOREM AnswersSafe == HttpSpec => []AnswersRight
<1>1. HttpInit => Serial
    BY AnsweredInit
<1>2. Base /\ Serial /\ [HttpNext]_httpVars => Serial'
    BY SerialStep
<1>3. Base /\ Serial => AnswersRight
    BY SerialThen DEF Base
<1> QED BY <1>1, <1>2, <1>3, BaseAlways, PTL DEF HttpSpec
=============================================================================
