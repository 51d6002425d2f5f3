---------------------------- MODULE FormatsProofs ----------------------------
(***************************************************************************)
(* Theorems about MediaPackets, HikImage and LanEndpoint, for any packets, *)
(* pictures and addresses: the reader of the media stream stays in step,   *)
(* a picture is given exactly or cut cleanly, and the two readings of an   *)
(* address agree.                                                          *)
(***************************************************************************)
EXTENDS MediaPackets, HikImage, LanEndpoint, SequenceTheorems, TLAPS

-----------------------------------------------------------------------------
(* Sequences.                                                              *)

\* r is s, of m elements, followed by t, of n elements.
Joined(r, s, m, t, n) ==
    /\ Len(r) = m + n
    /\ \A k \in Nat : 1 <= k /\ k <= m => r[k] = s[k]
    /\ \A k \in Nat : m < k /\ k <= m + n => r[k] = t[k - m]

\* What \o gives, element by element.
LEMMA Join ==
    ASSUME NEW S, NEW s, NEW t, NEW m, NEW n, s \in Seq(S), t \in Seq(S),
           m \in Nat, n \in Nat, Len(s) = m, Len(t) = n, NEW r, r = s \o t
    PROVE  r \in Seq(S) /\ Joined(r, s, m, t, n)
<1>1. r \in Seq(S) /\ Len(r) = m + n
  OBVIOUS
<1>2. ASSUME NEW k \in Nat, 1 <= k, k <= m
      PROVE  r[k] = s[k]
  BY <1>2
<1>3. ASSUME NEW k \in Nat, m < k, k <= m + n
      PROVE  r[k] = t[k - m]
  <2>1. k \in 1..(m + n) /\ ~ (k <= m)
    BY <1>3
  <2>2. \A i \in 1..(Len(s) + Len(t)) : (s \o t)[i] = IF i <= Len(s) THEN s[i] ELSE t[i - Len(s)]
    OBVIOUS
  <2> QED
    BY <2>1, <2>2
<1> QED
  BY <1>1, <1>2, <1>3 DEF Joined

\* The elements of the second part, counted from its own beginning.
LEMMA SecondPart ==
    ASSUME NEW m \in Nat, NEW n \in Nat, NEW r, NEW s, NEW t, Joined(r, s, m, t, n)
    PROVE  \A k \in Nat : 1 <= k /\ k <= n => r[m + k] = t[k]
BY DEF Joined

\* r is the n elements of s after the first a.
CutOf(r, s, a, n) ==
    /\ Len(r) = n
    /\ \A k \in Nat : 1 <= k /\ k <= n => r[k] = s[a + k]

\* What SubSeq gives, element by element.
LEMMA Cut ==
    ASSUME NEW S, NEW s \in Seq(S), NEW a \in Nat, NEW n \in Nat, a + n <= Len(s),
           NEW i, NEW j, i = a + 1, j = a + n, NEW r, r = SubSeq(s, i, j)
    PROVE  r \in Seq(S) /\ CutOf(r, s, a, n)
<1>1. \A k \in i..j : s[k] \in S
  OBVIOUS
<1>2. /\ SubSeq(s, i, j) \in Seq(S)
      /\ Len(SubSeq(s, i, j)) = IF i <= j THEN j - i + 1 ELSE 0
      /\ \A k \in 1..(j - i + 1) : SubSeq(s, i, j)[k] = s[i + k - 1]
  <2>1. i \in Int /\ j \in Int
    OBVIOUS
  <2> QED
    BY <1>1, <2>1, SubSeqProperties
<1>3. Len(r) = n
  BY <1>2
<1>4. ASSUME NEW k \in Nat, 1 <= k, k <= n
      PROVE  r[k] = s[a + k]
  <2>1. r[k] = s[i + k - 1] /\ i + k - 1 = a + k
    BY <1>2, <1>4
  <2> QED
    BY <2>1
<1> QED
  BY <1>2, <1>3, <1>4 DEF CutOf

\* The same of sequences of numbers.
NatsJoined(r, s, m, t, n) == r \in Seq(Nat) /\ Joined(r, s, m, t, n)

\* Join of numbers.
LEMMA JoinNats ==
    ASSUME NEW s \in Seq(Nat), NEW t \in Seq(Nat), NEW m \in Nat, NEW n \in Nat,
           Len(s) = m, Len(t) = n, NEW r, r = s \o t
    PROVE  NatsJoined(r, s, m, t, n)
BY Join DEF NatsJoined

NatsCut(r, s, a, n) == r \in Seq(Nat) /\ CutOf(r, s, a, n)

\* Cut of numbers.
LEMMA CutNats ==
    ASSUME NEW s \in Seq(Nat), NEW a \in Nat, NEW n \in Nat, a + n <= Len(s),
           NEW i, NEW j, i = a + 1, j = a + n, NEW r, r = SubSeq(s, i, j)
    PROVE  NatsCut(r, s, a, n)
BY Cut DEF NatsCut

\* An element of a set below all others is what Min gives.
LEMMA LeastIs ==
    ASSUME NEW S \in SUBSET Nat, NEW x \in S, \A y \in S : x <= y
    PROVE  Min(S) = x
<1>1. \E y \in S : \A z \in S : y <= z
  OBVIOUS
<1>2. Min(S) \in S /\ \A z \in S : Min(S) <= z
  BY <1>1, Zenon DEF Min
<1>3. Min(S) <= x /\ x <= Min(S) /\ Min(S) \in Nat
  BY <1>2
<1> QED
  BY <1>3

-----------------------------------------------------------------------------
(* MediaPackets: the bytes of a packet.                                    *)

\* The bounds are numbers.
LEMMA Bounds ==
    /\ MAX_LENGTH \in Nat
    /\ {MaxPackets, MaxMedia, MaxPreface} \subseteq Nat
    /\ UNION {MediaBytes, Contributors, Words, Paddings} \subseteq Nat
BY PacketAssumption DEF MAX_LENGTH

\* Any packet fits the two bytes of its length.
LEMMA Limits ==
    ASSUME NEW c \in Contributors, NEW n \in Paddings
    PROVE  /\ c \in Nat /\ c < 16 /\ n \in Nat /\ n < 256
           /\ 18 + 4 * c + MaxMedia + n <= MAX_LENGTH
           /\ \A w \in Words : w \in Nat /\ 18 + 4 * c + 4 * w + MaxMedia + n <= MAX_LENGTH
<1>1. c \in Nat /\ n \in Nat /\ MaxMedia \in Nat /\ \A w \in Words : w \in Nat
  BY Bounds
<1>2. \A w \in Words \cup {0} : c < 16 /\ n < 256 /\ 18 + 4 * c + 4 * w + MaxMedia + n <= MAX_LENGTH
  BY PacketAssumption
<1>3. c < 16 /\ n < 256 /\ 18 + 4 * c + 4 * 0 + MaxMedia + n <= MAX_LENGTH
  BY <1>2
<1> QED
  BY <1>1, <1>2, <1>3

\* What BoundedSeq enumerates.
LEMMA BoundedSeqs ==
    ASSUME NEW S, S \subseteq Nat, NEW n \in Nat, NEW s \in BoundedSeq(S, n)
    PROVE  s \in Seq(Nat) /\ s \in Seq(S) /\ Len(s) \in Nat /\ Len(s) <= n
<1>1. PICK m \in 0..n : s \in [1..m -> S]
  BY DEF BoundedSeq, SeqOf
<1>2. s \in Seq(S) /\ Len(s) = m
  BY <1>1
<1>3. s \in [1..m -> Nat]
  BY <1>1
<1>4. s \in Seq(Nat)
  BY <1>3
<1> QED
  BY <1>2, <1>4

\* The media of a packet are at most MaxMedia bytes.
LEMMA MediaProperties ==
    ASSUME NEW media \in Media
    PROVE  media \in Seq(Nat) /\ Len(media) \in Nat /\ Len(media) <= MaxMedia
BY Bounds, BoundedSeqs DEF Media

\* Zeros, byte by byte.
LEMMA ZerosProperties ==
    ASSUME NEW n \in Nat
    PROVE  /\ Zeros(n) \in Seq(Nat) /\ Len(Zeros(n)) = n
           /\ \A i \in 1..n : Zeros(n)[i] = 0
BY DEF Zeros

\* The two bytes of a number.
LEMMA TwoBytes ==
    ASSUME NEW n \in Nat, n <= MAX_LENGTH
    PROVE  /\ High(n) \in Nat /\ n % 256 \in Nat
           /\ Uint16(High(n), n % 256) = n
<1>1. PICK q \in Nat : q = n \div 256
  OBVIOUS
<1>2. PICK r \in Nat : r = n % 256 /\ n = 256 * q + r
  BY <1>1
<1>3. q < 256
  BY <1>2, SMT DEF MAX_LENGTH
<1>4. High(n) = q
  BY <1>1, <1>3 DEF High
<1> QED
  BY <1>2, <1>4 DEF Uint16

\* An extension is its header of four bytes, which names its words, and the words.
LEMMA ExtensionProperties ==
    ASSUME NEW w \in Words, w <= MAX_LENGTH
    PROVE  /\ Extension(w) \in Seq(Nat)
           /\ Len(Extension(w)) = 4 + 4 * w
           /\ Uint16(Extension(w)[3], Extension(w)[4]) = w
<1>1. w \in Nat
  BY Bounds
<1> DEFINE h == <<190, 222, High(w), w % 256>>
<1>2. h \in Seq(Nat) /\ Len(h) = 4 /\ h[3] = High(w) /\ h[4] = w % 256
  BY <1>1, TwoBytes
<1>3. PICK n \in Nat : n = 4 * w
  BY <1>1
<1>4. Zeros(n) \in Seq(Nat) /\ Len(Zeros(n)) = n
  BY ZerosProperties
<1>5. Extension(w) = h \o Zeros(n)
  BY <1>3 DEF Extension
<1> HIDE DEF h
<1>6. NatsJoined(Extension(w), h, 4, Zeros(n), n)
  <2>1. h \in Seq(Nat) /\ Len(h) = 4
    BY <1>2
  <2> QED
    BY <1>4, <1>5, <2>1, JoinNats
<1>7. Extension(w) \in Seq(Nat) /\ Len(Extension(w)) = 4 + n
  BY <1>6 DEF NatsJoined, Joined
<1>8. Extension(w)[3] = h[3] /\ Extension(w)[4] = h[4]
  BY <1>6 DEF NatsJoined, Joined
<1>9. Uint16(h[3], h[4]) = w
  BY <1>1, <1>2, TwoBytes
<1> QED
  BY <1>3, <1>7, <1>8, <1>9

\* The parts of a packing, and that any media fit beside them.
LEMMA PackingProperties ==
    ASSUME NEW p \in Packings
    PROVE  /\ p.csrc \in Contributors /\ p.csrc \in Nat /\ p.csrc < 16
           /\ p.padding \in Paddings /\ p.padding \in Nat
           /\ p.extension \in Seq(Nat) /\ Len(p.extension) \in Nat
           /\ p.extension = <<>> \/ \E w \in Words : w <= MAX_LENGTH /\ p.extension = Extension(w)
           /\ 14 + 4 * p.csrc + Len(p.extension) + MaxMedia + p.padding <= MAX_LENGTH
<1>1. p.csrc \in Contributors /\ p.padding \in Paddings
      /\ (p.extension = <<>> \/ \E w \in Words : p.extension = Extension(w))
  BY DEF Packings
<1>2. MaxMedia \in Nat /\ MAX_LENGTH \in Nat
  BY Bounds
<1>3. CASE p.extension = <<>>
  <2>1. /\ p.csrc \in Nat /\ p.csrc < 16 /\ p.padding \in Nat
        /\ 18 + 4 * p.csrc + MaxMedia + p.padding <= MAX_LENGTH
    BY <1>1, Limits
  <2>2. p.extension \in Seq(Nat) /\ Len(p.extension) = 0
    BY <1>3
  <2>3. PICK i \in Nat, j \in Nat, k \in Nat, m \in Nat :
            i = p.csrc /\ j = p.padding /\ k = MaxMedia /\ m = MAX_LENGTH
    BY <1>2, <2>1
  <2>4. 18 + 4 * i + k + j <= m
    BY <2>1, <2>3
  <2>5. 14 + 4 * i + 0 + k + j <= m
    BY <2>4
  <2> QED
    BY <1>1, <1>3, <2>1, <2>2, <2>3, <2>5
<1>4. ASSUME NEW w \in Words, p.extension = Extension(w)
      PROVE  /\ p.extension \in Seq(Nat) /\ Len(p.extension) = 4 + 4 * w
             /\ w \in Nat /\ w <= MAX_LENGTH
             /\ 18 + 4 * p.csrc + 4 * w + MaxMedia + p.padding <= MAX_LENGTH
  <2>1. /\ w \in Nat /\ p.csrc \in Nat /\ p.padding \in Nat
        /\ 18 + 4 * p.csrc + 4 * w + MaxMedia + p.padding <= MAX_LENGTH
    BY <1>1, Limits
  <2>2. w <= MAX_LENGTH
    BY <1>2, <2>1
  <2> QED
    BY <1>4, <2>1, <2>2, ExtensionProperties
<1>5. p.csrc \in Nat /\ p.csrc < 16 /\ p.padding \in Nat
  BY <1>1, Limits
<1>6. CASE \E w \in Words : p.extension = Extension(w)
  <2>1. PICK w \in Words : p.extension = Extension(w)
    BY <1>6
  <2>2. PICK l \in Nat : l = 4 + 4 * w
    BY <1>4, <2>1
  <2>3. p.extension \in Seq(Nat) /\ Len(p.extension) = l
    BY <1>4, <2>1, <2>2
  <2>4. 14 + 4 * p.csrc + l + MaxMedia + p.padding <= MAX_LENGTH
    <3>1. PICK i \in Nat, j \in Nat, k \in Nat, v \in Nat, m \in Nat :
              /\ i = p.csrc /\ j = p.padding /\ k = MaxMedia /\ v = w /\ m = MAX_LENGTH
      BY <1>2, <1>4, <1>5, <2>1
    <3>2. 18 + 4 * i + 4 * v + k + j <= m /\ l = 4 + 4 * v
      BY <1>4, <2>1, <2>2, <3>1
    <3>3. 14 + 4 * i + l + k + j <= m
      BY <3>2
    <3> QED
      BY <3>1, <3>3
  <2> QED
    BY <1>1, <1>4, <1>5, <2>1, <2>3, <2>4
<1>7. p.extension = <<>> \/ \E w \in Words : w <= MAX_LENGTH /\ p.extension = Extension(w)
  BY <1>1, <1>4
<1> QED
  BY <1>1, <1>3, <1>6, <1>7

\* A packet, part by part.
FirstByte(p) == 128 + (IF p.padding > 0 THEN 32 ELSE 0)
                    + (IF p.extension # <<>> THEN 16 ELSE 0) + p.csrc

Start(p) == 12 + 4 * p.csrc + Len(p.extension)

PacketOf(packet, p, media, h, s, n) ==
    /\ packet \in Seq(Nat)
    /\ Len(packet) = s + 2 + n + p.padding
    /\ packet[1] = FirstByte(p)
    /\ \A k \in Nat : h < k /\ k <= s => packet[k] = p.extension[k - h]
    /\ packet[s + 1] = LOCAL_FRAGMENT_MARKER
    /\ packet[s + 2] = 128
    /\ \A k \in Nat : s + 2 < k /\ k <= s + 2 + n => packet[k] = media[k - (s + 2)]
    /\ p.padding > 0 => packet[s + 2 + n + p.padding] = p.padding

\* Where the parts of an RTP packet lie, for any packing and any media.
LEMMA PacketProperties ==
    ASSUME NEW p \in Packings, NEW media \in Media, NEW packet, packet = RtpPacket(p, media),
           NEW h, h = 12 + 4 * p.csrc, NEW s, s = Start(p), NEW n, n = Len(media)
    PROVE  PacketOf(packet, p, media, h, s, n)
<1> DEFINE a == <<FirstByte(p)>>
           b == Zeros(11 + 4 * p.csrc)
           c == p.extension
           d == <<LOCAL_FRAGMENT_MARKER, 128>>
           e == IF p.padding = 0 THEN <<>> ELSE Zeros(p.padding - 1) \o <<p.padding>>
           ab == a \o b
           abc == ab \o c
           abcd == abc \o d
           abcdm == abcd \o media
<1>1. packet = abcdm \o e
  BY DEF RtpPacket, FirstByte
<1>2. /\ p.csrc \in Nat /\ p.padding \in Nat /\ c \in Seq(Nat) /\ Len(c) \in Nat
      /\ media \in Seq(Nat) /\ n \in Nat
  BY PackingProperties, MediaProperties
<1>3. h \in Nat /\ s \in Nat /\ h >= 12
  <2>1. PICK i \in Nat, j \in Nat : i = p.csrc /\ j = Len(c)
    BY <1>2
  <2>2. h = 12 + 4 * i /\ s = 12 + 4 * i + j
    BY <2>1 DEF Start
  <2> QED
    BY <2>2
<1>4. PICK z \in Nat : z = 11 + 4 * p.csrc
  BY <1>2
<1>5. a \in Seq(Nat) /\ Len(a) = 1 /\ a[1] = FirstByte(p)
  BY <1>2 DEF FirstByte
<1>6. b \in Seq(Nat) /\ Len(b) = z
  BY <1>4, ZerosProperties
<1>7. d \in Seq(Nat) /\ Len(d) = 2 /\ d[1] = LOCAL_FRAGMENT_MARKER /\ d[2] = 128
  BY DEF LOCAL_FRAGMENT_MARKER
<1>8. e \in Seq(Nat) /\ Len(e) = p.padding /\ (p.padding > 0 => e[p.padding] = p.padding)
  <2>1. CASE p.padding = 0
    BY <2>1
  <2>2. CASE p.padding > 0
    <3> DEFINE l == <<p.padding>>
    <3>1. PICK y \in Nat : y = p.padding - 1
      BY <1>2, <2>2
    <3>2. Zeros(y) \in Seq(Nat) /\ Len(Zeros(y)) = y
      BY ZerosProperties
    <3>3. l \in Seq(Nat) /\ Len(l) = 1 /\ l[1] = p.padding
      BY <1>2
    <3>4. e = Zeros(y) \o l
      BY <2>2, <3>1
    <3> HIDE DEF l, e
    <3>5. NatsJoined(e, Zeros(y), y, l, 1)
      BY <3>2, <3>3, <3>4, JoinNats
    <3>6. e \in Seq(Nat) /\ Len(e) = p.padding
      BY <1>2, <3>1, <3>5 DEF NatsJoined, Joined
    <3>7. e[y + 1] = l[1]
      BY <3>5, SecondPart DEF NatsJoined
    <3>8. p.padding = y + 1
      BY <1>2, <3>1
    <3> QED
      BY <3>3, <3>6, <3>7, <3>8
  <2> QED
    BY <1>2, <2>1, <2>2
<1> HIDE DEF a, b, d, e
<1>9. NatsJoined(ab, a, 1, b, z)
  BY <1>5, <1>6, JoinNats
<1> HIDE DEF ab
<1>10. ab \in Seq(Nat) /\ Len(ab) = h /\ ab[1] = FirstByte(p)
  <2>1. h = 1 + z
    BY <1>2, <1>4
  <2> QED
    BY <1>5, <1>9, <2>1 DEF NatsJoined, Joined
<1>11. PICK x \in Nat : x = Len(c) /\ s = h + x
  BY <1>2 DEF Start
<1>12. NatsJoined(abc, ab, h, c, x)
  BY <1>2, <1>3, <1>10, <1>11, JoinNats
<1> HIDE DEF abc
<1>13. abc \in Seq(Nat) /\ Len(abc) = s
  BY <1>3, <1>11, <1>12 DEF NatsJoined, Joined
<1>14. NatsJoined(abcd, abc, s, d, 2)
  <2>1. d \in Seq(Nat) /\ Len(d) = 2
    BY <1>7
  <2> QED
    BY <1>3, <1>13, <2>1, JoinNats
<1> HIDE DEF abcd
<1>15. PICK t \in Nat : t = s + 2
  BY <1>3
<1>16. abcd \in Seq(Nat) /\ Len(abcd) = t
  BY <1>14, <1>15 DEF NatsJoined, Joined
<1>17. NatsJoined(abcdm, abcd, t, media, n)
  BY <1>2, <1>16, JoinNats
<1> HIDE DEF abcdm
<1>18. PICK u \in Nat : u = t + n
  BY <1>2
<1>19. abcdm \in Seq(Nat) /\ Len(abcdm) = u
  BY <1>17, <1>18 DEF NatsJoined, Joined
<1>20. NatsJoined(packet, abcdm, u, e, p.padding)
  BY <1>1, <1>2, <1>8, <1>19, JoinNats
<1>21. ASSUME NEW k \in Nat, 1 <= k, k <= u
       PROVE  packet[k] = abcdm[k]
  BY <1>20, <1>21 DEF NatsJoined, Joined
<1>22. ASSUME NEW k \in Nat, 1 <= k, k <= t
       PROVE  packet[k] = abcd[k]
  <2>1. abcdm[k] = abcd[k]
    BY <1>17, <1>22 DEF NatsJoined, Joined
  <2>2. k <= u
    BY <1>2, <1>18, <1>22
  <2> QED
    BY <1>21, <1>22, <2>1, <2>2
<1>23. ASSUME NEW k \in Nat, 1 <= k, k <= s
       PROVE  packet[k] = abc[k]
  <2>1. abcd[k] = abc[k]
    BY <1>14, <1>23 DEF NatsJoined, Joined
  <2> QED
    BY <1>3, <1>15, <1>22, <1>23, <2>1
<1>24. packet \in Seq(Nat) /\ Len(packet) = s + 2 + n + p.padding
  BY <1>15, <1>18, <1>20 DEF NatsJoined, Joined
<1>25. packet[1] = FirstByte(p)
  <2>1. abc[1] = ab[1]
    BY <1>3, <1>12 DEF NatsJoined, Joined
  <2>2. 1 <= s
    BY <1>3, <1>11
  <2>3. packet[1] = abc[1]
    BY <1>23, <2>2
  <2> QED
    BY <1>10, <2>1, <2>3
<1>26. ASSUME NEW k \in Nat, h < k, k <= s
       PROVE  packet[k] = p.extension[k - h]
  <2>1. abc[k] = c[k - h]
    BY <1>3, <1>11, <1>12, <1>26 DEF NatsJoined, Joined
  <2> QED
    BY <1>3, <1>23, <1>26, <2>1
<1>27. packet[s + 1] = LOCAL_FRAGMENT_MARKER /\ packet[s + 2] = 128
  <2>1. ASSUME NEW k \in Nat, 1 <= k, k <= 2
        PROVE  abcd[s + k] = d[k]
    <3>1. PICK j \in Nat : j = s + k
      BY <1>3
    <3>2. s < j /\ j <= s + 2 /\ j - s = k
      BY <1>3, <2>1, <3>1
    <3>3. abcd[j] = d[j - s]
      BY <1>14, <3>2 DEF NatsJoined, Joined
    <3> QED
      BY <3>1, <3>2, <3>3
  <2>2. packet[s + 1] = abcd[s + 1] /\ packet[s + 2] = abcd[s + 2]
    BY <1>3, <1>15, <1>22
  <2> QED
    BY <1>7, <2>1, <2>2
<1>28. ASSUME NEW k \in Nat, s + 2 < k, k <= s + 2 + n
       PROVE  packet[k] = media[k - (s + 2)]
  <2>1. abcdm[k] = media[k - t]
    BY <1>15, <1>17, <1>28 DEF NatsJoined, Joined
  <2> QED
    BY <1>15, <1>18, <1>21, <1>28, <2>1
<1>29. ASSUME p.padding > 0
       PROVE  packet[s + 2 + n + p.padding] = p.padding
  <2>1. PICK w \in Nat : w = p.padding /\ 1 <= w
    BY <1>2, <1>29
  <2>2. packet[u + w] = e[w]
    <3>1. PICK j \in Nat : j = u + w
      OBVIOUS
    <3>2. u < j /\ j <= u + p.padding /\ j - u = w
      BY <1>2, <2>1, <3>1
    <3>3. packet[j] = e[j - u]
      BY <1>20, <3>2 DEF NatsJoined, Joined
    <3> QED
      BY <3>1, <3>2, <3>3
  <2>3. s + 2 + n + p.padding = u + w
    BY <1>2, <1>3, <1>15, <1>18, <2>1
  <2> QED
    BY <1>8, <1>29, <2>1, <2>2, <2>3
<1> QED
  BY <1>24, <1>25, <1>26, <1>27, <1>28, <1>29 DEF PacketOf

\* What rtp_payload() reads in a packet's first byte is how it was packed.
LEMMA FirstByteFlags ==
    ASSUME NEW p \in Packings, NEW f, f = FirstByte(p)
    PROVE  /\ f \in Nat /\ f % 16 = p.csrc /\ f \div 64 = 2
           /\ (f \div 16) % 2 = 1 <=> p.extension # <<>>
           /\ (f \div 32) % 2 = 1 <=> p.padding > 0
<1>1. PICK c \in Nat : c = p.csrc /\ c < 16
  BY PackingProperties
<1>2. CASE p.padding > 0 /\ p.extension # <<>>
  <2>1. f = 176 + c
    BY <1>1, <1>2 DEF FirstByte
  <2>2. /\ f \in Nat /\ f % 16 = c /\ f \div 64 = 2
        /\ (f \div 16) % 2 = 1 /\ (f \div 32) % 2 = 1
    <3>1. f = 16 * 11 + c
      BY <2>1
    <3>2. f \in Nat /\ f % 16 = c /\ f \div 16 = 11 /\ f \div 32 = 11 \div 2 /\ f \div 64 = 2
      BY <1>1, <3>1
    <3> QED
      BY <3>2
  <2> QED
    BY <1>1, <1>2, <2>2
<1>3. CASE p.padding > 0 /\ p.extension = <<>>
  <2>1. f = 160 + c
    BY <1>1, <1>3 DEF FirstByte
  <2>2. /\ f \in Nat /\ f % 16 = c /\ f \div 64 = 2
        /\ (f \div 16) % 2 = 0 /\ (f \div 32) % 2 = 1
    <3>1. f = 16 * 10 + c
      BY <2>1
    <3>2. f \in Nat /\ f % 16 = c /\ f \div 16 = 10 /\ f \div 32 = 10 \div 2 /\ f \div 64 = 2
      BY <1>1, <3>1
    <3> QED
      BY <3>2
  <2> QED
    BY <1>1, <1>3, <2>2
<1>4. CASE ~ (p.padding > 0) /\ p.extension # <<>>
  <2>1. f = 144 + c
    BY <1>1, <1>4 DEF FirstByte
  <2>2. /\ f \in Nat /\ f % 16 = c /\ f \div 64 = 2
        /\ (f \div 16) % 2 = 1 /\ (f \div 32) % 2 = 0
    <3>1. f = 16 * 9 + c
      BY <2>1
    <3>2. f \in Nat /\ f % 16 = c /\ f \div 16 = 9 /\ f \div 32 = 9 \div 2 /\ f \div 64 = 2
      BY <1>1, <3>1
    <3> QED
      BY <3>2
  <2> QED
    BY <1>1, <1>4, <2>2
<1>5. CASE ~ (p.padding > 0) /\ p.extension = <<>>
  <2>1. f = 128 + c
    BY <1>1, <1>5 DEF FirstByte
  <2>2. /\ f \in Nat /\ f % 16 = c /\ f \div 64 = 2
        /\ (f \div 16) % 2 = 0 /\ (f \div 32) % 2 = 0
    <3>1. f = 16 * 8 + c
      BY <2>1
    <3>2. f \in Nat /\ f % 16 = c /\ f \div 16 = 8 /\ f \div 32 = 8 \div 2 /\ f \div 64 = 2
      BY <1>1, <3>1
    <3> QED
      BY <3>2
  <2> QED
    BY <1>1, <1>5, <2>2
<1> QED
  BY <1>2, <1>3, <1>4, <1>5

\* What rtp_payload() finds in a packet's header.
LEMMA HeaderOf ==
    ASSUME NEW p \in Packings, NEW media \in Media, NEW packet, packet = RtpPacket(p, media)
    PROVE  /\ FixedEnd(packet) = 12 + 4 * p.csrc
           /\ HasExtension(packet) <=> p.extension # <<>>
           /\ HasPadding(packet) <=> p.padding > 0
           /\ RtpStart(packet) = Start(p)
           /\ HeaderFits(packet)
<1> DEFINE h == 12 + 4 * p.csrc
           s == Start(p)
           n == Len(media)
<1>1. /\ packet[1] = FirstByte(p)
      /\ Len(packet) = s + 2 + n + p.padding
      /\ \A k \in Nat : h < k /\ k <= s => packet[k] = p.extension[k - h]
  <2>1. PacketOf(packet, p, media, h, s, n)
    BY PacketProperties
  <2> QED
    BY <2>1 DEF PacketOf
<1>2. /\ p.csrc \in Nat /\ p.padding \in Nat /\ p.extension \in Seq(Nat) /\ Len(p.extension) \in Nat
      /\ p.extension = <<>> \/ \E w \in Words : w <= MAX_LENGTH /\ p.extension = Extension(w)
  BY PackingProperties
<1>3. n \in Nat /\ h \in Nat /\ h >= 12 /\ s \in Nat /\ s = h + Len(p.extension)
  <2>1. n \in Nat
    BY MediaProperties
  <2>2. PICK c \in Nat, x \in Nat : c = p.csrc /\ x = Len(p.extension)
    BY <1>2
  <2>3. h = 12 + 4 * c /\ s = 12 + 4 * c + x
    BY <2>2 DEF Start
  <2> QED
    BY <2>1, <2>2, <2>3
<1>4. FixedEnd(packet) = h
  BY <1>1, FirstByteFlags DEF FixedEnd
<1>5. HasExtension(packet) <=> p.extension # <<>>
  BY <1>1, FirstByteFlags DEF HasExtension
<1>6. HasPadding(packet) <=> p.padding > 0
  BY <1>1, FirstByteFlags DEF HasPadding
<1>7. packet[1] \div 64 = 2
  BY <1>1, FirstByteFlags
<1> HIDE DEF h, s, n
<1>8. ASSUME p.extension # <<>>
      PROVE  s = h + 4 + 4 * ExtensionWords(packet) /\ ExtensionWords(packet) \in Nat
  <2>1. PICK w \in Words : w <= MAX_LENGTH /\ p.extension = Extension(w)
    BY <1>2, <1>8
  <2>2. w \in Nat
    BY Bounds
  <2>3. PICK l \in Nat : l = 4 + 4 * w
    BY <2>2
  <2>4. Len(p.extension) = l
    BY <2>1, <2>3, ExtensionProperties
  <2>5. s = h + l
    BY <1>3, <2>4
  <2>6. packet[h + 3] = p.extension[3] /\ packet[h + 4] = p.extension[4]
    <3>1. ASSUME NEW i \in Nat, 1 <= i, i <= l
          PROVE  packet[h + i] = p.extension[i]
      <4>1. PICK k \in Nat : k = h + i
        BY <1>3
      <4>2. h < k /\ k <= s /\ k - h = i
        BY <1>3, <2>5, <3>1, <4>1
      <4>3. packet[k] = p.extension[k - h]
        BY <1>1, <4>2
      <4> QED
        BY <4>1, <4>2, <4>3
    <3>2. 4 <= l
      BY <2>2, <2>3
    <3> QED
      BY <3>1, <3>2
  <2>7. ExtensionWords(packet) = w
    BY <1>4, <2>1, <2>6, ExtensionProperties DEF ExtensionWords
  <2> QED
    BY <1>3, <2>2, <2>3, <2>5, <2>7
<1>9. RtpStart(packet) = s
  <2>1. CASE p.extension = <<>>
    <3>1. s = h
      BY <1>3, <2>1
    <3> QED
      BY <1>3, <1>4, <1>5, <2>1, <3>1 DEF RtpStart
  <2>2. CASE p.extension # <<>>
    BY <1>3, <1>4, <1>5, <1>8, <2>2 DEF RtpStart
  <2> QED
    BY <2>1, <2>2
<1>10. HeaderFits(packet)
  <2>1. PICK l \in Nat : l = s + 2 + n + p.padding
    BY <1>2, <1>3
  <2>2. Len(packet) = l /\ l >= s /\ l >= h /\ l >= 12
    BY <1>1, <1>2, <1>3, <2>1
  <2>3. p.extension # <<>> => l >= h + 4
    BY <1>3, <1>8, <2>2
  <2> QED
    BY <1>4, <1>5, <1>7, <1>9, <2>2, <2>3 DEF HeaderFits
<1> QED
  BY <1>4, <1>5, <1>6, <1>9, <1>10 DEF h, s

\* rtp_payload() gives the marker and the media, whatever the packing, and
\* strip_local_fragment_header() the media alone.
LEMMA PayloadOf ==
    ASSUME NEW p \in Packings, NEW media \in Media, NEW packet, packet = RtpPacket(p, media)
    PROVE  /\ rtp_payload(packet) # Broken
           /\ strip_local_fragment_header(rtp_payload(packet)) = media
<1> DEFINE s == Start(p)
           n == Len(media)
           payload == SubSeq(packet, RtpStart(packet) + 1, Len(packet))
<1>1. /\ packet \in Seq(Nat)
      /\ Len(packet) = s + 2 + n + p.padding
      /\ packet[s + 1] = LOCAL_FRAGMENT_MARKER
      /\ \A k \in Nat : s + 2 < k /\ k <= s + 2 + n => packet[k] = media[k - (s + 2)]
      /\ p.padding > 0 => packet[s + 2 + n + p.padding] = p.padding
  <2>1. PICK x : x = 12 + 4 * p.csrc
    OBVIOUS
  <2>2. PacketOf(packet, p, media, x, s, n)
    BY <2>1, PacketProperties
  <2> QED
    BY <2>2 DEF PacketOf
<1>2. PICK w \in Nat : w = p.padding
  BY PackingProperties
<1>3. media \in Seq(Nat) /\ n \in Nat /\ s \in Nat
  <2>1. media \in Seq(Nat) /\ n \in Nat
    BY MediaProperties
  <2>2. PICK c \in Nat, x \in Nat : c = p.csrc /\ x = Len(p.extension)
    BY PackingProperties
  <2>3. s = 12 + 4 * c + x
    BY <2>2 DEF Start
  <2> QED
    BY <2>1, <2>3
<1>4. HeaderFits(packet) /\ RtpStart(packet) = s /\ (HasPadding(packet) <=> w > 0)
  BY <1>2, HeaderOf
<1> HIDE DEF s, n
<1>0. /\ Len(packet) = s + 2 + n + w
      /\ w > 0 => packet[s + 2 + n + w] = w
  BY <1>1, <1>2
<1>5. PICK l \in Nat : l = 2 + n + w /\ s + 2 + n + w = s + l
  BY <1>3
<1>6. NatsCut(payload, packet, s, l)
  <2>1. PICK t \in Nat : t = s + l /\ Len(packet) = t
    BY <1>0, <1>3, <1>5
  <2>2. packet \in Seq(Nat) /\ payload = SubSeq(packet, s + 1, t)
    BY <1>1, <1>4, <2>1
  <2> HIDE DEF payload
  <2>3. PICK i \in Nat : i = s + 1
    BY <1>3
  <2>4. s + l <= Len(packet) /\ payload = SubSeq(packet, i, t)
    BY <1>3, <2>1, <2>2, <2>3
  <2> QED
    BY <1>3, <2>1, <2>2, <2>3, <2>4, CutNats
<1> HIDE DEF payload
<1>7. PICK q : /\ q = rtp_payload(packet)
              /\ NatsCut(q, packet, s, 2 + n)
  <2>1. CASE w = 0
    <3>1. ~ HasPadding(packet)
      BY <1>4, <2>1
    <3>2. rtp_payload(packet) = payload
      BY <1>4, <3>1, Zenon DEF rtp_payload, payload
    <3> QED
      BY <1>3, <1>5, <1>6, <2>1, <3>2
  <2>2. CASE w > 0
    <3>0. 1 <= l
      BY <1>3, <1>5, <2>2
    <3>1. payload \in Seq(Nat) /\ Len(payload) = l
      BY <1>6 DEF NatsCut, CutOf
    <3>2. Last(payload) = w
      <4>1. payload[l] = packet[s + l]
        BY <1>6, <3>0 DEF NatsCut, CutOf
      <4>2. packet[s + l] = w
        BY <1>0, <1>5, <2>2
      <4> QED
        BY <3>1, <4>1, <4>2 DEF Last
    <3>3. payload # <<>> /\ w \in 1..l
      <4>1. w \in 1..l
        BY <1>3, <1>5, <2>2
      <4>2. payload # <<>>
        BY <3>0, <3>1
      <4> QED
        BY <4>1, <4>2
    <3>4. rtp_payload(packet) = SubSeq(payload, 1, l - w)
      BY <1>4, <2>2, <3>1, <3>2, <3>3 DEF rtp_payload, payload, Unpad
    <3>5. PICK i \in Nat : i = 2 + n /\ l - w = 0 + i /\ 0 + i <= l
      BY <1>2, <1>3, <1>5
    <3>6. NatsCut(rtp_payload(packet), payload, 0, i)
      <4>1. PICK j \in Nat : j = i
        OBVIOUS
      <4>2. rtp_payload(packet) = SubSeq(payload, 1, j) /\ j = 0 + i /\ 1 = 0 + 1
        BY <3>4, <3>5, <4>1
      <4>3. 0 + i <= Len(payload) /\ 0 \in Nat
        BY <3>1, <3>5
      <4> QED
        BY <3>1, <4>2, <4>3, CutNats
    <3>7. ASSUME NEW k \in Nat, 1 <= k, k <= i
          PROVE  rtp_payload(packet)[k] = packet[s + k]
      BY <1>6, <3>5, <3>6, <3>7 DEF NatsCut, CutOf
    <3> QED
      BY <3>5, <3>6, <3>7 DEF NatsCut, CutOf
  <2> QED
    BY <1>2, <2>1, <2>2
<1>8. q \in Seq(Nat) /\ Len(q) = 2 + n /\ q[1] = LOCAL_FRAGMENT_MARKER
  BY <1>1, <1>3, <1>7 DEF NatsCut, CutOf
<1>9. q # Broken
  BY <1>8 DEF Broken, LOCAL_FRAGMENT_MARKER
<1>10. strip_local_fragment_header(q) = SubSeq(q, 3, 2 + n)
  BY <1>3, <1>8 DEF strip_local_fragment_header
<1>11. PICK r : r = SubSeq(q, 3, 2 + n) /\ NatsCut(r, q, 2, n)
  <2>1. PICK t \in Nat : t = 2 + n
    BY <1>3
  <2>2. PICK r : r = SubSeq(q, 3, t)
    OBVIOUS
  <2>3. 2 + n <= Len(q) /\ 3 = 2 + 1 /\ 2 \in Nat
    BY <1>3, <1>8
  <2>4. NatsCut(r, q, 2, n)
    BY <1>3, <1>8, <2>1, <2>2, <2>3, CutNats
  <2> QED
    BY <2>1, <2>2, <2>4
<1>12. r = media
  <2>1. r \in Seq(Nat) /\ Len(r) = n
    BY <1>11 DEF NatsCut, CutOf
  <2>2. ASSUME NEW k \in Nat, 1 <= k, k <= n
        PROVE  r[k] = media[k]
    <3>1. PICK j \in Nat : j = 2 + k
      OBVIOUS
    <3>2. r[k] = q[j]
      BY <1>11, <2>2, <3>1 DEF NatsCut, CutOf
    <3>3. q[j] = packet[s + j]
      BY <1>3, <1>7, <2>2, <3>1 DEF NatsCut, CutOf
    <3>4. PICK i \in Nat : i = s + j
      BY <1>3
    <3>5. s + 2 < i /\ i <= s + 2 + n /\ i - (s + 2) = k
      BY <1>3, <2>2, <3>1, <3>4
    <3>6. packet[i] = media[i - (s + 2)]
      BY <1>1, <3>5
    <3> QED
      BY <3>2, <3>3, <3>4, <3>5, <3>6
  <2> QED
    BY <1>3, <2>1, <2>2 DEF n
<1> QED
  BY <1>7, <1>9, <1>10, <1>11, <1>12

\* A packet as it is sent: f bytes without a '$', the header of four, the packet of l.
ChunkOf(chunk, media, f, l) ==
    /\ chunk \in Seq(Nat)
    /\ Len(chunk) = f + 4 + l
    /\ \A k \in Nat : 1 <= k /\ k <= f => chunk[k] # RTP_INTERLEAVED_MAGIC
    /\ chunk[f + 1] = RTP_INTERLEAVED_MAGIC
    /\ Uint16(chunk[f + 3], chunk[f + 4]) = l
    /\ \E p \in Packings : \E packet : /\ packet = RtpPacket(p, media)
                                       /\ packet \in Seq(Nat) /\ Len(packet) = l
                                       /\ \A k \in Nat : 1 <= k /\ k <= l =>
                                              chunk[f + 4 + k] = packet[k]

\* Whatever precedes a packet, and however it is packed, the reader can tell its length.
LEMMA ChunkProperties ==
    ASSUME NEW media \in Media, NEW chunk \in Chunks(media)
    PROVE  \E f, l \in Nat : ChunkOf(chunk, media, f, l)
<1>1. PICK preface \in Prefaces, p \in Packings :
          chunk = preface \o Interleaved(RtpPacket(p, media))
  BY DEF Chunks
<1>2. PICK packet : packet = RtpPacket(p, media)
  OBVIOUS
<1> DEFINE f == Len(preface)
           l == Len(packet)
           h == <<RTP_INTERLEAVED_MAGIC, 0, High(l), l % 256>>
           hp == h \o packet
<1>3. /\ preface \in Seq(Nat) /\ f \in Nat
      /\ \A k \in Nat : 1 <= k /\ k <= f => preface[k] # RTP_INTERLEAVED_MAGIC
  <2>1. PICK S : S = MediaBytes \ {RTP_INTERLEAVED_MAGIC}
    OBVIOUS
  <2>2. S \subseteq Nat /\ MaxPreface \in Nat /\ preface \in BoundedSeq(S, MaxPreface)
    BY <2>1, Bounds DEF Prefaces
  <2>3. preface \in Seq(Nat) /\ preface \in Seq(S) /\ f \in Nat
    BY <2>2, BoundedSeqs
  <2>4. \A k \in 1..f : preface[k] \in S
    BY <2>3, ElementOfSeq
  <2> QED
    BY <2>1, <2>3, <2>4
<1>4. packet \in Seq(Nat) /\ l \in Nat /\ l <= MAX_LENGTH
  <2>1. packet \in Seq(Nat) /\ l = Start(p) + 2 + Len(media) + p.padding
    <3>1. PICK x, s, n : x = 12 + 4 * p.csrc /\ s = Start(p) /\ n = Len(media)
      OBVIOUS
    <3>2. PacketOf(packet, p, media, x, s, n)
      BY <1>2, <3>1, PacketProperties
    <3> QED
      BY <3>1, <3>2 DEF PacketOf
  <2>2. PICK n \in Nat : n = Len(media) /\ n <= MaxMedia
    BY MediaProperties
  <2>3. PICK x \in Nat : x = Len(p.extension)
    BY PackingProperties
  <2>4. PICK c \in Nat, w \in Nat : /\ c = p.csrc /\ w = p.padding
                                  /\ 14 + 4 * c + x + MaxMedia + w <= MAX_LENGTH
    BY <2>3, PackingProperties
  <2>5. Start(p) = 12 + 4 * c + x
    BY <2>3, <2>4 DEF Start
  <2>6. l = 12 + 4 * c + x + 2 + n + w
    BY <2>1, <2>2, <2>4, <2>5
  <2>7. 12 + 4 * c + x + 2 + n + w <= MAX_LENGTH
    <3>1. PICK m \in Nat, a \in Nat, d \in Nat : m = MaxMedia /\ a = MAX_LENGTH /\ d = 4 * c
      BY Bounds
    <3>2. 14 + d + x + m + w <= a /\ n <= m
      BY <2>2, <2>4, <3>1
    <3>3. 12 + d + x + 2 + n + w <= a
      BY <3>2
    <3> QED
      BY <3>1, <3>3
  <2> QED
    BY <2>1, <2>6, <2>7
<1>5. chunk = preface \o hp
  BY <1>1, <1>2 DEF Interleaved
<1> HIDE DEF f, l
<1>6. /\ h \in Seq(Nat) /\ Len(h) = 4
      /\ h[1] = RTP_INTERLEAVED_MAGIC /\ h[3] = High(l) /\ h[4] = l % 256
  BY <1>4, TwoBytes DEF RTP_INTERLEAVED_MAGIC
<1> HIDE DEF h
<1>7. NatsJoined(hp, h, 4, packet, l)
  <2>1. h \in Seq(Nat) /\ Len(h) = 4 /\ Len(packet) = l
    BY <1>6 DEF l
  <2> QED
    BY <1>4, <2>1, JoinNats
<1> HIDE DEF hp
<1>8. PICK n \in Nat : n = 4 + l
  BY <1>4
<1>9. NatsJoined(chunk, preface, f, hp, n)
  <2>1. Len(preface) = f /\ hp \in Seq(Nat) /\ Len(hp) = n
    BY <1>7, <1>8 DEF NatsJoined, Joined, f
  <2> QED
    BY <1>3, <1>5, <2>1, JoinNats
<1>10. chunk \in Seq(Nat) /\ Len(chunk) = f + 4 + l
  BY <1>3, <1>4, <1>8, <1>9 DEF NatsJoined, Joined
<1>11. ASSUME NEW k \in Nat, 1 <= k, k <= f
       PROVE  chunk[k] # RTP_INTERLEAVED_MAGIC
  BY <1>3, <1>9, <1>11 DEF NatsJoined, Joined
<1>12. ASSUME NEW k \in Nat, 1 <= k, k <= n
       PROVE  chunk[f + k] = hp[k]
  <2>1. PICK j \in Nat : j = f + k
    BY <1>3
  <2>2. f < j /\ j <= f + n /\ j - f = k
    BY <1>3, <1>12, <2>1
  <2>3. chunk[j] = hp[j - f]
    BY <1>9, <2>2 DEF NatsJoined, Joined
  <2> QED
    BY <2>1, <2>2, <2>3
<1>13. ASSUME NEW k \in Nat, 1 <= k, k <= 4
       PROVE  chunk[f + k] = h[k]
  <2>1. hp[k] = h[k]
    BY <1>7, <1>13 DEF NatsJoined, Joined
  <2>2. k <= n
    BY <1>4, <1>8, <1>13
  <2> QED
    BY <1>12, <1>13, <2>1, <2>2
<1>14. /\ chunk[f + 1] = RTP_INTERLEAVED_MAGIC
       /\ Uint16(chunk[f + 3], chunk[f + 4]) = l
  BY <1>4, <1>6, <1>13, TwoBytes
<1>15. ASSUME NEW k \in Nat, 1 <= k, k <= l
       PROVE  chunk[f + 4 + k] = packet[k]
  <2>1. PICK j \in Nat : j = 4 + k
    OBVIOUS
  <2>2. 4 < j /\ j <= 4 + l /\ j - 4 = k /\ 1 <= j /\ j <= n /\ f + 4 + k = f + j
    BY <1>3, <1>4, <1>8, <1>15, <2>1
  <2>3. hp[j] = packet[j - 4]
    BY <1>7, <2>2 DEF NatsJoined, Joined
  <2>4. chunk[f + j] = hp[j]
    BY <1>12, <2>2
  <2> QED
    BY <2>2, <2>3, <2>4
<1>16. ChunkOf(chunk, media, f, l)
  <2>1. packet = RtpPacket(p, media) /\ packet \in Seq(Nat) /\ Len(packet) = l
    BY <1>2, <1>4 DEF l
  <2>2. \E q \in Packings : \E x : /\ x = RtpPacket(q, media) /\ x \in Seq(Nat) /\ Len(x) = l
                                  /\ \A k \in Nat : 1 <= k /\ k <= l => chunk[f + 4 + k] = x[k]
    BY <1>15, <2>1
  <2> QED
    BY <1>10, <1>11, <1>14, <2>2 DEF ChunkOf
<1> QED
  BY <1>3, <1>4, <1>16

\* chunk lies in bytes after the first m.
Carries(bytes, m, chunk) ==
    /\ m + Len(chunk) <= Len(bytes)
    /\ \A k \in Nat : 1 <= k /\ k <= Len(chunk) => bytes[m + k] = chunk[k]

\* The reader finds the packet that comes first and takes it whole.
LEMMA FirstChunk ==
    ASSUME NEW bytes \in Seq(Nat), NEW media, NEW chunk, NEW f \in Nat, NEW l \in Nat,
           ChunkOf(chunk, media, f, l), Carries(bytes, 0, chunk)
    PROVE  /\ RTP_INTERLEAVED_MAGIC \in Range(bytes)
           /\ Frame(bytes) = [first |-> f + 5, last |-> f + 4 + l]
           /\ f + 4 + l <= Len(bytes)
           /\ \E p \in Packings : SubSeq(bytes, f + 5, f + 4 + l) = RtpPacket(p, media)
<1>1. PICK n \in Nat : n = f + 4 + l
  OBVIOUS
<1>2. n <= Len(bytes) /\ \A k \in Nat : 1 <= k /\ k <= n => bytes[k] = chunk[k]
  <2>1. Len(chunk) = n
    BY <1>1 DEF ChunkOf
  <2>2. \A k \in Nat : 0 + k = k
    OBVIOUS
  <2> QED
    BY <2>1, <2>2 DEF Carries
<1>3. \A k \in Nat : 1 <= k /\ k <= f => bytes[k] # RTP_INTERLEAVED_MAGIC
  <2> SUFFICES ASSUME NEW k \in Nat, 1 <= k, k <= f
               PROVE  bytes[k] # RTP_INTERLEAVED_MAGIC
    OBVIOUS
  <2>1. k <= n
    BY <1>1
  <2>2. bytes[k] = chunk[k]
    BY <1>2, <2>1
  <2>3. chunk[k] # RTP_INTERLEAVED_MAGIC
    BY DEF ChunkOf
  <2> QED
    BY <2>2, <2>3
<1>4. /\ bytes[f + 1] = chunk[f + 1] /\ bytes[f + 3] = chunk[f + 3]
      /\ bytes[f + 4] = chunk[f + 4]
  <2>1. PICK i \in Nat, j \in Nat, k \in Nat : i = f + 1 /\ j = f + 3 /\ k = f + 4
    OBVIOUS
  <2>2. 1 <= i /\ i <= n /\ 1 <= j /\ j <= n /\ 1 <= k /\ k <= n
    BY <1>1, <2>1
  <2>3. bytes[i] = chunk[i] /\ bytes[j] = chunk[j] /\ bytes[k] = chunk[k]
    BY <1>2, <2>2
  <2> QED
    BY <2>1, <2>3
<1>5. bytes[f + 1] = RTP_INTERLEAVED_MAGIC /\ Uint16(bytes[f + 3], bytes[f + 4]) = l
  BY <1>4 DEF ChunkOf
<1> DEFINE S == {i \in 1..Len(bytes) : bytes[i] = RTP_INTERLEAVED_MAGIC}
<1>6. f + 1 \in 1..Len(bytes)
  BY <1>1, <1>2
<1>7. Min(S) = f + 1
  <2>1. S \in SUBSET Nat /\ f + 1 \in S
    BY <1>5, <1>6
  <2>2. ASSUME NEW y \in S
        PROVE  f + 1 <= y
    BY <1>3
  <2> HIDE DEF S
  <2> QED
    BY <2>1, <2>2, LeastIs
<1>8. RTP_INTERLEAVED_MAGIC \in Range(bytes)
  BY <1>5, <1>6 DEF Range
<1>9. Frame(bytes) = [first |-> f + 5, last |-> f + 4 + l]
  <2>1. Frame(bytes) = [first |-> Min(S) + 4,
                        last |-> Min(S) + 3 + Uint16(bytes[Min(S) + 2], bytes[Min(S) + 3])]
    BY DEF Frame
  <2>2. /\ (f + 1) + 4 = f + 5 /\ (f + 1) + 2 = f + 3 /\ (f + 1) + 3 = f + 4
        /\ (f + 1) + 3 + l = f + 4 + l
    OBVIOUS
  <2> HIDE DEF S
  <2>3. Frame(bytes) = [first |-> (f + 1) + 4,
                        last |-> (f + 1) + 3 + Uint16(bytes[(f + 1) + 2], bytes[(f + 1) + 3])]
    BY <1>7, <2>1, Zenon
  <2> QED
    BY <1>5, <2>2, <2>3
<1>10. PICK p \in Packings : \E packet :
           /\ packet = RtpPacket(p, media)
           /\ packet \in Seq(Nat) /\ Len(packet) = l
           /\ \A k \in Nat : 1 <= k /\ k <= l => chunk[f + 4 + k] = packet[k]
  BY DEF ChunkOf
<1> DEFINE packet == RtpPacket(p, media)
<1>13. /\ packet \in Seq(Nat) /\ Len(packet) = l
       /\ \A k \in Nat : 1 <= k /\ k <= l => chunk[f + 4 + k] = packet[k]
  BY <1>10
<1> HIDE DEF packet
<1>11. PICK r : r = SubSeq(bytes, f + 5, f + 4 + l) /\ NatsCut(r, bytes, f + 4, l)
  <2>1. PICK a \in Nat, i \in Nat : a = f + 4 /\ i = f + 5 /\ i = a + 1
    OBVIOUS
  <2>2. PICK r : r = SubSeq(bytes, i, n)
    OBVIOUS
  <2>3. a + l <= Len(bytes) /\ n = a + l
    BY <1>1, <1>2, <2>1
  <2>4. NatsCut(r, bytes, a, l)
    BY <2>1, <2>2, <2>3, CutNats
  <2> QED
    BY <1>1, <2>1, <2>2, <2>4
<1>12. r = packet
  <2>1. r \in Seq(Nat) /\ Len(r) = l
    BY <1>11 DEF NatsCut, CutOf
  <2>2. ASSUME NEW k \in Nat, 1 <= k, k <= l
        PROVE  r[k] = packet[k]
    <3>1. PICK j \in Nat : j = f + 4 + k
      OBVIOUS
    <3>2. 1 <= j /\ j <= n
      BY <1>1, <2>2, <3>1
    <3>3. r[k] = bytes[j] /\ bytes[j] = chunk[j] /\ chunk[j] = packet[k]
      BY <1>2, <1>13, <1>11, <2>2, <3>1, <3>2 DEF NatsCut, CutOf
    <3> QED
      BY <3>3
  <2> QED
    BY <1>13, <2>1, <2>2
<1> QED
  BY <1>1, <1>2, <1>8, <1>9, <1>11, <1>12 DEF packet

\* Bytes that follow leave those that are there in their places.
LEMMA CarriesMore ==
    ASSUME NEW bytes \in Seq(Nat), NEW chunk \in Seq(Nat), NEW r, r = bytes \o chunk
    PROVE  /\ Carries(r, Len(bytes), chunk)
           /\ \A c \in Seq(Nat), m \in Nat : Carries(bytes, m, c) => Carries(r, m, c)
<1>1. PICK n \in Nat, l \in Nat : n = Len(bytes) /\ l = Len(chunk)
  OBVIOUS
<1>2. NatsJoined(r, bytes, n, chunk, l)
  BY <1>1, JoinNats
<1>3. Len(r) = n + l
  BY <1>2 DEF NatsJoined, Joined
<1>4. Carries(r, n, chunk)
  BY <1>1, <1>2, <1>3, SecondPart DEF NatsJoined, Carries
<1>5. ASSUME NEW c \in Seq(Nat), NEW m \in Nat, Carries(bytes, m, c)
      PROVE  Carries(r, m, c)
  <2>1. PICK x \in Nat : x = Len(c)
    OBVIOUS
  <2>2. m + x <= n
    BY <1>1, <1>5, <2>1 DEF Carries
  <2>3. ASSUME NEW k \in Nat, 1 <= k, k <= x
        PROVE  r[m + k] = c[k]
    <3>1. PICK j \in Nat : j = m + k
      OBVIOUS
    <3>2. 1 <= j /\ j <= n
      BY <2>2, <2>3, <3>1
    <3>3. r[j] = bytes[j]
      BY <1>2, <3>2 DEF NatsJoined, Joined
    <3>4. bytes[j] = c[k]
      BY <1>5, <2>1, <2>3, <3>1 DEF Carries
    <3> QED
      BY <3>1, <3>3, <3>4
  <2>4. m + x <= n + l
    BY <2>2
  <2> QED
    BY <1>3, <2>1, <2>3, <2>4 DEF Carries
<1> QED
  BY <1>1, <1>4, <1>5

\* Once the first a bytes are read, the others lie by a closer to the beginning.
LEMMA CarriesRest ==
    ASSUME NEW bytes \in Seq(Nat), NEW a \in Nat, a <= Len(bytes),
           NEW r, r = SubSeq(bytes, a + 1, Len(bytes)),
           NEW chunk \in Seq(Nat), NEW m \in Nat, a <= m, Carries(bytes, m, chunk)
    PROVE  Carries(r, m - a, chunk)
<1>1. PICK n \in Nat, x \in Nat : n = Len(bytes) - a /\ x = Len(chunk)
  <2>1. Len(bytes) - a \in Nat /\ Len(chunk) \in Nat
    OBVIOUS
  <2> QED
    BY <2>1
<1>2. NatsCut(r, bytes, a, n)
  <2>1. PICK z \in Nat, i \in Nat : z = Len(bytes) /\ i = a + 1
    OBVIOUS
  <2>2. z = a + n /\ a + n <= Len(bytes) /\ r = SubSeq(bytes, i, z)
    BY <1>1, <2>1
  <2> QED
    BY <2>1, <2>2, CutNats
<1>3. PICK d \in Nat : d = m - a
  OBVIOUS
<1>4. d + x <= n
  BY <1>1, <1>3 DEF Carries
<1>5. ASSUME NEW k \in Nat, 1 <= k, k <= x
      PROVE  r[d + k] = chunk[k]
  <2>1. PICK i \in Nat : i = d + k
    BY <1>3
  <2>2. 1 <= i /\ i <= n /\ a + i = m + k
    BY <1>3, <1>4, <1>5, <2>1
  <2>3. r[i] = bytes[a + i]
    BY <1>2, <2>2 DEF NatsCut, CutOf
  <2>4. bytes[m + k] = chunk[k]
    BY <1>1, <1>5 DEF Carries
  <2> QED
    BY <2>1, <2>2, <2>3, <2>4
<1> QED
  BY <1>1, <1>2, <1>3, <1>4, <1>5 DEF Carries, NatsCut, CutOf

-----------------------------------------------------------------------------
(* The invariant.                                                          *)

\* mark says where the packets of the media s[g + 1], ..., s[g + n] end in bytes.
Marks(bytes, s, g, n, mark) ==
    /\ mark \in [0..n -> Nat]
    /\ mark[0] = 0
    /\ mark[n] = Len(bytes)
    /\ \A j, k \in 0..n : j <= k => mark[j] <= mark[k]
    /\ \A k \in 1..n : \E chunk \in Chunks(s[g + k]) :
           mark[k] = mark[k - 1] + Len(chunk) /\ Carries(bytes, mark[k - 1], chunk)

\* The bytes to come are the packets of the media not yet read, one after the other.
PacketInv ==
    /\ reader = "reading"
    /\ wire \in Seq(Nat)
    /\ sent \in Seq(Media)
    /\ got \in Seq(Media)
    /\ Len(got) <= Len(sent)
    /\ \A k \in 1..Len(got) : got[k] = sent[k]
    /\ \E mark : Marks(wire, sent, Len(got), Len(sent) - Len(got), mark)

\* Another packet sent ends where the bytes end.
LEMMA MarksSent ==
    ASSUME NEW bytes \in Seq(Nat), NEW s \in Seq(Media), NEW g \in Nat, NEW n \in Nat,
           g + n = Len(s), NEW mark, Marks(bytes, s, g, n, mark),
           NEW media \in Media, NEW chunk \in Chunks(media),
           NEW r, r = bytes \o chunk, NEW t, t = Append(s, media)
    PROVE  \E m : Marks(r, t, g, n + 1, m)
<1>1. PICK b \in Nat, l \in Nat, e \in Nat : b = Len(bytes) /\ l = Len(chunk) /\ e = n + 1
  <2>1. chunk \in Seq(Nat)
    BY ChunkProperties DEF ChunkOf
  <2> QED
    BY <2>1
<1>2. /\ chunk \in Seq(Nat) /\ Len(r) = b + l
      /\ Carries(r, b, chunk)
      /\ \A c \in Seq(Nat), m \in Nat : Carries(bytes, m, c) => Carries(r, m, c)
  <2>1. chunk \in Seq(Nat)
    BY ChunkProperties DEF ChunkOf
  <2>2. /\ Carries(r, Len(bytes), chunk)
        /\ \A c \in Seq(Nat), m \in Nat : Carries(bytes, m, c) => Carries(r, m, c)
    BY <1>1, <2>1, CarriesMore
  <2>3. NatsJoined(r, bytes, b, chunk, l)
    BY <1>1, <2>1, JoinNats
  <2>4. Len(r) = b + l
    BY <2>3 DEF NatsJoined, Joined
  <2> QED
    BY <1>1, <2>1, <2>2, <2>4
<1>3. t[g + e] = media /\ \A k \in 1..n : t[g + k] = s[g + k]
  BY <1>1
<1> DEFINE m == [k \in 0..e |-> IF k <= n THEN mark[k] ELSE b + l]
<1>4. /\ \A k \in 0..n : mark[k] \in Nat
      /\ mark[0] = 0 /\ mark[n] = b
      /\ \A j, k \in 0..n : j <= k => mark[j] <= mark[k]
  BY <1>1 DEF Marks
<1>5. \A k \in 0..n : m[k] = mark[k]
  BY <1>1
<1>6. m[e] = b + l
  BY <1>1
<1>7. m \in [0..e -> Nat]
  BY <1>1, <1>4
<1> HIDE DEF m
<1>8. \A k \in 0..n : mark[k] <= b + l
  BY <1>4
<1>9. ASSUME NEW j \in 0..e, NEW k \in 0..e, j <= k
      PROVE  m[j] <= m[k]
  <2>1. CASE k = e
    <3>1. CASE j = e
      BY <1>1, <1>6, <2>1, <3>1
    <3>2. CASE j # e
      BY <1>1, <1>5, <1>6, <1>8, <2>1, <3>2
    <3> QED
      BY <3>1, <3>2
  <2>2. CASE k # e
    <3>1. j \in 0..n /\ k \in 0..n
      BY <1>1, <1>9, <2>2
    <3> QED
      BY <1>4, <1>5, <1>9, <3>1
  <2> QED
    BY <2>1, <2>2
<1>10. ASSUME NEW k \in 1..e
       PROVE  \E c \in Chunks(t[g + k]) :
                  m[k] = m[k - 1] + Len(c) /\ Carries(r, m[k - 1], c)
  <2>1. CASE k = e
    <3>1. m[k] = b + l /\ m[k - 1] = b /\ t[g + k] = media
      BY <1>1, <1>3, <1>4, <1>5, <1>6, <2>1
    <3> QED
      BY <1>1, <1>2, <3>1
  <2>2. CASE k # e
    <3>1. k \in 1..n /\ k \in 0..n /\ k - 1 \in 0..n
      BY <1>1, <2>2
    <3>2. PICK c \in Chunks(s[g + k]) :
              mark[k] = mark[k - 1] + Len(c) /\ Carries(bytes, mark[k - 1], c)
      BY <3>1 DEF Marks
    <3>3. t[g + k] = s[g + k] /\ m[k] = mark[k] /\ m[k - 1] = mark[k - 1]
      BY <1>3, <1>5, <3>1
    <3>4. s[g + k] \in Media
      <4>1. g + k \in 1..Len(s)
        BY <3>1
      <4> QED
        BY <4>1
    <3>5. c \in Seq(Nat)
      BY <3>4, ChunkProperties DEF ChunkOf
    <3>6. Carries(r, mark[k - 1], c)
      BY <1>2, <1>4, <3>1, <3>2, <3>5
    <3> QED
      BY <3>2, <3>3, <3>6
  <2> QED
    BY <2>1, <2>2
<1>11. m[0] = 0 /\ m[e] = Len(r)
  BY <1>2, <1>4, <1>5, <1>6
<1>12. Marks(r, t, g, e, m)
  BY <1>7, <1>9, <1>10, <1>11 DEF Marks
<1> QED
  BY <1>1, <1>12

\* When the first packet is read, the others still end where they did, by its length closer.
LEMMA MarksRead ==
    ASSUME NEW bytes \in Seq(Nat), NEW s \in Seq(Media), NEW g \in Nat, NEW n \in Nat,
           g + n = Len(s), 1 <= n, NEW mark, Marks(bytes, s, g, n, mark),
           NEW r, r = SubSeq(bytes, mark[1] + 1, Len(bytes))
    PROVE  \E m : Marks(r, s, g + 1, n - 1, m)
<1>1. /\ \A k \in 0..n : mark[k] \in Nat
      /\ mark[0] = 0 /\ mark[n] = Len(bytes)
      /\ \A j, k \in 0..n : j <= k => mark[j] <= mark[k]
  BY DEF Marks
<1>2. 1 \in 0..n /\ n \in 0..n
  OBVIOUS
<1>3. PICK a \in Nat, e \in Nat, h \in Nat :
          /\ a = mark[1] /\ e = n - 1 /\ h = g + 1
          /\ r = SubSeq(bytes, a + 1, Len(bytes))
  <2>1. mark[1] \in Nat /\ n - 1 \in Nat /\ g + 1 \in Nat
    BY <1>1, <1>2
  <2> QED
    BY <2>1
<1>4. a <= Len(bytes) /\ \A k \in 1..n : a <= mark[k]
  BY <1>1, <1>2, <1>3, SMTT(30)
<1> DEFINE m == [k \in 0..e |-> mark[k + 1] - a]
<1>5. \A k \in 0..e : /\ k + 1 \in 0..n /\ k + 1 \in 1..n
                      /\ m[k] = mark[k + 1] - a /\ m[k] \in Nat
  BY <1>1, <1>3, <1>4, SMTT(30)
<1>6. m \in [0..e -> Nat]
  BY <1>5
<1> HIDE DEF m
<1>7. m[0] = 0
  <2>1. 0 \in 0..e /\ 0 + 1 = 1
    BY <1>3
  <2>2. m[0] = mark[1] - a
    BY <1>5, <2>1
  <2> QED
    BY <1>3, <2>2
<1>8. m[e] = Len(bytes) - a
  <2>1. e \in 0..e /\ e + 1 = n
    BY <1>3
  <2> QED
    BY <1>1, <1>5, <2>1
<1>9. Len(r) = Len(bytes) - a
  <2>1. PICK y \in Nat, i \in Nat : y = Len(bytes) /\ i = a + 1
    OBVIOUS
  <2>2. a <= y
    BY <1>4, <2>1
  <2>3. PICK x \in Nat : x = y - a /\ y = a + x
    <3>1. y - a \in Nat /\ y = a + (y - a)
      BY <2>2
    <3> QED
      BY <3>1
  <2>4. a + x <= Len(bytes) /\ r = SubSeq(bytes, i, y)
    BY <1>3, <2>1, <2>3
  <2>5. NatsCut(r, bytes, a, x)
    BY <2>1, <2>3, <2>4, CutNats
  <2> QED
    BY <2>1, <2>3, <2>5 DEF NatsCut, CutOf
<1>10. ASSUME NEW j \in 0..e, NEW k \in 0..e, j <= k
       PROVE  m[j] <= m[k]
  <2>0. j + 1 \in 0..n /\ k + 1 \in 0..n /\ j + 1 <= k + 1
    BY <1>5, <1>10
  <2>1. mark[j + 1] <= mark[k + 1]
    BY <1>1, <2>0
  <2>2. mark[j + 1] \in Nat /\ mark[k + 1] \in Nat
    BY <1>1, <1>5
  <2> QED
    BY <1>5, <2>1, <2>2, SMTT(30)
<1>11. ASSUME NEW k \in 1..e
       PROVE  \E c \in Chunks(s[h + k]) :
                  m[k] = m[k - 1] + Len(c) /\ Carries(r, m[k - 1], c)
  <2>1. PICK i \in 1..n : i = k + 1 /\ i - 1 = k /\ i - 1 \in 1..n /\ i - 1 \in 0..n
    BY <1>3
  <2>2. PICK c \in Chunks(s[g + i]) :
            mark[i] = mark[i - 1] + Len(c) /\ Carries(bytes, mark[i - 1], c)
    BY DEF Marks
  <2>3. h + k = g + i
    BY <1>3, <2>1
  <2>4. k \in 0..e /\ k - 1 \in 0..e /\ (k - 1) + 1 = k
    OBVIOUS
  <2>5. m[k] = mark[i] - a /\ m[k - 1] = mark[i - 1] - a
    BY <1>5, <2>1, <2>4
  <2>6. c \in Seq(Nat)
    <3>1. g + i \in 1..Len(s)
      OBVIOUS
    <3>2. s[g + i] \in Media
      BY <3>1
    <3> QED
      BY <3>2, ChunkProperties DEF ChunkOf
  <2>7. Carries(r, mark[i - 1] - a, c)
    BY <1>1, <1>3, <1>4, <2>1, <2>2, <2>6, CarriesRest
  <2>8. m[k] = m[k - 1] + Len(c)
    <3>0. i \in 0..n /\ mark[i] \in Nat /\ mark[i - 1] \in Nat /\ Len(c) \in Nat
      BY <1>1, <2>1, <2>6
    <3>1. PICK x \in Nat, y \in Nat, z \in Nat : x = mark[i] /\ y = mark[i - 1] /\ z = Len(c)
      BY <3>0
    <3>2. x = y + z
      BY <2>2, <3>1
    <3>3. m[k] = x - a /\ m[k - 1] = y - a
      BY <2>5, <3>1
    <3>4. x - a = (y - a) + z
      BY <3>2
    <3> QED
      BY <3>1, <3>3, <3>4
  <2> QED
    BY <2>2, <2>3, <2>5, <2>7, <2>8
<1>12. Marks(r, s, h, e, m)
  BY <1>6, <1>7, <1>8, <1>9, <1>10, <1>11 DEF Marks
<1> QED
  BY <1>3, <1>12

\* Nothing sent, nothing on the wire.
THEOREM PacketInitially == PacketInit => PacketInv
<1> SUFFICES ASSUME PacketInit
             PROVE  PacketInv
  OBVIOUS
<1> USE DEF PacketInit
<1>1. Len(wire) = 0 /\ Len(sent) = 0 /\ Len(got) = 0
  OBVIOUS
<1> DEFINE mark == [k \in 0..0 |-> 0]
<1>2. Marks(wire, sent, 0, 0, mark)
  BY <1>1 DEF Marks
<1>3. Len(sent) - Len(got) = 0
  BY <1>1
<1>4. \E m : Marks(wire, sent, Len(got), Len(sent) - Len(got), m)
  BY <1>1, <1>2, <1>3
<1> QED
  BY <1>1, <1>4 DEF PacketInv

\* Sending a packet and reading one keep the invariant.
THEOREM PacketStep == PacketInv /\ [PacketNext]_packetVars => PacketInv'
<1> SUFFICES ASSUME PacketInv, [PacketNext]_packetVars
             PROVE  PacketInv'
  OBVIOUS
<1>1. /\ reader = "reading" /\ wire \in Seq(Nat)
      /\ sent \in Seq(Media) /\ got \in Seq(Media)
      /\ Len(got) <= Len(sent) /\ \A k \in 1..Len(got) : got[k] = sent[k]
  BY DEF PacketInv
<1>2. PICK g \in Nat, n \in Nat : g = Len(got) /\ g + n = Len(sent) /\ n = Len(sent) - Len(got)
  <2>1. PICK x \in Nat, y \in Nat : x = Len(got) /\ y = Len(sent) /\ x <= y
    BY <1>1
  <2>2. y - x \in Nat /\ x + (y - x) = y
    BY <2>1
  <2> QED
    BY <2>1, <2>2
<1>3. PICK mark : Marks(wire, sent, g, n, mark)
  BY <1>2 DEF PacketInv
<1>4. CASE CameraSends
  <2>0. PICK media \in Media : \E chunk \in Chunks(media) :
            wire' = wire \o chunk /\ sent' = Append(sent, media)
    BY <1>4 DEF CameraSends
  <2>1. PICK chunk \in Chunks(media) : wire' = wire \o chunk /\ sent' = Append(sent, media)
    BY <2>0
  <2>2. got' = got /\ reader' = reader
    BY <1>4 DEF CameraSends
  <2>3. chunk \in Seq(Nat)
    BY ChunkProperties DEF ChunkOf
  <2>4. wire' \in Seq(Nat)
    BY <1>1, <2>1, <2>3
  <2>5. /\ sent' \in Seq(Media) /\ Len(sent') = g + n + 1
        /\ \A k \in 1..g : sent'[k] = sent[k]
    BY <1>1, <1>2, <2>1
  <2>6. PICK m : Marks(wire', sent', g, n + 1, m)
    BY <1>1, <1>2, <1>3, <2>1, MarksSent
  <2>7. Len(got') = g /\ Len(sent') - Len(got') = n + 1 /\ Len(got') <= Len(sent')
    BY <1>2, <2>2, <2>5
  <2>8. \E m1 : (Marks(wire, sent, Len(got), Len(sent) - Len(got), m1))'
    BY <2>6, <2>7
  <2>9. \A k \in 1..Len(got') : got'[k] = sent'[k]
    BY <1>1, <1>2, <2>2, <2>5
  <2> QED
    BY <1>1, <2>2, <2>4, <2>5, <2>7, <2>8, <2>9 DEF PacketInv
<1>5. CASE ReadFrame
  <2>1. /\ mark \in [0..n -> Nat] /\ mark[0] = 0 /\ mark[n] = Len(wire)
        /\ \A k \in 1..n : \E chunk \in Chunks(sent[g + k]) :
               mark[k] = mark[k - 1] + Len(chunk) /\ Carries(wire, mark[k - 1], chunk)
    BY <1>3 DEF Marks
  <2>2. 1 <= n
    <3>1. Len(wire) # 0
      BY <1>1, <1>5 DEF ReadFrame, Range
    <3> QED
      BY <2>1, <3>1
  <2>3. PICK media : media = sent[g + 1] /\ media \in Media
    <3>1. g + 1 \in 1..Len(sent)
      BY <1>2, <2>2
    <3> QED
      BY <1>1, <3>1
  <2>4. PICK chunk \in Chunks(media) : mark[1] = Len(chunk) /\ Carries(wire, 0, chunk)
    <3>1. 1 \in 1..n /\ 1 - 1 = 0
      BY <2>2
    <3>2. PICK c \in Chunks(media) : mark[1] = mark[0] + Len(c) /\ Carries(wire, mark[0], c)
      BY <2>1, <2>3, <3>1
    <3>3. c \in Seq(Nat)
      BY <2>3, ChunkProperties DEF ChunkOf
    <3> QED
      BY <2>1, <3>2, <3>3
  <2>5. PICK f \in Nat, l \in Nat : ChunkOf(chunk, media, f, l)
    BY <2>3, ChunkProperties
  <2>6. PICK e \in Nat : e = f + 4 + l /\ mark[1] = e
    BY <2>4, <2>5 DEF ChunkOf
  <2>7. /\ Frame(wire) = [first |-> f + 5, last |-> e]
        /\ \E p \in Packings : SubSeq(wire, f + 5, e) = RtpPacket(p, media)
    <3>1. /\ Frame(wire) = [first |-> f + 5, last |-> f + 4 + l]
          /\ \E p \in Packings : SubSeq(wire, f + 5, f + 4 + l) = RtpPacket(p, media)
      BY <1>1, <2>4, <2>5, FirstChunk, ZenonT(30)
    <3> QED
      BY <2>6, <3>1, Zenon
  <2>8. PICK p \in Packings : SubSeq(wire, f + 5, e) = RtpPacket(p, media)
    BY <2>7
  <2> DEFINE payload == rtp_payload(SubSeq(wire, Frame(wire).first, Frame(wire).last))
  <2>9. payload # Broken /\ strip_local_fragment_header(payload) = media
    <3>0. Frame(wire).first = f + 5 /\ Frame(wire).last = e
      BY <2>7
    <3>1. payload = rtp_payload(RtpPacket(p, media))
      BY <2>8, <3>0, Zenon
    <3>2. PICK packet : packet = RtpPacket(p, media)
      OBVIOUS
    <3>3. /\ rtp_payload(packet) # Broken
          /\ strip_local_fragment_header(rtp_payload(packet)) = media
      BY <2>3, <3>2, PayloadOf
    <3> QED
      BY <3>1, <3>2, <3>3, Zenon
  <2>10. /\ got' = Append(got, media) /\ reader' = reader /\ sent' = sent
         /\ wire' = SubSeq(wire, e + 1, Len(wire))
    BY <1>5, <2>7, <2>9 DEF ReadFrame
  <2>11. /\ got' \in Seq(Media) /\ Len(got') = g + 1
         /\ got'[g + 1] = media /\ \A k \in 1..g : got'[k] = got[k]
    BY <1>1, <1>2, <2>3, <2>10
  <2>12. wire' \in Seq(Nat)
    BY <1>1, <2>10
  <2>13. PICK m : Marks(wire', sent', g + 1, n - 1, m)
    BY <1>1, <1>2, <1>3, <2>2, <2>6, <2>10, MarksRead
  <2>14. Len(sent') - Len(got') = n - 1 /\ Len(got') <= Len(sent')
    BY <1>2, <2>2, <2>10, <2>11
  <2>15. \E m1 : (Marks(wire, sent, Len(got), Len(sent) - Len(got), m1))'
    BY <2>11, <2>13, <2>14
  <2>16. \A k \in 1..Len(got') : got'[k] = sent'[k]
    BY <1>1, <1>2, <2>3, <2>10, <2>11
  <2> QED
    BY <1>1, <2>10, <2>11, <2>12, <2>14, <2>15, <2>16 DEF PacketInv
<1>6. CASE UNCHANGED packetVars
  BY <1>6 DEF PacketInv, packetVars
<1> QED
  BY <1>4, <1>5, <1>6 DEF PacketNext

\* The bytes to come are whole packets throughout.
THEOREM PacketInvariance == PacketSpec => []PacketInv
<1>1. PacketInit => PacketInv
  BY PacketInitially
<1>2. PacketInv /\ [PacketNext]_packetVars => PacketInv'
  BY PacketStep
<1> QED
  BY <1>1, <1>2, PTL DEF PacketSpec

\* The reader never fails and gives the media sent, in order and exactly: one length is
\* enough to find the next packet, whatever bytes precede it and whatever it holds.
THEOREM MediaStayInStep == PacketSpec => []MediaInStep
<1>1. PacketInv => MediaInStep
  <2> SUFFICES ASSUME PacketInv
               PROVE  MediaInStep
    OBVIOUS
  <2>1. /\ reader = "reading" /\ sent \in Seq(Media) /\ got \in Seq(Media)
        /\ Len(got) <= Len(sent) /\ \A k \in 1..Len(got) : got[k] = sent[k]
    BY DEF PacketInv
  <2>2. PICK g \in Nat : g = Len(got) /\ g <= Len(sent)
    BY <2>1
  <2>3. PICK r : r = SubSeq(sent, 1, g)
    OBVIOUS
  <2>4. r \in Seq(Media) /\ Len(r) = g /\ \A k \in 1..g : r[k] = sent[k]
    BY <2>1, <2>2, <2>3
  <2>5. got = r
    BY <2>1, <2>2, <2>4
  <2> QED
    BY <2>1, <2>2, <2>3, <2>5 DEF MediaInStep
<1> QED
  BY <1>1, PacketInvariance, PTL

-----------------------------------------------------------------------------
(* HikImage: whole blocks.                                                 *)

\* Different multiples are a whole B apart.
LEMMA Multiples ==
    ASSUME NEW B \in Nat, B > 0, NEW p \in Nat, NEW q \in Nat, p < q
    PROVE  p * B + B <= q * B
<1>1. PICK d \in Nat : q = p + 1 + d
  <2>1. q - p - 1 \in Nat /\ q = p + 1 + (q - p - 1)
    OBVIOUS
  <2> QED
    BY <2>1
<1>2. q * B = p * B + B + d * B
  BY <1>1
<1>3. d * B >= 0
  OBVIOUS
<1>4. p * B \in Nat /\ d * B \in Nat
  OBVIOUS
<1> QED
  BY <1>2, <1>3, <1>4

\* m is n rounded down to whole blocks.
Rounded(m, n, B) == m = n - (n % B)

\* A number below size + B, rounded down to blocks, is at most size; and it is size, or at
\* least a block less.
LEMMA Rounding ==
    ASSUME NEW B \in Nat, B > 0, NEW n \in Nat, NEW m, Rounded(m, n, B),
           NEW size \in Nat, \E b \in Nat : size = b * B
    PROVE  /\ m \in Nat /\ m <= n
           /\ n < size + B => m <= size
           /\ n = size => m = size
           /\ m < size => m + B <= size
<1>0. PICK b \in Nat : size = b * B
  OBVIOUS
<1>1. PICK q \in Nat, r \in Nat : q = n \div B /\ r = n % B /\ n = B * q + r /\ r < B
  OBVIOUS
<1>2. m = q * B /\ m \in Nat
  BY <1>1 DEF Rounded
<1>3. q < b => m + B <= size
  BY <1>0, <1>2, Multiples
<1>4. b < q => size + B <= m
  BY <1>0, <1>2, Multiples
<1>5. q = b => m = size
  BY <1>0, <1>2
<1>6. m <= n
  BY <1>1, <1>2
<1> QED
  BY <1>1, <1>2, <1>3, <1>4, <1>5, <1>6

-----------------------------------------------------------------------------

\* The sizes are positive numbers, and a header is no longer than a block.
LEMMA ImageBounds ==
    /\ Block \in Nat /\ Block > 0 /\ HeaderLen \in Nat /\ HeaderLen > 0
    /\ HashLen \in Nat /\ HashLen > 0 /\ HeaderLen <= Block
    /\ MinLength \in Nat /\ MinLength = HeaderLen + HashLen
    /\ Before \subseteq Nat /\ MaxBlocks \in Nat /\ MaxSegments \in Nat
BY ImageAssumption DEF MinLength

AnyByte ==
    [of : {"before", "header", "hash", "cipher", "plain", "garbage"}, segment : Nat, at : Nat]

\* Bytes, byte by byte.
LEMMA BytesProperties ==
    ASSUME NEW n \in Nat, NEW s \in Nat,
           NEW of \in {"before", "header", "hash", "cipher", "plain", "garbage"}
    PROVE  /\ Bytes(of, s, n) \in Seq(AnyByte)
           /\ Len(Bytes(of, s, n)) = n
           /\ \A k \in Nat : 1 <= k /\ k <= n => Bytes(of, s, n)[k] = Byte(of, s, k)
BY DEF Bytes, Byte, AnyByte

\* Bytes of different parts, segments or places are different.
LEMMA BytesDiffer ==
    ASSUME NEW a, NEW b, NEW s, NEW t, NEW i, NEW j, Byte(a, s, i) = Byte(b, t, j)
    PROVE  a = b /\ s = t /\ i = j
BY DEF Byte

\* Three parts joined, each counted from its own beginning.
LEMMA JoinedThree ==
    ASSUME NEW a \in Nat, NEW b \in Nat, NEW m \in Nat, NEW n \in Nat, m = a + b,
           NEW h, NEW g, NEW hg, NEW c, NEW t, Joined(hg, h, a, g, b), Joined(t, hg, m, c, n)
    PROVE  /\ Len(t) = m + n
           /\ \A k \in Nat : 1 <= k /\ k <= a => t[k] = h[k]
           /\ \A k \in Nat : 1 <= k /\ k <= b => t[a + k] = g[k]
           /\ \A k \in Nat : 1 <= k /\ k <= n => t[m + k] = c[k]
<1>1. Len(t) = m + n
  BY DEF Joined
<1>2. \A k \in Nat : 1 <= k /\ k <= m => t[k] = hg[k]
  BY DEF Joined
<1>3. \A k \in Nat : 1 <= k /\ k <= a => hg[k] = h[k]
  BY DEF Joined
<1>4. \A k \in Nat : 1 <= k /\ k <= n => t[m + k] = c[k]
  BY SecondPart
<1>5. \A k \in Nat : 1 <= k /\ k <= a => t[k] = h[k]
  BY <1>2, <1>3
<1>6. ASSUME NEW k \in Nat, 1 <= k, k <= b
      PROVE  t[a + k] = g[k]
  <2>1. PICK j \in Nat : j = a + k
    OBVIOUS
  <2>2. 1 <= j /\ j <= m
    BY <1>6, <2>1
  <2>3. t[j] = hg[j]
    BY <1>2, <2>2
  <2>4. hg[a + k] = g[k]
    BY <1>6, SecondPart
  <2> QED
    BY <2>1, <2>3, <2>4
<1> QED
  BY <1>1, <1>4, <1>5, <1>6

\* What CameraEncrypts adds: a header, a hash and the cipher.
SegmentOf(t, s, size) ==
    /\ t \in Seq(AnyByte)
    /\ Len(t) = MinLength + size
    /\ \A k \in Nat : 1 <= k /\ k <= HeaderLen => t[k] = Byte("header", 0, k)
    /\ \A k \in Nat : 1 <= k /\ k <= HashLen => t[HeaderLen + k] = Byte("hash", 0, k)
    /\ \A k \in Nat : 1 <= k /\ k <= size => t[MinLength + k] = Byte("cipher", s, k)

\* What CameraEncrypts adds to the picture, byte by byte, has one header, at its beginning.
LEMMA SegmentBytes ==
    ASSUME NEW s \in Nat, NEW size \in Nat
    PROVE  SegmentOf((Header \o Hash) \o Bytes("cipher", s, size), s, size)
<1>1. PICK a \in Nat, b \in Nat, m \in Nat :
          a = HeaderLen /\ b = HashLen /\ m = MinLength /\ m = a + b
  BY ImageBounds
<1>2. PICK h : h = Header
  OBVIOUS
<1>3. PICK g : g = Hash
  OBVIOUS
<1>4. PICK c : c = Bytes("cipher", s, size)
  OBVIOUS
<1>5. PICK hg : hg = h \o g
  OBVIOUS
<1>6. PICK t : t = hg \o c
  OBVIOUS
<1>7. /\ h \in Seq(AnyByte) /\ Len(h) = a
      /\ \A k \in Nat : 1 <= k /\ k <= a => h[k] = Byte("header", 0, k)
  <2>1. PICK z \in Nat : z = 0
    OBVIOUS
  <2>2. h = Bytes("header", z, a)
    BY <1>1, <1>2, <2>1 DEF Header
  <2>3. /\ h \in Seq(AnyByte) /\ Len(h) = a
        /\ \A k \in Nat : 1 <= k /\ k <= a => h[k] = Byte("header", z, k)
    BY <2>2, BytesProperties
  <2> QED
    BY <2>1, <2>3
<1>8. /\ g \in Seq(AnyByte) /\ Len(g) = b
      /\ \A k \in Nat : 1 <= k /\ k <= b => g[k] = Byte("hash", 0, k)
  <2>1. PICK z \in Nat : z = 0
    OBVIOUS
  <2>2. g = Bytes("hash", z, b)
    BY <1>1, <1>3, <2>1 DEF Hash
  <2>3. /\ g \in Seq(AnyByte) /\ Len(g) = b
        /\ \A k \in Nat : 1 <= k /\ k <= b => g[k] = Byte("hash", z, k)
    BY <2>2, BytesProperties
  <2> QED
    BY <2>1, <2>3
<1>9. /\ c \in Seq(AnyByte) /\ Len(c) = size
      /\ \A k \in Nat : 1 <= k /\ k <= size => c[k] = Byte("cipher", s, k)
  BY <1>4, BytesProperties
<1>10. hg \in Seq(AnyByte) /\ Joined(hg, h, a, g, b)
  BY <1>5, <1>7, <1>8, Join
<1>11. Len(hg) = m
  BY <1>1, <1>10 DEF Joined
<1>12. t \in Seq(AnyByte) /\ Joined(t, hg, m, c, size)
  BY <1>6, <1>9, <1>10, <1>11, Join
<1>13. /\ Len(t) = m + size
       /\ \A k \in Nat : 1 <= k /\ k <= a => t[k] = h[k]
       /\ \A k \in Nat : 1 <= k /\ k <= b => t[a + k] = g[k]
       /\ \A k \in Nat : 1 <= k /\ k <= size => t[m + k] = c[k]
  <2>1. m = a + b /\ Joined(hg, h, a, g, b) /\ Joined(t, hg, m, c, size)
    BY <1>1, <1>10, <1>12
  <2> QED
    BY <2>1, JoinedThree
<1>14. SegmentOf(t, s, size)
  BY <1>1, <1>7, <1>8, <1>9, <1>12, <1>13 DEF SegmentOf
<1> QED
  BY <1>2, <1>3, <1>4, <1>5, <1>6, <1>14

-----------------------------------------------------------------------------
(* The picture.                                                            *)

SegmentRecord == [start : Nat, from : Nat, size : Nat, padding : Nat]

\* Where a segment ends in the encrypted picture, and in the original.
EndOf(r) == r.start + MinLength + r.size

UpTo(r) == r.from + r.size - r.padding

\* r is the record of the s-th segment.
SegmentIs(enc, orig, s, r) ==
    /\ \E b \in Nat : b > 0 /\ r.size = b * Block
    /\ 1 <= r.padding /\ r.padding <= Block
    /\ EndOf(r) <= Len(enc)
    /\ UpTo(r) <= Len(orig)
    /\ \A k \in Nat : 1 <= k /\ k <= HeaderLen => enc[r.start + k] = Byte("header", 0, k)
    /\ \A k \in Nat : 1 <= k /\ k <= r.size => enc[r.start + MinLength + k] = Byte("cipher", s, k)
    /\ \A k \in Nat : 1 <= k /\ k <= r.size - r.padding => orig[r.from + k] = Byte("plain", s, k)

\* The segments lie one after the other, and no header lies anywhere else.
Camera(enc, orig, segs) ==
    /\ enc \in Seq(AnyByte) /\ orig \in Seq(AnyByte) /\ segs \in Seq(SegmentRecord)
    /\ \A s \in 1..Len(segs) : SegmentIs(enc, orig, s, segs[s])
    /\ \A s, u \in 1..Len(segs) : s < u => EndOf(segs[s]) <= segs[u].start
    /\ \A s, u \in 1..Len(segs) : u = s + 1 =>
           segs[u].start = EndOf(segs[s]) /\ segs[u].from = UpTo(segs[s])
    /\ \A s \in 1..Len(segs) : s = 1 => segs[s].from = 0
    /\ \A s \in 1..Len(segs) : s = Len(segs) =>
           EndOf(segs[s]) = Len(enc) /\ UpTo(segs[s]) = Len(orig)
    /\ Len(segs) = 0 => Len(orig) = 0
    /\ \A i \in Nat : 1 <= i /\ i <= Len(enc) /\ enc[i] = Byte("header", 0, 1) =>
           \E s \in 1..Len(segs) : i = segs[s].start + 1

\* What Camera says of one segment.
LEMMA CameraSegment ==
    ASSUME NEW enc, NEW orig, NEW segs, Camera(enc, orig, segs), NEW s \in 1..Len(segs)
    PROVE  /\ segs[s] \in SegmentRecord /\ SegmentIs(enc, orig, s, segs[s]) /\ s \in Nat
           /\ enc \in Seq(AnyByte) /\ orig \in Seq(AnyByte)
BY DEF Camera

\* The numbers of a segment's record.
LEMMA RecordNumbers ==
    ASSUME NEW r \in SegmentRecord
    PROVE  /\ r.start \in Nat /\ r.from \in Nat /\ r.size \in Nat /\ r.padding \in Nat
           /\ EndOf(r) \in Nat /\ r.start + MinLength <= EndOf(r)
BY ImageBounds DEF SegmentRecord, EndOf

\* A segment is at least one block long.
LEMMA SizeHoldsPadding ==
    ASSUME NEW b \in Nat, b > 0
    PROVE  Block <= b * Block
<1>1. PICK c \in Nat : b = c + 1
  <2>1. b - 1 \in Nat /\ b = (b - 1) + 1
    OBVIOUS
  <2> QED
    BY <2>1
<1>2. PICK B \in Nat : B = Block
  BY ImageBounds
<1>3. b * B = c * B + B /\ c * B \in Nat
  BY <1>1
<1> QED
  BY <1>2, <1>3

\* s2 begins with all of s.
Longer(s, s2) ==
    /\ Len(s) \in Nat /\ Len(s2) \in Nat /\ Len(s) <= Len(s2)
    /\ \A k \in Nat : 1 <= k /\ k <= Len(s) => s2[k] = s[k]

\* A segment stays where it is when the picture grows.
LEMMA SegmentStays ==
    ASSUME NEW enc, NEW orig, NEW enc2, NEW orig2, Longer(enc, enc2), Longer(orig, orig2),
           NEW s, NEW r \in SegmentRecord, SegmentIs(enc, orig, s, r)
    PROVE  SegmentIs(enc2, orig2, s, r)
<1>0. PICK e \in Nat, o \in Nat, e2 \in Nat, o2 \in Nat :
          e = Len(enc) /\ o = Len(orig) /\ e2 = Len(enc2) /\ o2 = Len(orig2)
  BY DEF Longer
<1>9. /\ e <= e2 /\ \A k \in Nat : 1 <= k /\ k <= e => enc2[k] = enc[k]
      /\ o <= o2 /\ \A k \in Nat : 1 <= k /\ k <= o => orig2[k] = orig[k]
  BY <1>0 DEF Longer
<1>1. PICK a \in Nat, f \in Nat, z \in Nat, p \in Nat, m \in Nat, h \in Nat :
          /\ a = r.start /\ f = r.from /\ z = r.size /\ p = r.padding
          /\ m = MinLength /\ h = HeaderLen /\ h <= m
  <2>1. r.start \in Nat /\ r.from \in Nat /\ r.size \in Nat /\ r.padding \in Nat
    BY RecordNumbers
  <2>2. MinLength \in Nat /\ HeaderLen \in Nat /\ HeaderLen <= MinLength
    BY ImageBounds
  <2> QED
    BY <2>1, <2>2
<1>2. /\ a + m + z <= e /\ f + z - p <= o
      /\ \A k \in Nat : 1 <= k /\ k <= h => enc[a + k] = Byte("header", 0, k)
      /\ \A k \in Nat : 1 <= k /\ k <= z => enc[a + m + k] = Byte("cipher", s, k)
      /\ \A k \in Nat : 1 <= k /\ k <= z - p => orig[f + k] = Byte("plain", s, k)
  BY <1>0, <1>1 DEF SegmentIs, EndOf, UpTo
<1>3. ASSUME NEW k \in Nat, 1 <= k, k <= h
      PROVE  enc2[a + k] = Byte("header", 0, k)
  <2>1. PICK j \in Nat : j = a + k
    OBVIOUS
  <2>2. a + m + z <= e /\ k <= m
    BY <1>1, <1>2, <1>3
  <2>3. 1 <= j /\ j <= e
    BY <1>3, <2>1, <2>2
  <2> QED
    BY <1>2, <1>3, <1>9, <2>1, <2>3
<1>4. ASSUME NEW k \in Nat, 1 <= k, k <= z
      PROVE  enc2[a + m + k] = Byte("cipher", s, k)
  <2>1. PICK j \in Nat : j = a + m + k
    OBVIOUS
  <2>2. 1 <= j /\ j <= e
    BY <1>2, <1>4, <2>1
  <2> QED
    BY <1>2, <1>4, <1>9, <2>1, <2>2
<1>5. ASSUME NEW k \in Nat, 1 <= k, k <= z - p
      PROVE  orig2[f + k] = Byte("plain", s, k)
  <2>1. PICK j \in Nat : j = f + k
    OBVIOUS
  <2>2. 1 <= j /\ j <= o
    BY <1>2, <1>5, <2>1
  <2> QED
    BY <1>2, <1>5, <1>9, <2>1, <2>2
<1>6. a + m + z <= e2 /\ f + z - p <= o2
  BY <1>2, <1>9
<1>7. EndOf(r) <= Len(enc2) /\ UpTo(r) <= Len(orig2)
  BY <1>0, <1>1, <1>6 DEF EndOf, UpTo
<1>8. (\E b \in Nat : b > 0 /\ r.size = b * Block) /\ 1 <= r.padding /\ r.padding <= Block
  BY DEF SegmentIs
<1> QED
  BY <1>1, <1>3, <1>4, <1>5, <1>7, <1>8 DEF SegmentIs

\* A segment is added: enc and orig become enc2 and orig2, r is its record.
Grown(enc, orig, enc2, orig2, s, r) ==
    /\ Longer(enc, enc2) /\ Longer(orig, orig2)
    /\ r \in SegmentRecord
    /\ r.start = Len(enc) /\ r.from = Len(orig)
    /\ EndOf(r) = Len(enc2) /\ UpTo(r) = Len(orig2)
    /\ SegmentIs(enc2, orig2, s, r)
    /\ \A i \in Nat : r.start < i /\ i <= Len(enc2) /\ enc2[i] = Byte("header", 0, 1) =>
           i = r.start + 1

NewPart(e, o, size, padding, l, d, s, t, p) ==
    /\ e \in Nat /\ o \in Nat /\ size \in Nat /\ padding \in Nat /\ l \in Nat /\ d \in Nat
    /\ s \in Nat /\ \E b \in Nat : b > 0 /\ size = b * Block
    /\ 1 <= padding /\ padding <= Block /\ l = MinLength + size /\ d = size - padding
    /\ SegmentOf(t, s, size)
    /\ \A k \in Nat : 1 <= k /\ k <= d => p[k] = Byte("plain", s, k)

\* The segment that is added is where its record says.
LEMMA NewSegment ==
    ASSUME NEW e, NEW o, NEW size, NEW padding, NEW l, NEW d, NEW s, NEW t, NEW p,
           NewPart(e, o, size, padding, l, d, s, t, p),
           NEW enc, NEW orig, NEW enc2, NEW orig2, Len(enc) = e, Len(orig) = o,
           Joined(enc2, enc, e, t, l), Joined(orig2, orig, o, p, d),
           NEW r, r = [start |-> e, from |-> o, size |-> size, padding |-> padding]
    PROVE  Grown(enc, orig, enc2, orig2, s, r)
<1> e \in Nat /\ o \in Nat /\ size \in Nat /\ padding \in Nat /\ l \in Nat /\ d \in Nat /\ s \in Nat
  BY DEF NewPart
<1>0. /\ \E b \in Nat : b > 0 /\ size = b * Block
      /\ 1 <= padding /\ padding <= Block /\ l = MinLength + size /\ d = size - padding
      /\ SegmentOf(t, s, size)
      /\ \A k \in Nat : 1 <= k /\ k <= d => p[k] = Byte("plain", s, k)
  BY DEF NewPart
<1>1. PICK m \in Nat, h \in Nat, g \in Nat :
          m = MinLength /\ h = HeaderLen /\ g = HashLen /\ m = h + g
  BY ImageBounds
<1>5. l = m + size /\ d = size - padding
  BY <1>0, <1>1
<1>6. /\ Len(t) = l
      /\ \A k \in Nat : 1 <= k /\ k <= h => t[k] = Byte("header", 0, k)
      /\ \A k \in Nat : 1 <= k /\ k <= g => t[h + k] = Byte("hash", 0, k)
      /\ \A k \in Nat : 1 <= k /\ k <= size => t[m + k] = Byte("cipher", s, k)
  BY <1>0, <1>1, <1>5 DEF SegmentOf
<1>7. Len(enc2) = e + l /\ Len(orig2) = o + d
  BY DEF Joined
<1>8. \A k \in Nat : 1 <= k /\ k <= l => enc2[e + k] = t[k]
  BY SecondPart
<1>9. \A k \in Nat : 1 <= k /\ k <= d => orig2[o + k] = p[k]
  BY SecondPart
<1>11. /\ r \in SegmentRecord /\ r.start = e /\ r.from = o /\ r.size = size /\ r.padding = padding
  BY DEF SegmentRecord
<1>12. Len(enc2) = EndOf(r) /\ Len(orig2) = UpTo(r)
  <2>1. e + l = e + m + size /\ o + d = o + size - padding
    BY <1>5
  <2> QED
    BY <1>1, <1>7, <1>11, <2>1 DEF EndOf, UpTo
<1>13. ASSUME NEW k \in Nat, 1 <= k, k <= h
       PROVE  enc2[e + k] = Byte("header", 0, k)
  <2>1. k <= l
    BY <1>1, <1>5, <1>13
  <2> QED
    BY <1>6, <1>8, <1>13, <2>1
<1>14. ASSUME NEW k \in Nat, 1 <= k, k <= size
       PROVE  enc2[e + m + k] = Byte("cipher", s, k)
  <2>1. PICK j \in Nat : j = m + k
    OBVIOUS
  <2>2. 1 <= j /\ j <= l /\ e + m + k = e + j
    BY <1>5, <1>14, <2>1
  <2>3. enc2[e + j] = t[j]
    BY <1>8, <2>2
  <2> QED
    BY <1>6, <1>14, <2>1, <2>2, <2>3
<1>15. \A k \in Nat : 1 <= k /\ k <= d => orig2[o + k] = Byte("plain", s, k)
  BY <1>0, <1>9
<1>16. SegmentIs(enc2, orig2, s, r)
  <2>1. EndOf(r) <= Len(enc2) /\ UpTo(r) <= Len(orig2)
    <3>1. PICK x \in Nat, y \in Nat : x = e + l /\ y = o + d
      OBVIOUS
    <3>2. Len(enc2) = x /\ Len(orig2) = y
      BY <1>7, <3>1
    <3>3. EndOf(r) = x /\ UpTo(r) = y
      BY <1>12, <3>2
    <3> QED
      BY <3>2, <3>3
  <2>2. (\E c \in Nat : c > 0 /\ r.size = c * Block) /\ 1 <= r.padding /\ r.padding <= Block
    BY <1>0, <1>11
  <2> QED
    BY <1>1, <1>5, <1>11, <1>13, <1>14, <1>15, <2>1, <2>2 DEF SegmentIs
<1>17. ASSUME NEW i \in Nat, e < i, i <= Len(enc2), enc2[i] = Byte("header", 0, 1)
       PROVE  i = e + 1
  <2>1. PICK j \in Nat : i = e + j /\ 1 <= j /\ j <= l
    <3>1. i - e \in Nat /\ i = e + (i - e) /\ 1 <= i - e /\ i - e <= l
      BY <1>7, <1>17
    <3> QED
      BY <3>1
  <2>2. t[j] = Byte("header", 0, 1)
    BY <1>8, <1>17, <2>1
  <2>3. CASE j <= h
    <3>1. t[j] = Byte("header", 0, j)
      BY <1>6, <2>1, <2>3
    <3>2. j = 1
      BY <2>2, <3>1, BytesDiffer
    <3> QED
      BY <2>1, <3>2
  <2>4. CASE h < j /\ j <= m
    <3>1. PICK k \in Nat : j = h + k /\ 1 <= k /\ k <= g
      <4>1. j - h \in Nat /\ j = h + (j - h) /\ 1 <= j - h /\ j - h <= g
        BY <1>1, <2>4
      <4> QED
        BY <4>1
    <3>2. t[j] = Byte("hash", 0, k)
      BY <1>6, <3>1
    <3> QED
      BY <2>2, <3>2, BytesDiffer
  <2>5. CASE m < j
    <3>1. PICK k \in Nat : j = m + k /\ 1 <= k /\ k <= size
      <4>1. j - m \in Nat /\ j = m + (j - m) /\ 1 <= j - m /\ j - m <= size
        BY <1>5, <2>1, <2>5
      <4> QED
        BY <4>1
    <3>2. t[j] = Byte("cipher", s, k)
      BY <1>6, <3>1
    <3> QED
      BY <2>2, <3>2, BytesDiffer
  <2> QED
    BY <2>3, <2>4, <2>5
<1>18. Longer(enc, enc2) /\ Longer(orig, orig2)
  BY DEF Longer, Joined
<1> QED
  BY <1>11, <1>12, <1>16, <1>17, <1>18 DEF Grown

Appended(segs, segs2, n, s, r) ==
    /\ n \in Nat /\ s \in Nat /\ s = n + 1
    /\ n = Len(segs) /\ Len(segs2) = s
    /\ segs2 \in Seq(SegmentRecord)
    /\ segs2[s] = r
    /\ \A u \in 1..n : segs2[u] = segs[u]

\* With a segment added, the segments still lie one after the other.
LEMMA CameraGrows ==
    ASSUME NEW enc, NEW orig, NEW segs, Camera(enc, orig, segs), NEW enc2, NEW orig2, NEW segs2,
           enc2 \in Seq(AnyByte), orig2 \in Seq(AnyByte), NEW n, NEW s, NEW r,
           Appended(segs, segs2, n, s, r), Grown(enc, orig, enc2, orig2, s, r)
    PROVE  Camera(enc2, orig2, segs2)
<1> n \in Nat /\ s \in Nat /\ s = n + 1 /\ segs2 \in Seq(SegmentRecord)
  BY DEF Appended
<1>15. n = Len(segs) /\ Len(segs2) = s
  BY DEF Appended
<1>0. PICK e \in Nat, o \in Nat : e = Len(enc) /\ o = Len(orig)
  BY DEF Grown, Longer
<1>14. /\ r \in SegmentRecord /\ r.start = e /\ r.from = o
       /\ EndOf(r) = Len(enc2) /\ UpTo(r) = Len(orig2)
       /\ SegmentIs(enc2, orig2, s, r)
       /\ \A i \in Nat : e < i /\ i <= Len(enc2) /\ enc2[i] = Byte("header", 0, 1) => i = e + 1
       /\ \A k \in Nat : 1 <= k /\ k <= e => enc2[k] = enc[k]
       /\ Longer(enc, enc2) /\ Longer(orig, orig2)
  BY <1>0 DEF Grown, Longer
<1>1. /\ segs \in Seq(SegmentRecord)
      /\ \A u \in 1..n : SegmentIs(enc, orig, u, segs[u])
      /\ \A u, v \in 1..n : u < v => EndOf(segs[u]) <= segs[v].start
      /\ \A u, v \in 1..n : v = u + 1 =>
             segs[v].start = EndOf(segs[u]) /\ segs[v].from = UpTo(segs[u])
      /\ \A u \in 1..n : u = 1 => segs[u].from = 0
      /\ \A u \in 1..n : u = n => EndOf(segs[u]) = e /\ UpTo(segs[u]) = o
      /\ n = 0 => o = 0
      /\ \A i \in Nat : 1 <= i /\ i <= e /\ enc[i] = Byte("header", 0, 1) =>
             \E u \in 1..n : i = segs[u].start + 1
  BY <1>0, <1>15 DEF Camera
<1>2. \A u \in 1..n : segs[u] \in SegmentRecord /\ segs[u].start \in Nat /\ EndOf(segs[u]) \in Nat
  <2>1. \A u \in 1..n : segs[u] \in SegmentRecord
    BY <1>1, <1>15
  <2> QED
    BY <2>1, RecordNumbers
<1>3. segs2[s] = r /\ \A u \in 1..n : segs2[u] = segs[u]
  BY DEF Appended
<1>4. 1..s = 1..n \cup {s}
  OBVIOUS
<1>5. \A u \in 1..n : EndOf(segs[u]) <= e
  <2> SUFFICES ASSUME NEW u \in 1..n
               PROVE  EndOf(segs[u]) <= e
    OBVIOUS
  <2>1. CASE u = n
    BY <1>1, <1>2, <2>1
  <2>2. CASE u # n
    <3>1. n \in 1..n /\ u < n
      BY <2>2
    <3>2. EndOf(segs[u]) <= segs[n].start /\ EndOf(segs[n]) = e
      BY <1>1, <3>1
    <3>3. segs[n].start <= EndOf(segs[n])
      <4>1. PICK q \in SegmentRecord : q = segs[n]
        BY <1>2, <3>1
      <4>2. q.start \in Nat /\ EndOf(q) \in Nat /\ q.start + MinLength <= EndOf(q)
        BY RecordNumbers
      <4>3. q.start <= EndOf(q)
        BY <4>2, ImageBounds
      <4> QED
        BY <4>1, <4>3
    <3>4. PICK a \in Nat, b \in Nat : a = EndOf(segs[u]) /\ b = segs[n].start
      BY <1>2, <3>1
    <3> QED
      BY <3>2, <3>3, <3>4
  <2> QED
    BY <2>1, <2>2
<1>6. ASSUME NEW u \in 1..s
      PROVE  SegmentIs(enc2, orig2, u, segs2[u])
  <2>1. CASE u = s
    BY <1>3, <1>14, <2>1
  <2>2. CASE u \in 1..n
    <3>1. segs2[u] = segs[u] /\ segs[u] \in SegmentRecord /\ SegmentIs(enc, orig, u, segs[u])
      BY <1>1, <1>2, <1>3, <2>2
    <3>2. SegmentIs(enc2, orig2, u, segs[u])
      BY <1>14, <3>1, SegmentStays
    <3> QED
      BY <3>1, <3>2
  <2> QED
    BY <1>4, <2>1, <2>2
<1>7. ASSUME NEW u \in 1..s, NEW v \in 1..s, u < v
      PROVE  EndOf(segs2[u]) <= segs2[v].start
  <2>1. u \in 1..n
    BY <1>7
  <2>2. CASE v = s
    BY <1>3, <1>5, <1>14, <2>1, <2>2
  <2>3. CASE v \in 1..n
    BY <1>1, <1>3, <1>7, <2>1, <2>3
  <2> QED
    BY <1>4, <2>2, <2>3
<1>8. ASSUME NEW u \in 1..s, NEW v \in 1..s, v = u + 1
      PROVE  segs2[v].start = EndOf(segs2[u]) /\ segs2[v].from = UpTo(segs2[u])
  <2>1. u \in 1..n
    BY <1>8
  <2>2. CASE v = s
    <3>1. u = n
      BY <1>8, <2>2
    <3> QED
      BY <1>1, <1>3, <1>14, <2>1, <2>2, <3>1
  <2>3. CASE v \in 1..n
    BY <1>1, <1>3, <1>8, <2>1, <2>3, SMTT(30)
  <2> QED
    BY <1>4, <2>2, <2>3
<1>9. ASSUME NEW u \in 1..s, u = 1
      PROVE  segs2[u].from = 0
  <2>1. CASE n = 0
    <3>1. u = s /\ o = 0
      BY <1>1, <1>9, <2>1
    <3> QED
      BY <1>3, <1>14, <3>1
  <2>2. CASE n # 0
    <3>1. u \in 1..n
      BY <1>9, <2>2
    <3> QED
      BY <1>1, <1>3, <1>9, <3>1
  <2> QED
    BY <2>1, <2>2
<1>10. ASSUME NEW i \in Nat, 1 <= i, i <= Len(enc2), enc2[i] = Byte("header", 0, 1)
       PROVE  \E u \in 1..s : i = segs2[u].start + 1
  <2>1. CASE i <= e
    <3>1. enc[i] = Byte("header", 0, 1)
      BY <1>10, <1>14, <2>1
    <3>2. PICK u \in 1..n : i = segs[u].start + 1
      BY <1>1, <1>10, <2>1, <3>1
    <3>3. u \in 1..s /\ segs2[u] = segs[u]
      BY <1>3
    <3> QED
      BY <3>2, <3>3
  <2>2. CASE e < i
    <3>1. i = e + 1
      BY <1>10, <1>14, <2>2
    <3>2. s \in 1..s
      OBVIOUS
    <3> QED
      BY <1>3, <1>14, <3>1, <3>2
  <2> QED
    BY <2>1, <2>2
<1>11. \A u \in 1..s : u = s => EndOf(segs2[u]) = Len(enc2) /\ UpTo(segs2[u]) = Len(orig2)
  BY <1>3, <1>14
<1>12. s # 0
  OBVIOUS
<1>13. Len(segs2) = 0 => Len(orig2) = 0
  BY <1>12, <1>15
<1> QED
  BY <1>6, <1>7, <1>8, <1>9, <1>10, <1>11, <1>13, <1>15 DEF Camera

\* CameraEncrypts in the terms of its parts.
SegmentAdded(enc, orig, segs, size, padding, enc2, orig2, segs2) ==
    /\ size \in {n * Block : n \in 1..MaxBlocks} /\ padding \in 1..Block
    /\ segs2 = Append(segs, [start |-> Len(enc), from |-> Len(orig),
                             size |-> size, padding |-> padding])
    /\ enc2 = enc \o (Header \o Hash \o Bytes("cipher", Len(segs) + 1, size))
    /\ orig2 = orig \o Bytes("plain", Len(segs) + 1, size - padding)

\* CameraEncrypts keeps what Camera says.
LEMMA NextSegment ==
    ASSUME NEW enc, NEW orig, NEW segs, Camera(enc, orig, segs), NEW size, NEW padding,
           NEW enc2, NEW orig2, NEW segs2,
           SegmentAdded(enc, orig, segs, size, padding, enc2, orig2, segs2)
    PROVE  Camera(enc2, orig2, segs2)
<1>1. PICK e \in Nat, o \in Nat, n \in Nat : e = Len(enc) /\ o = Len(orig) /\ n = Len(segs)
  <2>1. enc \in Seq(AnyByte) /\ orig \in Seq(AnyByte) /\ segs \in Seq(SegmentRecord)
    BY DEF Camera
  <2>2. Len(enc) \in Nat /\ Len(orig) \in Nat /\ Len(segs) \in Nat
    BY <2>1
  <2> QED
    BY <2>2
<1>2. enc \in Seq(AnyByte) /\ orig \in Seq(AnyByte) /\ segs \in Seq(SegmentRecord)
  BY DEF Camera
<1>3. PICK b \in Nat : b > 0 /\ size = b * Block
  <2>1. PICK c \in 1..MaxBlocks : size = c * Block
    BY DEF SegmentAdded
  <2>2. c \in Nat /\ c > 0
    BY ImageBounds
  <2> QED
    BY <2>1, <2>2
<1>4. PICK B \in Nat : B = Block
  BY ImageBounds
<1>5. size \in Nat /\ B <= size
  BY <1>3, <1>4, SizeHoldsPadding
<1>6. padding \in Nat /\ 1 <= padding /\ padding <= B
  BY <1>4 DEF SegmentAdded
<1>7. PICK d \in Nat, m \in Nat, l \in Nat : d = size - padding /\ m = MinLength /\ l = m + size
  <2>1. size - padding \in Nat /\ MinLength \in Nat /\ MinLength + size \in Nat
    BY <1>5, <1>6, ImageBounds
  <2> QED
    BY <2>1
<1>8. PICK s \in Nat : s = n + 1
  OBVIOUS
<1>9. PICK t : t = (Header \o Hash) \o Bytes("cipher", s, size)
  OBVIOUS
<1>10. PICK p : p = Bytes("plain", s, d)
  OBVIOUS
<1>11. SegmentOf(t, s, size)
  BY <1>5, <1>9, SegmentBytes
<1>12. /\ p \in Seq(AnyByte) /\ Len(p) = d
       /\ \A k \in Nat : 1 <= k /\ k <= d => p[k] = Byte("plain", s, k)
  BY <1>10, BytesProperties
<1>13. t \in Seq(AnyByte) /\ Len(t) = l
  BY <1>7, <1>11 DEF SegmentOf
<1>14. enc2 \in Seq(AnyByte) /\ Joined(enc2, enc, e, t, l)
  <2>1. enc2 = enc \o t
    BY <1>1, <1>8, <1>9 DEF SegmentAdded
  <2> QED
    BY <1>1, <1>2, <1>13, <2>1, Join
<1>15. orig2 \in Seq(AnyByte) /\ Joined(orig2, orig, o, p, d)
  <2>1. orig2 = orig \o p
    BY <1>1, <1>7, <1>8, <1>10 DEF SegmentAdded
  <2> QED
    BY <1>1, <1>2, <1>12, <2>1, Join
<1>16. PICK r : r = [start |-> e, from |-> o, size |-> size, padding |-> padding]
  OBVIOUS
<1>19. Grown(enc, orig, enc2, orig2, s, r)
  <2>1. /\ 1 <= padding /\ padding <= Block /\ l = MinLength + size /\ d = size - padding
        /\ \E c \in Nat : c > 0 /\ size = c * Block
    BY <1>3, <1>4, <1>6, <1>7
  <2>2. NewPart(e, o, size, padding, l, d, s, t, p)
    BY <1>5, <1>6, <1>11, <1>12, <2>1 DEF NewPart
  <2> QED
    BY <1>1, <1>14, <1>15, <1>16, <2>2, NewSegment
<1>20. Appended(segs, segs2, n, s, r)
  <2>1. segs2 = Append(segs, r)
    BY <1>1, <1>16 DEF SegmentAdded
  <2>2. r \in SegmentRecord
    BY <1>19 DEF Grown
  <2> QED
    BY <1>1, <1>2, <1>8, <2>1, <2>2 DEF Appended
<1> QED
  BY <1>14, <1>15, <1>19, <1>20, CameraGrows

-----------------------------------------------------------------------------
(* Where the headers are.                                                  *)

\* The header of the segment of record r is in dat.
Arrived(dat, r) == r.start + HeaderLen <= Len(dat)

\* dat is the beginning of a picture of at least one segment.
Answer(dat, enc, orig, segs) ==
    Camera(enc, orig, segs) /\ Longer(dat, enc) /\ dat \in Seq(AnyByte) /\ Len(segs) > 0

\* A header, byte by byte.
LEMMA HeaderBytes ==
    \A k \in Nat : 1 <= k /\ k <= HeaderLen => Header[k] = Byte("header", 0, k)
BY DEF Header, Bytes

\* A header is the beginning of a segment.
LEMMA HeadersAre ==
    ASSUME NEW dat, NEW enc, NEW orig, NEW segs, Answer(dat, enc, orig, segs)
    PROVE  \A i \in Nat : 1 <= i =>
               (HeaderAt(dat, i) <=>
                   \E s \in 1..Len(segs) : i = segs[s].start + 1 /\ Arrived(dat, segs[s]))
<1> SUFFICES ASSUME NEW i \in Nat, 1 <= i
             PROVE  HeaderAt(dat, i) <=>
                        \E s \in 1..Len(segs) : i = segs[s].start + 1 /\ Arrived(dat, segs[s])
  OBVIOUS
<1>1. PICK n \in Nat, e \in Nat, d \in Nat : n = Len(segs) /\ e = Len(enc) /\ d = Len(dat) /\ d <= e
  <2>1. /\ segs \in Seq(SegmentRecord) /\ enc \in Seq(AnyByte) /\ dat \in Seq(AnyByte)
        /\ Len(dat) <= Len(enc)
    BY DEF Answer, Camera, Longer
  <2>2. Len(segs) \in Nat /\ Len(enc) \in Nat /\ Len(dat) \in Nat
    BY <2>1
  <2> QED
    BY <2>1, <2>2
<1>2. PICK h \in Nat : h = HeaderLen /\ h > 0
  BY ImageBounds
<1>3. \A k \in Nat : 1 <= k /\ k <= d => enc[k] = dat[k]
  BY <1>1 DEF Answer, Longer
<1>4. HeaderAt(dat, i) <=> i + h <= d + 1 /\ \A k \in 1..h : dat[i + k - 1] = Header[k]
  BY <1>1, <1>2 DEF HeaderAt
<1>5. \A k \in 1..h : Header[k] = Byte("header", 0, k)
  BY <1>2, HeaderBytes
<1>6. ASSUME HeaderAt(dat, i)
      PROVE  \E s \in 1..n : i = segs[s].start + 1 /\ Arrived(dat, segs[s])
  <2>1. 1 \in 1..h /\ i + 1 - 1 = i /\ i <= d /\ i <= e
    BY <1>1, <1>2, <1>4, <1>6
  <2>2. dat[i] = Byte("header", 0, 1)
    BY <1>4, <1>5, <1>6, <2>1
  <2>3. enc[i] = Byte("header", 0, 1)
    BY <1>3, <2>1, <2>2
  <2>4. PICK s \in 1..n : i = segs[s].start + 1
    BY <1>1, <2>1, <2>3 DEF Answer, Camera
  <2>5. segs[s].start \in Nat
    <3>1. segs[s] \in SegmentRecord
      BY <1>1 DEF Answer, Camera
    <3> QED
      BY <3>1, RecordNumbers
  <2>6. segs[s].start + h <= d
    BY <1>4, <1>6, <2>4, <2>5
  <2> QED
    BY <1>1, <1>2, <2>4, <2>6 DEF Arrived
<1>7. ASSUME NEW s \in 1..n, i = segs[s].start + 1, Arrived(dat, segs[s])
      PROVE  HeaderAt(dat, i)
  <2>1. PICK a \in Nat : a = segs[s].start
    <3>1. segs[s] \in SegmentRecord
      BY <1>1 DEF Answer, Camera
    <3> QED
      BY <3>1, RecordNumbers
  <2>2. a + h <= d /\ i = a + 1
    BY <1>1, <1>2, <1>7, <2>1 DEF Arrived
  <2>3. \A k \in Nat : 1 <= k /\ k <= h => enc[a + k] = Byte("header", 0, k)
    BY <1>1, <1>2, <2>1 DEF Answer, Camera, SegmentIs
  <2>4. ASSUME NEW k \in 1..h
        PROVE  dat[i + k - 1] = Header[k]
    <3>1. PICK j \in Nat : j = a + k
      OBVIOUS
    <3>2. 1 <= j /\ j <= d /\ i + k - 1 = j
      BY <2>2, <3>1
    <3>3. enc[j] = dat[j]
      BY <1>3, <3>2
    <3>4. enc[a + k] = Byte("header", 0, k)
      BY <2>3
    <3> QED
      BY <1>5, <3>1, <3>2, <3>3, <3>4
  <2> QED
    BY <1>4, <2>2, <2>4
<1> QED
  BY <1>1, <1>6, <1>7

\* Of two segments the later starts where the earlier has ended, or after that.
LEMMA Order ==
    ASSUME NEW enc, NEW orig, NEW segs, Camera(enc, orig, segs)
    PROVE  \A u, v \in 1..Len(segs) :
               /\ segs[u] \in SegmentRecord /\ segs[v] \in SegmentRecord
               /\ segs[u].start \in Nat /\ EndOf(segs[u]) \in Nat
               /\ u < v => /\ segs[u].start + MinLength <= segs[v].start
                           /\ EndOf(segs[u]) <= segs[v].start
<1> SUFFICES ASSUME NEW u \in 1..Len(segs), NEW v \in 1..Len(segs)
             PROVE  /\ segs[u] \in SegmentRecord /\ segs[v] \in SegmentRecord
                    /\ segs[u].start \in Nat /\ EndOf(segs[u]) \in Nat
                    /\ u < v => segs[u].start + MinLength <= segs[v].start
                                /\ EndOf(segs[u]) <= segs[v].start
  OBVIOUS
<1>1. segs[u] \in SegmentRecord /\ segs[v] \in SegmentRecord
  BY DEF Camera
<1>2. /\ segs[u].start \in Nat /\ EndOf(segs[u]) \in Nat /\ segs[v].start \in Nat
      /\ segs[u].start + MinLength <= EndOf(segs[u])
  BY <1>1, RecordNumbers
<1>3. u < v => EndOf(segs[u]) <= segs[v].start
  BY DEF Camera
<1>4. PICK a \in Nat, b \in Nat, c \in Nat, m \in Nat :
          a = segs[u].start /\ b = EndOf(segs[u]) /\ c = segs[v].start /\ m = MinLength
  BY <1>2, ImageBounds
<1>5. u < v => a + m <= c
  BY <1>2, <1>3, <1>4
<1> QED
  BY <1>1, <1>2, <1>3, <1>4, <1>5

\* data.find() from f on gives the header of segment s, if those before it lie before f.
LEMMA FindsSegment ==
    ASSUME NEW dat, NEW enc, NEW orig, NEW segs, Answer(dat, enc, orig, segs),
           NEW f \in Nat, 1 <= f, NEW s \in 1..Len(segs), Arrived(dat, segs[s]),
           f <= segs[s].start + 1, \A u \in 1..Len(segs) : u < s => segs[u].start + 1 < f
    PROVE  Headers(dat, f) # {} /\ Min(Headers(dat, f)) = segs[s].start + 1
<1>1. Camera(enc, orig, segs)
  BY DEF Answer
<1>2. PICK x \in Nat : x = segs[s].start + 1
  BY <1>1, Order
<1>3. PICK d \in Nat, n \in Nat, h \in Nat : d = Len(dat) /\ n = Len(segs) /\ h = HeaderLen /\ h > 0
  <2>1. dat \in Seq(AnyByte) /\ segs \in Seq(SegmentRecord)
    BY DEF Answer, Camera
  <2> QED
    BY <2>1, ImageBounds
<1>4. x <= d
  <2>1. PICK a \in Nat : a = segs[s].start
    BY <1>1, Order
  <2>2. a + h <= d
    BY <1>3, <2>1 DEF Arrived
  <2> QED
    BY <1>2, <1>3, <2>1, <2>2
<1>5. x \in Headers(dat, f)
  <2>1. HeaderAt(dat, x)
    BY <1>2, HeadersAre
  <2> QED
    BY <1>2, <1>3, <1>4, <2>1 DEF Headers
<1>6. ASSUME NEW y \in Headers(dat, f)
      PROVE  x <= y
  <2>1. y \in Nat /\ f <= y /\ HeaderAt(dat, y) /\ 1 <= y
    BY <1>3 DEF Headers
  <2>2. PICK u \in 1..n : y = segs[u].start + 1
    BY <1>3, <2>1, HeadersAre
  <2>3. CASE u < s
    BY <1>3, <2>1, <2>2, <2>3
  <2>4. CASE u = s
    BY <1>2, <2>2, <2>4
  <2>5. CASE s < u
    <3>1. /\ segs[s].start + MinLength <= segs[u].start
          /\ segs[s].start \in Nat /\ segs[u].start \in Nat
      BY <1>1, <1>3, <2>5, Order
    <3>6. PICK m \in Nat : m = MinLength
      BY ImageBounds
    <3>7. PICK a \in Nat : a = segs[s].start
      BY <3>1
    <3>2. PICK b \in Nat : b = segs[u].start /\ a + m <= b
      BY <3>1, <3>6, <3>7
    <3>3. x = a + 1
      BY <1>2, <3>7
    <3>4. y = b + 1
      BY <2>2, <3>2
    <3>5. a + 1 <= b + 1
      BY <3>2
    <3> QED
      BY <3>3, <3>4, <3>5
  <2> QED
    BY <1>3, <2>3, <2>4, <2>5
<1>7. Headers(dat, f) \in SUBSET Nat
  BY <1>3 DEF Headers
<1>8. Min(Headers(dat, f)) = x
  BY <1>5, <1>6, <1>7, LeastIs
<1> QED
  BY <1>2, <1>5, <1>8

\* data.find() from f on gives nothing, if all headers that have arrived lie before f.
LEMMA FindsNone ==
    ASSUME NEW dat, NEW enc, NEW orig, NEW segs, Answer(dat, enc, orig, segs),
           NEW f \in Nat, 1 <= f,
           \A u \in 1..Len(segs) : Arrived(dat, segs[u]) => segs[u].start + 1 < f
    PROVE  Headers(dat, f) = {}
<1> SUFFICES ASSUME NEW y \in Headers(dat, f)
             PROVE  FALSE
  OBVIOUS
<1>1. dat \in Seq(AnyByte)
  BY DEF Answer
<1>2. y \in Nat /\ f <= y /\ HeaderAt(dat, y) /\ 1 <= y
  BY <1>1 DEF Headers
<1>3. PICK u \in 1..Len(segs) : y = segs[u].start + 1 /\ Arrived(dat, segs[u])
  BY <1>2, HeadersAre
<1> QED
  BY <1>2, <1>3

-----------------------------------------------------------------------------
(* The blocks.                                                             *)

Answered == Answer(data, encrypted, original, segments)

\* The lengths of an answer.
LEMMA AnswerNumbers ==
    ASSUME Answered
    PROVE  /\ Len(data) \in Nat /\ Len(encrypted) \in Nat /\ Len(segments) \in Nat
           /\ Len(data) <= Len(encrypted) /\ Len(segments) > 0
<1>1. /\ segments \in Seq(SegmentRecord) /\ encrypted \in Seq(AnyByte) /\ data \in Seq(AnyByte)
      /\ Len(data) <= Len(encrypted) /\ Len(segments) > 0
  BY DEF Answered, Answer, Camera, Longer
<1> QED
  BY <1>1

\* All segments of a picture that arrived whole have arrived.
LEMMA WholeAnswer ==
    ASSUME NEW enc, NEW orig, NEW segs, Answer(enc, enc, orig, segs), NEW s \in 1..Len(segs)
    PROVE  Arrived(enc, segs[s]) /\ segs[s].start + MinLength <= Len(enc)
<1>1. EndOf(segs[s]) <= Len(enc) /\ segs[s] \in SegmentRecord /\ enc \in Seq(AnyByte)
  <2>1. Camera(enc, orig, segs)
    BY DEF Answer
  <2>2. SegmentIs(enc, orig, s, segs[s]) /\ segs[s] \in SegmentRecord /\ enc \in Seq(AnyByte)
    BY <2>1 DEF Camera
  <2> QED
    BY <2>2 DEF SegmentIs
<1>2. PICK a \in Nat, b \in Nat, m \in Nat, h \in Nat, d \in Nat :
          /\ a = segs[s].start /\ b = EndOf(segs[s]) /\ a + m <= b
          /\ m = MinLength /\ h = HeaderLen /\ h <= m /\ d = Len(enc)
  <2>1. /\ segs[s].start \in Nat /\ EndOf(segs[s]) \in Nat
        /\ segs[s].start + MinLength <= EndOf(segs[s])
    BY <1>1, RecordNumbers
  <2>2. MinLength \in Nat /\ HeaderLen \in Nat /\ HeaderLen <= MinLength
    BY ImageBounds
  <2>3. Len(enc) \in Nat
    BY <1>1
  <2> QED
    BY <2>1, <2>2, <2>3
<1>3. a + h <= d /\ a + m <= d
  BY <1>1, <1>2
<1> QED
  BY <1>2, <1>3 DEF Arrived

\* The same of data.
LEMMA WholeArrived ==
    ASSUME Answered, data = encrypted, NEW s \in 1..Len(segments)
    PROVE  Arrived(data, segments[s]) /\ segments[s].start + MinLength <= Len(data)
<1>1. Answer(encrypted, encrypted, original, segments)
  BY DEF Answered
<1> QED
  BY <1>1, WholeAnswer

\* With the cursor at the header of segment s: where its block ends.
LEMMA NextBlock ==
    ASSUME Answered, NEW s \in 1..Len(segments), Arrived(data, segments[s]),
           cursor = segments[s].start + 1
    PROVE  /\ HeaderAt(data, cursor)
           /\ s < Len(segments) /\ Arrived(data, segments[s + 1]) =>
                  /\ NextHeaders # {}
                  /\ Min(NextHeaders) = segments[s + 1].start + 1
                  /\ BlockEnd = EndOf(segments[s])
           /\ ~ (s < Len(segments) /\ Arrived(data, segments[s + 1])) =>
                  /\ NextHeaders = {}
                  /\ BlockEnd = Len(data)
                  /\ Len(data) < EndOf(segments[s]) + HeaderLen
<1>1. PICK n \in Nat, d \in Nat, e \in Nat, h \in Nat, m \in Nat :
          /\ n = Len(segments) /\ d = Len(data) /\ e = Len(encrypted) /\ d <= e
          /\ h = HeaderLen /\ h > 0 /\ m = MinLength /\ h < m
  BY AnswerNumbers, ImageBounds
<1>2. Camera(encrypted, original, segments) /\ Answer(data, encrypted, original, segments)
  BY DEF Answered, Answer
<1>3. \A u, v \in 1..n : /\ segments[u].start \in Nat /\ EndOf(segments[u]) \in Nat
                         /\ u < v => segments[u].start + m <= segments[v].start
  BY <1>1, <1>2, Order
<1>4. PICK a \in Nat, b \in Nat, f \in Nat :
          a = segments[s].start /\ b = EndOf(segments[s]) /\ f = a + 1 + h
  <2>1. segments[s].start \in Nat /\ EndOf(segments[s]) \in Nat
    BY <1>1, <1>3
  <2> QED
    BY <2>1
<1>5. HeaderAt(data, cursor)
  <2>1. cursor = a + 1
    BY <1>4
  <2>2. cursor \in Nat /\ 1 <= cursor
    BY <2>1
  <2> QED
    BY <1>2, <2>2, HeadersAre
<1>6. NextHeaders = Headers(data, f)
  <2>1. f = cursor + HeaderLen
    BY <1>1, <1>4
  <2> QED
    BY <2>1 DEF NextHeaders
<1>7. \A u \in 1..n : u <= s => segments[u].start + 1 < f
  <2> SUFFICES ASSUME NEW u \in 1..n, u <= s
               PROVE  segments[u].start + 1 < f
    OBVIOUS
  <2>1. CASE u = s
    BY <1>1, <1>4, <2>1
  <2>2. CASE u < s
    <3>1. segments[u].start \in Nat /\ segments[u].start + m <= segments[s].start
      BY <1>1, <1>3, <2>2
    <3>2. PICK c \in Nat : c = segments[u].start /\ c + m <= a
      BY <1>4, <3>1
    <3>3. c + 1 < a + 1 + h
      BY <1>1, <3>2
    <3> QED
      BY <1>4, <3>2, <3>3
  <2> QED
    BY <1>1, <2>1, <2>2
<1>8. ASSUME s < n, Arrived(data, segments[s + 1])
      PROVE  /\ NextHeaders # {}
             /\ Min(NextHeaders) = segments[s + 1].start + 1
             /\ BlockEnd = EndOf(segments[s])
  <2>1. PICK v \in 1..n : v = s + 1
    BY <1>1, <1>8
  <2>2. PICK c \in Nat : c = segments[v].start /\ a + m <= c
    <3>1. segments[v].start \in Nat /\ segments[s].start + m <= segments[v].start
      BY <1>1, <1>3, <2>1
    <3> QED
      BY <1>4, <3>1
  <2>3. f <= segments[v].start + 1
    <3>1. a + 1 + h <= c + 1
      BY <1>1, <2>2
    <3> QED
      BY <1>4, <2>2, <3>1
  <2>4. \A u \in 1..n : u < v => segments[u].start + 1 < f
    BY <1>1, <1>7, <2>1
  <2>5. Headers(data, f) # {} /\ Min(Headers(data, f)) = segments[v].start + 1
    <3>1. 1 <= f /\ v \in 1..Len(segments) /\ Arrived(data, segments[v])
      BY <1>1, <1>4, <1>8, <2>1, SMTT(30)
    <3>2. \A u \in 1..Len(segments) : u < v => segments[u].start + 1 < f
      BY <1>1, <2>4
    <3> QED
      BY <1>2, <2>3, <3>1, <3>2, FindsSegment
  <2>6. segments[v].start = EndOf(segments[s])
    BY <1>1, <1>2, <2>1 DEF Camera
  <2>7. BlockEnd = c + 1 - 1
    BY <1>6, <2>2, <2>5 DEF BlockEnd
  <2> QED
    BY <1>6, <2>1, <2>2, <2>5, <2>6, <2>7
<1>9. ASSUME ~ (s < n /\ Arrived(data, segments[s + 1]))
      PROVE  /\ NextHeaders = {}
             /\ BlockEnd = Len(data)
             /\ Len(data) < EndOf(segments[s]) + HeaderLen
  <2>1. \A u \in 1..n : Arrived(data, segments[u]) => segments[u].start + 1 < f
    <3> SUFFICES ASSUME NEW u \in 1..n, Arrived(data, segments[u]), s < u
                 PROVE  FALSE
      BY <1>1, <1>7
    <3>1. PICK v \in 1..n : v = s + 1 /\ v <= u
      BY <1>1
    <3>2. PICK c \in Nat, g \in Nat : c = segments[u].start /\ g = segments[v].start
      BY <1>3
    <3>3. g <= c
      <4>1. CASE v = u
        BY <3>2, <4>1
      <4>2. CASE v < u
        <5>1. g + m <= c
          BY <1>3, <3>2, <4>2
        <5> QED
          BY <5>1
      <4> QED
        BY <3>1, <4>1, <4>2
    <3>4. c + h <= d
      BY <1>1, <3>2 DEF Arrived
    <3>5. g + h <= d
      BY <3>3, <3>4
    <3>6. Arrived(data, segments[v])
      BY <1>1, <3>2, <3>5 DEF Arrived
    <3> QED
      BY <1>1, <1>9, <3>1, <3>6
  <2>2. Headers(data, f) = {}
    <3>1. 1 <= f
      BY <1>4
    <3> QED
      BY <1>1, <1>2, <1>4, <2>1, <3>1, FindsNone
  <2>3. d < b + h
    <3>1. CASE s < n
      <4>1. PICK v \in 1..n : v = s + 1
        BY <1>1, <3>1
      <4>2. segments[v].start = b
        BY <1>1, <1>2, <1>4, <4>1 DEF Camera
      <4>3. ~ (b + h <= d)
        BY <1>1, <1>9, <3>1, <4>1, <4>2 DEF Arrived
      <4> QED
        BY <1>1, <1>4, <4>3
    <3>2. CASE s = n
      <4>1. b = e
        BY <1>1, <1>2, <1>4, <3>2 DEF Camera
      <4> QED
        BY <1>1, <4>1
    <3> QED
      BY <1>1, <3>1, <3>2
  <2>4. BlockEnd = Len(data)
    BY <1>6, <2>2 DEF BlockEnd
  <2> QED
    BY <1>1, <1>4, <1>6, <2>2, <2>3, <2>4
<1> QED
  BY <1>1, <1>5, <1>8, <1>9

\* What holds the n bytes of a part is that part.
LEMMA BytesEqual ==
    ASSUME NEW m \in Nat, NEW s \in Nat, NEW of, NEW r \in Seq(AnyByte), Len(r) = m,
           \A k \in Nat : 1 <= k /\ k <= m => r[k] = Byte(of, s, k)
    PROVE  r = Bytes(of, s, m)
<1>1. r \in [1..m -> AnyByte]
  OBVIOUS
<1>2. r = [k \in 1..m |-> r[k]]
  BY <1>1
<1>3. \A k \in 1..m : r[k] = Byte(of, s, k)
  OBVIOUS
<1> QED
  BY <1>2, <1>3, Zenon DEF Bytes

\* The first d bytes of a plain text.
LEMMA BytesCut ==
    ASSUME NEW m \in Nat, NEW d \in Nat, d <= m, NEW s \in Nat, NEW r,
           r = SubSeq(Bytes("plain", s, m), 1, d)
    PROVE  r = Bytes("plain", s, d)
<1>1. PICK b : b = Bytes("plain", s, m)
  OBVIOUS
<1>2. /\ b \in Seq(AnyByte) /\ Len(b) = m
      /\ \A k \in Nat : 1 <= k /\ k <= m => b[k] = Byte("plain", s, k)
  BY <1>1, BytesProperties
<1>3. r \in Seq(AnyByte) /\ CutOf(r, b, 0, d)
  <2>1. 0 + d <= Len(b) /\ 1 = 0 + 1 /\ d = 0 + d /\ r = SubSeq(b, 1, d)
    BY <1>1, <1>2
  <2> QED
    BY <1>2, <2>1, Cut
<1>4. ASSUME NEW k \in Nat, 1 <= k, k <= d
      PROVE  r[k] = Byte("plain", s, k)
  <2>1. \A i \in Nat : 1 <= i /\ i <= d => r[i] = b[0 + i]
    BY <1>3 DEF CutOf
  <2>2. r[k] = b[0 + k]
    BY <1>4, <2>1
  <2>3. 0 + k = k /\ k <= m
    BY <1>4
  <2> QED
    BY <1>2, <1>4, <2>2, <2>3
<1> QED
  BY <1>3, <1>4, BytesEqual DEF CutOf

\* The block of segment s decrypts to the first m bytes of its plain text: to all of them
\* when it ends with the segment, and to no padding when it does not hold all of it.
LEMMA BlockDecrypted ==
    ASSUME Answered, NEW s \in 1..Len(segments), NEW last \in Nat,
           segments[s].start + MinLength <= last, last <= Len(data),
           last < EndOf(segments[s]) + HeaderLen
    PROVE  \E m \in Nat :
               /\ DecryptBlock(SubSeq(data, segments[s].start + 1 + MinLength, last))
                      = Bytes("plain", s, m)
               /\ m <= segments[s].size
               /\ last = EndOf(segments[s]) => m = segments[s].size
               /\ m < segments[s].size => m + Block <= segments[s].size
<1>1. /\ Camera(encrypted, original, segments) /\ data \in Seq(AnyByte)
      /\ segments[s] \in SegmentRecord /\ SegmentIs(encrypted, original, s, segments[s])
      /\ s \in Nat
  <2>1. Camera(encrypted, original, segments) /\ data \in Seq(AnyByte)
    BY DEF Answered, Answer
  <2>2. SegmentIs(encrypted, original, s, segments[s]) /\ segments[s] \in SegmentRecord /\ s \in Nat
    BY <2>1, CameraSegment
  <2> QED
    BY <2>1, <2>2
<1>2. PICK a \in Nat, z \in Nat, M \in Nat, h \in Nat, B \in Nat, l \in Nat, e \in Nat :
          /\ a = segments[s].start /\ z = segments[s].size /\ M = MinLength /\ h = HeaderLen
          /\ B = Block /\ B > 0 /\ h <= B /\ l = Len(data) /\ e = Len(encrypted) /\ l <= e
  <2>1. segments[s].start \in Nat /\ segments[s].size \in Nat
    BY <1>1, RecordNumbers
  <2> QED
    BY <2>1, ImageBounds, AnswerNumbers
<1>3. EndOf(segments[s]) = a + M + z
  BY <1>2 DEF EndOf
<1>4. a + M <= last /\ last <= l /\ last < a + M + z + h
  BY <1>2, <1>3
<1>5. PICK c \in Nat : c = a + M
  OBVIOUS
<1>6. PICK n \in Nat : n = last - c /\ c + n = last /\ n < z + B
  <2>1. c <= last /\ last < c + z + h /\ h <= B
    BY <1>2, <1>4, <1>5
  <2>2. last - c \in Nat /\ c + (last - c) = last /\ last - c < z + B
    BY <2>1
  <2> QED
    BY <2>2
<1>7. PICK cipher : cipher = SubSeq(data, segments[s].start + 1 + MinLength, last)
  OBVIOUS
<1>8. Len(cipher) = n /\ \A k \in Nat : 1 <= k /\ k <= n => cipher[k] = data[c + k]
  <2>1. PICK i \in Nat : i = c + 1
    OBVIOUS
  <2>2. i = segments[s].start + 1 + MinLength
    <3>1. i = a + 1 + M
      BY <1>5, <2>1
    <3> QED
      BY <1>2, <3>1
  <2>3. c + n <= Len(data) /\ last = c + n /\ cipher = SubSeq(data, i, last)
    BY <1>2, <1>4, <1>6, <1>7, <2>2
  <2>4. CutOf(cipher, data, c, n)
    BY <1>1, <2>1, <2>3, Cut
  <2> QED
    BY <2>4 DEF CutOf
<1>9. PICK m : Rounded(m, n, B)
  BY DEF Rounded
<1>10. /\ m \in Nat /\ m <= n /\ m <= z
       /\ n = z => m = z
       /\ m < z => m + B <= z
  <2>1. PICK b \in Nat : z = b * B
    BY <1>1, <1>2 DEF SegmentIs
  <2> QED
    <3>1. B > 0 /\ n < z + B
      BY <1>2, <1>6
    <3>2. B > 0 /\ \E q \in Nat : z = q * B
      BY <1>2, <2>1
    <3>3. /\ m \in Nat /\ m <= n
          /\ n < z + B => m <= z
          /\ n = z => m = z
          /\ m < z => m + B <= z
      BY <1>9, <3>2, Rounding
    <3> QED
      BY <3>1, <3>3
<1>11. \A k \in Nat : 1 <= k /\ k <= m => cipher[k] = Byte("cipher", s, k)
  <2> SUFFICES ASSUME NEW k \in Nat, 1 <= k, k <= m
               PROVE  cipher[k] = Byte("cipher", s, k)
    OBVIOUS
  <2>1. k <= n /\ k <= z
    BY <1>10
  <2>2. PICK j \in Nat : j = c + k
    OBVIOUS
  <2>3. 1 <= j /\ j <= l
    BY <1>4, <1>6, <2>1, <2>2
  <2>4. data[j] = encrypted[j]
    BY <1>2, <2>3 DEF Answered, Answer, Longer
  <2>5. encrypted[a + M + k] = Byte("cipher", s, k)
    BY <1>1, <1>2, <2>1 DEF SegmentIs
  <2>6. a + M + k = j
    BY <1>5, <2>2
  <2> QED
    BY <1>8, <2>1, <2>2, <2>4, <2>5, <2>6
<1>12. DecryptBlock(cipher) = Decrypted(cipher, m)
  BY <1>2, <1>8, <1>9 DEF DecryptBlock, Rounded
<1>13. Decrypted(cipher, m) = Bytes("plain", s, m)
  <2>1. ASSUME NEW i \in 1..m
        PROVE  /\ cipher[i].segment = s
               /\ \A k \in 1..m : cipher[k] = Byte("cipher", s, k)
    <3>1. i \in Nat /\ 1 <= i /\ i <= m
      BY <1>10
    <3>2. cipher[i] = Byte("cipher", s, i)
      BY <1>11, <3>1
    <3>3. \A k \in 1..m : cipher[k] = Byte("cipher", s, k)
      BY <1>10, <1>11
    <3> QED
      BY <3>2, <3>3 DEF Byte
  <2> QED
    BY <2>1 DEF Decrypted, Bytes
<1>14. last = EndOf(segments[s]) => n = z
  BY <1>3, <1>5, <1>6, SMTT(30)
<1> QED
  BY <1>2, <1>7, <1>10, <1>12, <1>13, <1>14

\* The last byte of a plain text.
LEMMA LastPlain ==
    ASSUME NEW s \in Nat, NEW m \in Nat, m > 0, NEW plain, plain = Bytes("plain", s, m)
    PROVE  Last(plain) = Byte("plain", s, m) /\ Len(plain) = m
<1>1. Len(plain) = m /\ \A k \in Nat : 1 <= k /\ k <= m => plain[k] = Byte("plain", s, k)
  BY BytesProperties
<1>2. plain[m] = Byte("plain", s, m)
  BY <1>1
<1> QED
  BY <1>1, <1>2 DEF Last

\* What is left of them without the padding: all that is not padding when they are all
\* there, and no padding in any case.
LEMMA PaddingRemoved ==
    ASSUME Camera(encrypted, original, segments), looks \in 0..Block,
           NEW s \in 1..Len(segments), NEW m \in Nat, m > 0, m <= segments[s].size,
           m < segments[s].size => m + Block <= segments[s].size,
           NEW plain, plain = Bytes("plain", s, m)
    PROVE  \E d \in Nat :
               /\ Unpadded(plain) = Bytes("plain", s, d)
               /\ d <= segments[s].size - segments[s].padding
               /\ m = segments[s].size => d = segments[s].size - segments[s].padding
<1>1. /\ segments[s] \in SegmentRecord /\ SegmentIs(encrypted, original, s, segments[s])
      /\ s \in Nat
  BY CameraSegment
<1>2. PICK z \in Nat, p \in Nat, B \in Nat :
          z = segments[s].size /\ p = segments[s].padding /\ B = Block
  BY <1>1, RecordNumbers, ImageBounds
<1>3. 1 <= p /\ p <= B /\ B <= z
  <2>1. PICK b \in Nat : b > 0 /\ segments[s].size = b * Block
    BY <1>1 DEF SegmentIs
  <2>2. Block <= segments[s].size
    BY <2>1, SizeHoldsPadding
  <2> QED
    BY <1>1, <1>2, <2>2 DEF SegmentIs
<1>4. PICK v : v = Value(Last(plain))
  OBVIOUS
<1>5. Last(plain) = Byte("plain", s, m)
  BY <1>1, LastPlain
<1>6. v = IF m + p > z THEN p ELSE looks
  <2>1. v = Value(Byte("plain", s, m))
    BY <1>4, <1>5
  <2> QED
    BY <1>2, <2>1 DEF Value, Byte
<1>7. m = z => v = p
  <2>1. m = z => m + p > z
    BY <1>3
  <2> QED
    BY <1>6, <2>1
<1>8. m # z => m + p <= z /\ v = looks /\ m <= z - p
  <2>1. m # z => m + B <= z
    BY <1>2
  <2>2. m # z => m + p <= z /\ ~ (m + p > z) /\ m <= z - p
    BY <1>3, <2>1
  <2> QED
    BY <1>6, <2>2
<1>9. v \in Nat
  <2>1. looks \in Nat
    BY <1>2
  <2> QED
    BY <1>6, <2>1
<1>10. Len(plain) = m
  BY <1>1, LastPlain
<1>11. \A d \in Nat : d <= m => SubSeq(plain, 1, d) = Bytes("plain", s, d)
  BY <1>1, BytesCut
<1>12. Unpadded(plain) = IF 0 < v /\ v <= B THEN Without(plain, v) ELSE plain
  BY <1>2, <1>4 DEF Unpadded
<1>13. CASE 0 < v /\ v <= B /\ v <= m
  <2>1. PICK d \in Nat : d = m - v /\ d <= m
    <3>1. m - v \in Nat /\ m - v <= m
      BY <1>9, <1>13
    <3> QED
      BY <3>1
  <2>2. Unpadded(plain) = SubSeq(plain, 1, d)
    BY <1>10, <1>12, <1>13, <2>1 DEF Without
  <2>3. Unpadded(plain) = Bytes("plain", s, d)
    BY <1>11, <2>1, <2>2
  <2>4. d <= z - p /\ (m = z => d = z - p)
    <3>1. CASE m = z
      BY <1>7, <2>1, <3>1
    <3>2. CASE m # z
      <4>1. m <= z - p
        BY <1>8, <3>2
      <4> QED
        BY <2>1, <3>2, <4>1
    <3> QED
      BY <3>1, <3>2
  <2> QED
    BY <1>2, <2>3, <2>4
<1>14. CASE 0 < v /\ v <= B /\ ~ (v <= m)
  <2>1. m # z
    BY <1>3, <1>7, <1>14
  <2>2. Unpadded(plain) = SubSeq(plain, 1, m - v)
    BY <1>10, <1>12, <1>14 DEF Without
  <2>3. SubSeq(plain, 1, m - v) = Bytes("plain", s, 0)
    <3>1. plain \in Seq(AnyByte)
      BY <1>1, BytesProperties
    <3>2. m - v < 1 /\ m - v \in Int
      BY <1>9, <1>14
    <3>3. SubSeq(plain, 1, m - v) = <<>>
      BY <3>1, <3>2
    <3>4. Bytes("plain", s, 0) = <<>>
      BY DEF Bytes
    <3> QED
      BY <3>3, <3>4
  <2>4. 0 <= z - p
    BY <1>3
  <2> QED
    BY <1>2, <2>1, <2>2, <2>3, <2>4
<1>15. CASE ~ (0 < v /\ v <= B)
  <2>1. m # z
    BY <1>3, <1>7, <1>15
  <2>2. m <= z - p
    BY <1>8, <2>1
  <2> QED
    BY <1>2, <1>12, <1>15, <2>1, <2>2
<1> QED
  BY <1>13, <1>14, <1>15

\* b begins as the plain text of segment s does, as far as d.
PlainTo(b, s, d) == \A k \in Nat : 1 <= k /\ k <= d => b[k] = Byte("plain", s, k)

\* What has been joined is the beginning of the original up to the segment whose plain
\* text comes next.
LEMMA JoinsSegment ==
    ASSUME Camera(encrypted, original, segments), NEW s \in 1..Len(segments),
           NEW f \in Nat, f = segments[s].from,
           NEW before, Longer(before, original), Len(before) = f, NEW d \in Nat,
           d <= segments[s].size - segments[s].padding,
           NEW b, PlainTo(b, s, d), NEW after, Joined(after, before, f, b, d)
    PROVE  Longer(after, original) /\ Len(after) = f + d
<1>1. /\ segments[s] \in SegmentRecord /\ SegmentIs(encrypted, original, s, segments[s])
      /\ s \in Nat /\ original \in Seq(AnyByte)
  BY CameraSegment
<1>2. PICK z \in Nat, p \in Nat, o \in Nat :
          z = segments[s].size /\ p = segments[s].padding /\ o = Len(original)
  BY <1>1, RecordNumbers
<1>3. /\ f + z - p <= o /\ d <= z - p
      /\ \A k \in Nat : 1 <= k /\ k <= z - p => original[f + k] = Byte("plain", s, k)
  BY <1>1, <1>2 DEF SegmentIs, UpTo
<1>7. \A k \in Nat : 1 <= k /\ k <= f => original[k] = after[k]
  <2>1. \A k \in Nat : 1 <= k /\ k <= f => after[k] = before[k]
    BY DEF Joined
  <2>2. \A k \in Nat : 1 <= k /\ k <= f => original[k] = before[k]
    BY DEF Longer
  <2> QED
    BY <2>1, <2>2
<1>8. \A k \in Nat : 1 <= k /\ k <= d => original[f + k] = after[f + k]
  <2>1. \A k \in Nat : 1 <= k /\ k <= d => after[f + k] = b[k]
    BY SecondPart
  <2>2. \A k \in Nat : 1 <= k /\ k <= d => k <= z - p
    BY <1>3
  <2>3. \A k \in Nat : 1 <= k /\ k <= d => b[k] = Byte("plain", s, k)
    BY DEF PlainTo
  <2> QED
    BY <1>3, <2>1, <2>2, <2>3
<1>9. Len(after) = f + d
  BY DEF Joined
<1>10. ASSUME NEW k \in Nat, 1 <= k, k <= f + d
       PROVE  original[k] = after[k]
  <2>1. CASE k <= f
    BY <1>7, <1>10, <2>1
  <2>2. CASE f < k
    <3>1. PICK j \in Nat : k = f + j /\ 1 <= j /\ j <= d
      <4>1. k - f \in Nat /\ k = f + (k - f) /\ 1 <= k - f /\ k - f <= d
        BY <1>10, <2>2
      <4> QED
        BY <4>1
    <3>2. original[f + j] = after[f + j]
      BY <1>8, <3>1
    <3> QED
      BY <3>1, <3>2
  <2> QED
    BY <1>10, <2>1, <2>2
<1>11. PICK x \in Nat : x = f + d /\ x <= o
  <2>1. f + d \in Nat /\ f + d <= o
    BY <1>3
  <2> QED
    BY <2>1
<1> QED
  BY <1>2, <1>9, <1>10, <1>11 DEF Longer

-----------------------------------------------------------------------------
(* The invariant.                                                          *)

\* How much of the original the first j segments hold.
Holds(j) == IF j = 0 THEN 0 ELSE UpTo(segments[j])

\* Block s is the part of segment s that has arrived.
BlockIs(s) ==
    /\ blocks[s].first = segments[s].start + 1
    /\ blocks[s].last \in Nat
    /\ segments[s].start + MinLength <= blocks[s].last
    /\ blocks[s].last <= Len(data)
    /\ blocks[s].last < EndOf(segments[s]) + HeaderLen

Waits ==
    cursor = 1 /\ blocks = <<>> /\ joined = 0 /\ picture = Given(<<>>) /\ code = "none"

\* The cursor stands before the first segment, or at the header of the next one.
SplitInv ==
    /\ Answered /\ code # "none"
    /\ joined = 0 /\ picture = Given(<<>>)
    /\ Len(blocks) < Len(segments)
    /\ \A s \in 1..Len(blocks) : BlockIs(s) /\ blocks[s].last = EndOf(segments[s])
    /\ Arrived(data, segments[Len(blocks) + 1])
    /\ \/ cursor = segments[Len(blocks) + 1].start + 1
       \/ cursor = 1 /\ Len(blocks) = 0

\* Only the last block may end within its segment, and not if all has arrived.
DecryptInv ==
    /\ Answered /\ code # "none"
    /\ Len(blocks) <= Len(segments)
    /\ \A s \in 1..Len(blocks) :
           /\ BlockIs(s)
           /\ s < Len(blocks) \/ data = encrypted => blocks[s].last = EndOf(segments[s])
    /\ data = encrypted => Len(blocks) = Len(segments)
    /\ joined \in 0..Len(blocks)
    /\ Len(blocks) > 0
    /\ joined > 0 => code = "right"
    /\ picture = Given(picture.data)
    /\ picture.data \in Seq(AnyByte)
    /\ Longer(picture.data, original)
    /\ joined < Len(blocks) \/ data = encrypted => Len(picture.data) = Holds(joined)

BlockRecord == [first : Nat, last : Nat]

ImageInv ==
    /\ Camera(encrypted, original, segments)
    /\ looks \in 0..Block
    /\ code \in {"right", "wrong", "none"}
    /\ phase \in {"camera", "split", "decrypt", "done"}
    /\ blocks \in Seq(BlockRecord)
    /\ phase = "camera" => Waits
    /\ phase = "split" => SplitInv
    /\ phase = "decrypt" => DecryptInv
    /\ phase = "done" => CutPictureIsPrefix /\ WholePictureIsExact

\* What Longer calls a beginning is a prefix, and all of it if it is as long.
LEMMA IsBeginning ==
    ASSUME NEW s \in Seq(AnyByte), NEW t \in Seq(AnyByte), Longer(s, t)
    PROVE  /\ IsPrefix(s, t)
           /\ Len(s) = Len(t) => s = t
<1>1. PICK m \in Nat, n \in Nat, one \in Nat : m = Len(s) /\ n = Len(t) /\ m <= n /\ one = 1
  BY DEF Longer
<1>2. \A k \in 1..m : t[k] = s[k]
  BY <1>1 DEF Longer
<1>3. SubSeq(s, 1, m) = SubSeq(t, 1, m)
  <2>1. /\ SubSeq(s, 1, m) \in Seq(AnyByte) /\ Len(SubSeq(s, 1, m)) = m
        /\ \A k \in 1..m : SubSeq(s, 1, m)[k] = s[k]
    BY <1>1
  <2>2. /\ SubSeq(t, 1, m) \in Seq(AnyByte) /\ Len(SubSeq(t, 1, m)) = m
        /\ \A k \in 1..m : SubSeq(t, 1, m)[k] = t[k]
    BY <1>1
  <2>3. \A k \in 1..m : SubSeq(s, 1, m)[k] = SubSeq(t, 1, m)[k]
    BY <1>2, <2>1, <2>2
  <2> QED
    BY <2>1, <2>2, <2>3
<1>4. ASSUME m = n
      PROVE  s = t
  <2>1. Len(s) = m /\ Len(t) = m /\ s \in Seq(AnyByte) /\ t \in Seq(AnyByte)
    BY <1>1, <1>4
  <2>2. \A k \in 1..m : s[k] = t[k]
    BY <1>2
  <2> QED
    BY <2>1, <2>2
<1> QED
  BY <1>1, <1>3, <1>4 DEF IsPrefix

\* An answer with a header holds that of the first segment.
LEMMA FirstArrived ==
    ASSUME NEW dat, NEW enc, NEW orig, NEW segs, Answer(dat, enc, orig, segs)
    PROVE  Headers(dat, 1) # {} <=> Arrived(dat, segs[1])
<1>1. /\ Camera(enc, orig, segs) /\ segs \in Seq(SegmentRecord) /\ Len(segs) > 0
      /\ dat \in Seq(AnyByte)
  BY DEF Answer, Camera
<1>2. 1 \in 1..Len(segs)
  BY <1>1
<1>3. Arrived(dat, segs[1]) => Headers(dat, 1) # {}
  <2>1. segs[1].start \in Nat
    BY <1>1, <1>2, Order
  <2>2. PICK f \in Nat : f = 1
    OBVIOUS
  <2>3. 1 <= f /\ f <= segs[1].start + 1 /\ \A u \in 1..Len(segs) : ~ (u < 1)
    BY <1>1, <2>1, <2>2
  <2>4. Arrived(dat, segs[1]) => Headers(dat, f) # {}
    BY <1>2, <2>3, FindsSegment
  <2> QED
    BY <2>2, <2>4
<1>4. ASSUME NEW i \in Headers(dat, 1)
      PROVE  Arrived(dat, segs[1])
  <2>1. i \in Nat /\ 1 <= i /\ HeaderAt(dat, i)
    BY <1>1 DEF Headers
  <2>2. PICK u \in 1..Len(segs) : i = segs[u].start + 1 /\ Arrived(dat, segs[u])
    BY <2>1, HeadersAre
  <2>3. PICK a \in Nat, b \in Nat, m \in Nat, h \in Nat, d \in Nat :
            /\ a = segs[1].start /\ b = segs[u].start /\ m = MinLength /\ h = HeaderLen
            /\ d = Len(dat)
    <3>1. segs[1].start \in Nat /\ segs[u].start \in Nat
      BY <1>1, <1>2, Order
    <3>2. MinLength \in Nat /\ HeaderLen \in Nat
      BY ImageBounds
    <3>3. Len(dat) \in Nat
      BY <1>1
    <3> QED
      BY <3>1, <3>2, <3>3
  <2>4. b + h <= d
    BY <2>2, <2>3 DEF Arrived
  <2>5. a + h <= d
    <3>1. CASE u = 1
      BY <2>3, <2>4, <3>1
    <3>2. CASE 1 < u
      <4>1. a + m <= b
        BY <1>1, <1>2, <2>3, <3>2, Order
      <4> QED
        BY <2>4, <4>1
    <3> QED
      BY <1>1, <2>2, <3>1, <3>2
  <2> QED
    BY <2>3, <2>5 DEF Arrived
<1> QED
  BY <1>3, <1>4

\* The answer is a beginning of the picture.
LEMMA AnswerArrives ==
    ASSUME NEW enc, NEW orig, NEW segs, Camera(enc, orig, segs), segs # <<>>,
           NEW dat \in {SubSeq(enc, 1, n) : n \in 1..Len(enc)}
    PROVE  Answer(dat, enc, orig, segs)
<1>1. enc \in Seq(AnyByte) /\ segs \in Seq(SegmentRecord)
  BY DEF Camera
<1>2. PICK n \in 1..Len(enc) : dat = SubSeq(enc, 1, n)
  OBVIOUS
<1>3. PICK e \in Nat : e = Len(enc)
  BY <1>1
<1>4. n \in Nat /\ n <= e
  BY <1>2, <1>3
<1>5. dat \in Seq(AnyByte) /\ Len(dat) = n /\ \A k \in 1..n : dat[k] = enc[k]
  BY <1>1, <1>2, <1>3
<1>6. Longer(dat, enc)
  <2>1. \A k \in Nat : 1 <= k /\ k <= n => enc[k] = dat[k]
    BY <1>4, <1>5
  <2> QED
    BY <1>3, <1>4, <1>5, <2>1 DEF Longer
<1>7. Len(segs) > 0
  BY <1>1
<1> QED
  BY <1>5, <1>6, <1>7 DEF Answer

\* Where the cursor is, while the answer is split.
LEMMA AtHeader ==
    ASSUME SplitInv, blocks \in Seq(BlockRecord)
    PROVE  \E s \in 1..Len(segments) :
               /\ s = Len(blocks) + 1 /\ Arrived(data, segments[s])
               /\ HeaderAt(data, cursor) => cursor = segments[s].start + 1
               /\ ~ HeaderAt(data, cursor) =>
                      /\ s = 1 /\ cursor = 1
                      /\ Headers(data, cursor + 1) # {}
                      /\ Min(Headers(data, cursor + 1)) = segments[s].start + 1
<1>1. /\ Answered /\ Answer(data, encrypted, original, segments)
      /\ Camera(encrypted, original, segments)
  BY DEF SplitInv, Answered, Answer
<1>2. PICK n \in Nat, l \in Nat : n = Len(segments) /\ l = Len(blocks) /\ l < n
  <2>1. Len(segments) \in Nat /\ Len(blocks) \in Nat /\ Len(blocks) < Len(segments)
    BY <1>1, AnswerNumbers DEF SplitInv
  <2> QED
    BY <2>1
<1>3. PICK s \in Nat : s = l + 1
  BY <1>2
<1>4. s \in 1..Len(segments) /\ s = Len(blocks) + 1
  BY <1>2, <1>3
<1>5. /\ Arrived(data, segments[s])
      /\ cursor = segments[s].start + 1 \/ (cursor = 1 /\ s = 1)
  <2>1. /\ Arrived(data, segments[l + 1])
        /\ cursor = segments[l + 1].start + 1 \/ (cursor = 1 /\ l = 0)
    BY <1>2 DEF SplitInv
  <2>2. segments[s] = segments[l + 1]
    BY <1>3
  <2>3. l = 0 => s = 1
    BY <1>3
  <2> QED
    BY <2>1, <2>2, <2>3
<1>6. PICK a \in Nat, m \in Nat : a = segments[s].start /\ m = MinLength /\ m > 0
  <2>1. segments[s].start \in Nat
    BY <1>1, <1>4, Order
  <2>2. MinLength \in Nat /\ MinLength > 0
    BY ImageBounds
  <2> QED
    BY <2>1, <2>2
<1>7. cursor = a + 1 => HeaderAt(data, cursor)
  BY <1>1, <1>4, <1>5, <1>6, NextBlock
<1>8. ASSUME HeaderAt(data, cursor)
      PROVE  cursor = a + 1
  <2>1. CASE cursor = 1 /\ s = 1
    <3>1. cursor \in Nat /\ 1 <= cursor
      BY <2>1
    <3>2. PICK u \in 1..Len(segments) : cursor = segments[u].start + 1
      BY <1>1, <1>8, <3>1, HeadersAre
    <3>3. CASE u = s
      BY <1>6, <3>2, <3>3
    <3>4. CASE s < u
      <4>1. a + m <= segments[u].start /\ segments[u].start \in Nat
        BY <1>1, <1>4, <1>6, <3>4, Order
      <4> QED
        BY <1>6, <2>1, <3>2, <4>1
    <3> QED
      BY <2>1, <3>3, <3>4
  <2> QED
    BY <1>5, <1>6, <2>1
<1>9. ASSUME ~ HeaderAt(data, cursor)
      PROVE  /\ s = 1 /\ cursor = 1
             /\ Headers(data, cursor + 1) # {}
             /\ Min(Headers(data, cursor + 1)) = segments[s].start + 1
  <2>1. s = 1 /\ cursor = 1 /\ a # 0
    BY <1>5, <1>6, <1>7, <1>9
  <2>2. PICK f \in Nat : f = cursor + 1 /\ 1 <= f /\ f <= a + 1
    <3>1. 2 \in Nat /\ 2 = cursor + 1 /\ 2 <= a + 1
      BY <1>6, <2>1
    <3> QED
      BY <3>1
  <2>3. \A u \in 1..Len(segments) : u < s => segments[u].start + 1 < f
    BY <2>1
  <2>4. Headers(data, f) # {} /\ Min(Headers(data, f)) = segments[s].start + 1
    BY <1>1, <1>4, <1>5, <1>6, <2>2, <2>3, FindsSegment
  <2> QED
    BY <2>1, <2>2, <2>4
<1> QED
  BY <1>4, <1>5, <1>6, <1>8, <1>9

-----------------------------------------------------------------------------
(* The steps.                                                              *)

\* Before the first segment.
LEMMA ImageInitially == ImageInit => ImageInv
<1> SUFFICES ASSUME ImageInit
             PROVE  ImageInv
  OBVIOUS
<1>1. PICK n \in Before : encrypted = Bytes("before", 0, n)
  BY DEF ImageInit
<1>2. PICK e : e = encrypted
  OBVIOUS
<1>10. PICK z \in Nat : z = 0
  OBVIOUS
<1>3. n \in Nat
  BY ImageBounds
<1>4. /\ e \in Seq(AnyByte) /\ Len(e) = n
      /\ \A k \in Nat : 1 <= k /\ k <= n => e[k] = Byte("before", z, k)
  <2>1. e = Bytes("before", z, n)
    BY <1>1, <1>2, <1>10
  <2> QED
    BY <1>3, <2>1, BytesProperties
<1>5. \A i \in Nat : ~ (1 <= i /\ i <= Len(e) /\ e[i] = Byte("header", 0, 1))
  <2> SUFFICES ASSUME NEW i \in Nat, 1 <= i, i <= Len(e), e[i] = Byte("header", 0, 1)
               PROVE  FALSE
    OBVIOUS
  <2>1. Byte("before", z, i) = Byte("header", 0, 1)
    BY <1>4
  <2>2. "before" = "header"
    BY <2>1, BytesDiffer
  <2> QED
    BY <2>2
<1>6. original = <<>> /\ segments = <<>> /\ blocks = <<>>
  BY DEF ImageInit
<1>7. Camera(encrypted, original, segments)
  <2>1. /\ original \in Seq(AnyByte) /\ segments \in Seq(SegmentRecord)
        /\ Len(original) = 0 /\ 1..Len(segments) = {}
    BY <1>6
  <2> QED
    BY <1>2, <1>4, <1>5, <2>1 DEF Camera
<1>8. blocks \in Seq(BlockRecord)
  BY <1>6
<1>9. /\ looks \in 0..Block /\ code = "none" /\ phase = "camera" /\ Waits
  BY DEF ImageInit, Waits
<1> QED
  BY <1>7, <1>8, <1>9 DEF ImageInv

\* The camera adds a segment: nothing is decrypted yet.
LEMMA CameraEncryptsStep == ImageInv /\ CameraEncrypts => ImageInv'
<1> SUFFICES ASSUME ImageInv, CameraEncrypts
             PROVE  ImageInv'
  OBVIOUS
<1>1. PICK size \in {n * Block : n \in 1..MaxBlocks}, padding \in 1..Block :
          SegmentAdded(encrypted, original, segments, size, padding,
                       encrypted', original', segments')
  BY DEF CameraEncrypts, SegmentAdded
<1>2. Camera(encrypted', original', segments')
  BY <1>1, NextSegment DEF ImageInv
<1>3. /\ phase = "camera" /\ phase' = phase /\ Waits /\ Waits'
      /\ looks' = looks /\ code' = code /\ blocks' = blocks
  BY DEF CameraEncrypts, ImageInv, Waits
<1> QED
  BY <1>2, <1>3 DEF ImageInv

\* The answer arrives: without a header, without a code or too short for one it is done,
\* else it holds the header of the first segment.
LEMMA ImageArrivesStep == ImageInv /\ ImageArrives => ImageInv'
<1> SUFFICES ASSUME ImageInv, ImageArrives
             PROVE  ImageInv'
  OBVIOUS
<1>1. /\ encrypted' = encrypted /\ original' = original /\ segments' = segments
      /\ looks' = looks /\ cursor' = cursor /\ blocks' = blocks /\ joined' = joined
      /\ phase = "camera" /\ segments # <<>>
      /\ data' \in {SubSeq(encrypted, 1, n) : n \in 1..Len(encrypted)}
      /\ code' \in {"right", "wrong", "none"}
  BY DEF ImageArrives
<1>2. Camera(encrypted, original, segments) /\ Waits
  BY <1>1 DEF ImageInv
<1>3. Answer(data', encrypted, original, segments)
  BY <1>1, <1>2, AnswerArrives
<1>4. Headers(data', 1) # {} <=> Arrived(data', segments[1])
  BY <1>3, FirstArrived
<1>5. ASSUME data' = encrypted
      PROVE  Headers(data', 1) # {} /\ Len(data') >= MinLength
  <2>1. 1 \in 1..Len(segments)
    BY <1>1, <1>2 DEF Camera
  <2>2. Answer(encrypted, encrypted, original, segments)
    BY <1>3, <1>5
  <2>3. Arrived(encrypted, segments[1]) /\ segments[1].start + MinLength <= Len(encrypted)
    BY <2>1, <2>2, WholeAnswer
  <2>4. segments[1].start \in Nat /\ MinLength \in Nat
    BY <1>2, <2>1, Order, ImageBounds
  <2>5. Len(encrypted) \in Nat
    BY <1>2 DEF Camera
  <2> QED
    BY <1>4, <1>5, <2>3, <2>4, <2>5
<1>6. /\ Camera(encrypted', original', segments') /\ looks' \in 0..Block
      /\ blocks' \in Seq(BlockRecord)
  BY <1>1, <1>2 DEF ImageInv
<1>7. CASE /\ Headers(data', 1) = {}
           /\ phase' = "done" /\ picture' = Given(data')
  <2>1. ~ (Len(data') >= segments[1].start + HeaderLen)
    <3>1. 1 \in 1..Len(segments)
      BY <1>1, <1>2 DEF Camera
    <3>2. segments[1].start \in Nat /\ HeaderLen \in Nat /\ Len(data') \in Nat
      BY <1>2, <1>3, <3>1, Order, ImageBounds DEF Answer
    <3> QED
      BY <1>4, <1>7, <3>2 DEF Arrived
  <2>2. CutPictureIsPrefix'
    BY <1>1, <2>1 DEF CutPictureIsPrefix
  <2>3. WholePictureIsExact'
    BY <1>1, <1>5, <1>7 DEF WholePictureIsExact
  <2> QED
    BY <1>1, <1>6, <1>7, <2>2, <2>3 DEF ImageInv
<1>8. CASE /\ Headers(data', 1) # {}
           /\ code' = "none" \/ Len(data') < MinLength
           /\ phase' = "done" /\ picture' = Error
  <2>1. CutPictureIsPrefix'
    BY <1>8 DEF CutPictureIsPrefix, Error
  <2>2. data' = encrypted' => code' # "right"
    <3>1. Len(data') \in Nat /\ MinLength \in Nat
      BY <1>3, ImageBounds DEF Answer
    <3> QED
      BY <1>1, <1>5, <1>8, <3>1
  <2>3. WholePictureIsExact'
    BY <1>8, <2>2 DEF WholePictureIsExact
  <2> QED
    BY <1>1, <1>6, <1>8, <2>1, <2>3 DEF ImageInv
<1>9. CASE /\ Headers(data', 1) # {} /\ code' # "none"
           /\ phase' = "split" /\ picture' = picture
  <2>1. Answered'
    BY <1>1, <1>3 DEF Answered
  <2>2. Len(blocks') = 0 /\ 1..Len(blocks') = {} /\ Len(blocks') + 1 = 1 /\ Len(segments') > 0
    BY <1>1, <1>2, <1>3 DEF Waits, Answer
  <2>3. Arrived(data', segments'[Len(blocks') + 1])
    BY <1>1, <1>4, <1>9, <2>2
  <2>4. SplitInv'
    BY <1>1, <1>2, <1>9, <2>1, <2>2, <2>3 DEF SplitInv, Waits
  <2> QED
    BY <1>1, <1>6, <1>9, <2>4 DEF ImageInv
<1> QED
  BY <1>7, <1>8, <1>9 DEF ImageArrives

\* The cursor gets to the header of the first segment.
LEMMA SkipToHeaderStep == ImageInv /\ SkipToHeader => ImageInv'
<1> SUFFICES ASSUME ImageInv, SkipToHeader
             PROVE  ImageInv'
  OBVIOUS
<1>1. /\ phase = "split" /\ phase' = phase /\ ~ HeaderAt(data, cursor)
      /\ cursor' = Min(Headers(data, cursor + 1))
      /\ encrypted' = encrypted /\ original' = original /\ segments' = segments
      /\ looks' = looks /\ code' = code /\ data' = data /\ blocks' = blocks
      /\ joined' = joined /\ picture' = picture
  BY DEF SkipToHeader
<1>2. SplitInv /\ blocks \in Seq(BlockRecord)
  BY <1>1 DEF ImageInv
<1>3. PICK s \in 1..Len(segments) :
          s = Len(blocks) + 1 /\ Min(Headers(data, cursor + 1)) = segments[s].start + 1
  BY <1>1, <1>2, AtHeader
<1>4. cursor' = segments[Len(blocks) + 1].start + 1
  BY <1>1, <1>3
<1>5. SplitInv'
  BY <1>1, <1>2, <1>4 DEF SplitInv, Answered, BlockIs
<1> QED
  BY <1>1, <1>2, <1>5 DEF ImageInv

\* Nothing is a beginning of any picture.
LEMMA NothingJoined ==
    ASSUME NEW o \in Seq(AnyByte), NEW p, p = Given(<<>>)
    PROVE  /\ p = Given(p.data) /\ p.data \in Seq(AnyByte)
           /\ Longer(p.data, o) /\ Len(p.data) = 0
<1>1. p.data = <<>>
  BY DEF Given
<1>2. PICK e : e = <<>>
  OBVIOUS
<1>3. e \in Seq(AnyByte) /\ Len(e) = 0
  BY <1>2
<1>4. PICK n \in Nat : n = Len(o)
  OBVIOUS
<1>5. Longer(e, o)
  <2>1. \A k \in Nat : ~ (1 <= k /\ k <= 0)
    OBVIOUS
  <2> QED
    BY <1>3, <1>4, <2>1 DEF Longer
<1> QED
  BY <1>1, <1>2, <1>3, <1>5

\* The block taken is the segment the cursor is at, up to the next header or the end.
LEMMA TakeBlockStep == ImageInv /\ TakeBlock => ImageInv'
<1> SUFFICES ASSUME ImageInv, TakeBlock
             PROVE  ImageInv'
  OBVIOUS
<1>1. /\ phase = "split" /\ TakesBlock
      /\ blocks' = Append(blocks, [first |-> cursor, last |-> BlockEnd])
      /\ NextHeaders = {} => phase' = "decrypt" /\ cursor' = cursor
      /\ NextHeaders # {} => cursor' = Min(NextHeaders) /\ phase' = phase
      /\ encrypted' = encrypted /\ original' = original /\ segments' = segments
      /\ looks' = looks /\ code' = code /\ data' = data
      /\ joined' = joined /\ picture' = picture
  BY DEF TakeBlock
<1>2. SplitInv /\ blocks \in Seq(BlockRecord)
  BY <1>1 DEF ImageInv
<1>3. HeaderAt(data, cursor) /\ BlockEnd + 1 >= cursor + MinLength
  BY <1>1 DEF TakesBlock
<1>4. PICK s \in 1..Len(segments) :
          s = Len(blocks) + 1 /\ Arrived(data, segments[s]) /\ cursor = segments[s].start + 1
  BY <1>2, <1>3, AtHeader
<1>5. /\ Answered /\ Answer(data, encrypted, original, segments)
      /\ Camera(encrypted, original, segments)
  BY <1>2 DEF SplitInv, Answered, Answer
<1>6. PICK n \in Nat, d \in Nat, l \in Nat, h \in Nat, m \in Nat :
          /\ n = Len(segments) /\ d = Len(data) /\ l = Len(blocks)
          /\ h = HeaderLen /\ h > 0 /\ m = MinLength
  <2>1. Len(segments) \in Nat /\ Len(data) \in Nat
    BY <1>5, AnswerNumbers
  <2>2. Len(blocks) \in Nat
    BY <1>2
  <2> QED
    BY <2>1, <2>2, ImageBounds
<1>7. PICK a \in Nat, b \in Nat : a = segments[s].start /\ b = EndOf(segments[s])
  <2>1. segments[s].start \in Nat /\ EndOf(segments[s]) \in Nat
    BY <1>5, Order
  <2> QED
    BY <2>1
<1>8. s \in Nat /\ s = l + 1 /\ s <= n
  BY <1>4, <1>6
<1>9. /\ s < n /\ Arrived(data, segments[s + 1]) =>
             NextHeaders # {} /\ Min(NextHeaders) = segments[s + 1].start + 1 /\ BlockEnd = b
      /\ ~ (s < n /\ Arrived(data, segments[s + 1])) =>
             NextHeaders = {} /\ BlockEnd = d /\ d < b + h
  BY <1>4, <1>5, <1>6, <1>7, NextBlock
<1>10. PICK e \in Nat : e = BlockEnd
  BY <1>9
<1>11. a + m <= e
  <2>1. cursor = a + 1
    BY <1>4, <1>7
  <2>2. e + 1 >= a + 1 + m
    BY <1>3, <1>6, <1>10, <2>1
  <2> QED
    BY <2>2
<1>12. PICK new \in BlockRecord : new = [first |-> cursor, last |-> BlockEnd]
  <2>1. cursor \in Nat /\ BlockEnd \in Nat
    BY <1>4, <1>7, <1>10
  <2> QED
    BY <2>1 DEF BlockRecord
<1>13. new.first = a + 1 /\ new.last = e
  BY <1>4, <1>7, <1>10, <1>12
<1>14. /\ blocks' \in Seq(BlockRecord) /\ Len(blocks') = s /\ blocks'[s] = new
       /\ \A u \in 1..l : blocks'[u] = blocks[u]
  <2>1. blocks' = Append(blocks, new)
    BY <1>1, <1>12
  <2>2. /\ Append(blocks, new) \in Seq(BlockRecord) /\ Len(Append(blocks, new)) = l + 1
        /\ Append(blocks, new)[l + 1] = new
        /\ \A u \in 1..l : Append(blocks, new)[u] = blocks[u]
    BY <1>2, <1>6
  <2> QED
    BY <1>8, <2>1, <2>2
<1>15. \A u \in 1..s : u = s \/ u \in 1..l
  BY <1>6, <1>8
<1>16. \A u \in 1..l : BlockIs(u)' /\ blocks'[u].last = EndOf(segments'[u])
  <2>1. \A u \in 1..l : BlockIs(u) /\ blocks[u].last = EndOf(segments[u])
    BY <1>2, <1>6 DEF SplitInv
  <2> QED
    BY <1>1, <1>14, <2>1 DEF BlockIs
<1>17. /\ Camera(encrypted', original', segments') /\ looks' \in 0..Block
       /\ code' \in {"right", "wrong", "none"} /\ blocks' \in Seq(BlockRecord)
       /\ Answered'
  BY <1>1, <1>5, <1>14 DEF ImageInv, Answered
<1>18. ASSUME e <= d, e < b + h
       PROVE  BlockIs(s)'
  <2>1. /\ blocks'[s].first = a + 1 /\ blocks'[s].last = e
        /\ segments'[s].start = a /\ EndOf(segments'[s]) = b /\ Len(data') = d
    BY <1>1, <1>6, <1>7, <1>13, <1>14
  <2> QED
    BY <1>6, <1>11, <1>18, <2>1 DEF BlockIs
<1>19. CASE s < n /\ Arrived(data, segments[s + 1])
  <2>1. e = b /\ phase' = "split" /\ cursor' = segments[s + 1].start + 1
    BY <1>1, <1>9, <1>10, <1>19
  <2>2. b <= d
    <3>1. s + 1 \in 1..n /\ s \in 1..n /\ s < s + 1
      BY <1>8, <1>19
    <3>2. b <= segments[s + 1].start /\ segments[s + 1].start \in Nat
      BY <1>5, <1>6, <1>7, <3>1, Order
    <3> QED
      BY <1>6, <1>19, <3>2 DEF Arrived
  <2>3. BlockIs(s)' /\ blocks'[s].last = EndOf(segments'[s])
    <3>1. e <= d /\ e < b + h
      BY <1>6, <2>1, <2>2
    <3> QED
      BY <1>1, <1>7, <1>13, <1>14, <1>18, <2>1, <3>1
  <2>4. \A u \in 1..Len(blocks') : BlockIs(u)' /\ blocks'[u].last = EndOf(segments'[u])
    BY <1>14, <1>15, <1>16, <2>3
  <2>5. /\ Len(blocks') < Len(segments') /\ Arrived(data', segments'[Len(blocks') + 1])
        /\ cursor' = segments'[Len(blocks') + 1].start + 1
    BY <1>1, <1>6, <1>14, <1>19, <2>1
  <2>6. code' # "none" /\ joined' = 0 /\ picture' = Given(<<>>)
    BY <1>1, <1>2 DEF SplitInv
  <2>7. SplitInv'
    BY <1>17, <2>4, <2>5, <2>6 DEF SplitInv
  <2> QED
    BY <1>17, <2>1, <2>7 DEF ImageInv
<1>20. CASE ~ (s < n /\ Arrived(data, segments[s + 1]))
  <2>1. e = d /\ d < b + h /\ phase' = "decrypt"
    BY <1>1, <1>9, <1>10, <1>20
  <2>2. BlockIs(s)'
    <3>1. e <= d /\ e < b + h
      BY <2>1
    <3> QED
      BY <1>18, <3>1
  <2>3. ASSUME data = encrypted
        PROVE  s = n /\ e = b
    <3>1. s = n
      <4>1. CASE s < n
        <5>1. s + 1 \in 1..Len(segments)
          BY <1>6, <1>8, <4>1
        <5>2. Arrived(data, segments[s + 1])
          BY <1>5, <2>3, <5>1, WholeArrived
        <5> QED
          BY <1>20, <4>1, <5>2
      <4> QED
        BY <1>6, <1>8, <4>1
    <3>2. b = Len(encrypted)
      BY <1>5, <1>6, <1>7, <3>1 DEF Camera
    <3> QED
      BY <1>6, <2>1, <2>3, <3>1, <3>2
  <2>4. \A u \in 1..Len(blocks') :
            /\ BlockIs(u)'
            /\ u < Len(blocks') \/ data' = encrypted' => blocks'[u].last = EndOf(segments'[u])
    <3>1. data' = encrypted' => blocks'[s].last = EndOf(segments'[s])
      BY <1>1, <1>7, <1>13, <1>14, <2>3
    <3>2. ~ (s < s)
      BY <1>8
    <3> QED
      BY <1>14, <1>15, <1>16, <2>2, <3>1, <3>2
  <2>5. code' # "none" /\ joined' = 0 /\ picture' = Given(<<>>)
    BY <1>1, <1>2 DEF SplitInv
  <2>6. /\ picture' = Given(picture'.data) /\ picture'.data \in Seq(AnyByte)
        /\ Longer(picture'.data, original') /\ Len(picture'.data) = 0
    <3>1. original' \in Seq(AnyByte)
      BY <1>17 DEF Camera
    <3> QED
      BY <2>5, <3>1, NothingJoined
  <2>7. /\ Len(blocks') <= Len(segments') /\ Len(blocks') > 0
        /\ data' = encrypted' => Len(blocks') = Len(segments')
        /\ joined' \in 0..Len(blocks') /\ ~ (joined' > 0) /\ (Holds(joined))' = 0
    BY <1>1, <1>6, <1>8, <1>14, <2>3, <2>5 DEF Holds
  <2>8. DecryptInv'
    BY <1>17, <2>4, <2>5, <2>6, <2>7 DEF DecryptInv
  <2> QED
    BY <1>17, <2>1, <2>8 DEF ImageInv
<1> QED
  BY <1>19, <1>20

\* The loop is left early only where the answer is cut.
LEMMA SplitEndsStep == ImageInv /\ SplitEnds => ImageInv'
<1> SUFFICES ASSUME ImageInv, SplitEnds
             PROVE  ImageInv'
  OBVIOUS
<1>1. /\ phase = "split" /\ ~ TakesBlock
      /\ RoomAtCursor /\ ~ HeaderAt(data, cursor) => Headers(data, cursor + 1) = {}
      /\ blocks = <<>> => phase' = "done" /\ picture' = Error
      /\ blocks # <<>> => phase' = "decrypt" /\ picture' = picture
      /\ encrypted' = encrypted /\ original' = original /\ segments' = segments
      /\ looks' = looks /\ code' = code /\ data' = data /\ cursor' = cursor
      /\ blocks' = blocks /\ joined' = joined
  BY DEF SplitEnds
<1>2. SplitInv /\ blocks \in Seq(BlockRecord)
  BY <1>1 DEF ImageInv
<1>3. /\ Answered /\ Answer(data, encrypted, original, segments)
      /\ Camera(encrypted, original, segments)
  BY <1>2 DEF SplitInv, Answered, Answer
<1>4. data # encrypted
  <2> SUFFICES ASSUME data = encrypted
               PROVE  FALSE
    OBVIOUS
  <2>1. PICK s \in 1..Len(segments) :
            /\ Arrived(data, segments[s])
            /\ HeaderAt(data, cursor) => cursor = segments[s].start + 1
            /\ ~ HeaderAt(data, cursor) => s = 1 /\ cursor = 1 /\ Headers(data, cursor + 1) # {}
    BY <1>2, AtHeader
  <2>2. segments[s].start + MinLength <= Len(data)
    BY <1>3, WholeArrived
  <2>3. PICK a \in Nat, b \in Nat, d \in Nat, m \in Nat, n \in Nat :
            /\ a = segments[s].start /\ b = EndOf(segments[s]) /\ d = Len(data)
            /\ m = MinLength /\ n = Len(segments)
    <3>1. segments[s].start \in Nat /\ EndOf(segments[s]) \in Nat
      BY <1>3, Order
    <3>2. Len(data) \in Nat /\ Len(segments) \in Nat
      BY <1>3, AnswerNumbers
    <3> QED
      BY <3>1, <3>2, ImageBounds
  <2>4. a + m <= d /\ a + m <= b
    <3>1. segments[s] \in SegmentRecord
      BY <1>3 DEF Camera
    <3> QED
      BY <2>2, <2>3, <3>1, RecordNumbers
  <2>5. RoomAtCursor
    BY <2>1, <2>3, <2>4 DEF RoomAtCursor
  <2>6. HeaderAt(data, cursor) /\ cursor = a + 1
    BY <1>1, <2>1, <2>3, <2>5
  <2>7. BlockEnd = b \/ BlockEnd = d
    BY <1>3, <2>1, <2>3, <2>6, NextBlock
  <2>8. BlockEnd + 1 >= cursor + MinLength
    <3>1. PICK e \in Nat : e = BlockEnd
      BY <2>3, <2>7
    <3>2. a + m <= e
      BY <2>4, <2>7, <3>1
    <3>3. e + 1 >= a + 1 + m
      BY <3>2
    <3> QED
      BY <2>3, <2>6, <3>1, <3>3
  <2> QED
    BY <1>1, <2>5, <2>6, <2>8 DEF TakesBlock
<1>5. /\ Camera(encrypted', original', segments') /\ looks' \in 0..Block
      /\ code' \in {"right", "wrong", "none"} /\ blocks' \in Seq(BlockRecord)
      /\ Answered'
  BY <1>1, <1>2, <1>3 DEF ImageInv, Answered
<1>6. CASE blocks = <<>>
  <2>1. CutPictureIsPrefix' /\ WholePictureIsExact'
    BY <1>1, <1>4, <1>6 DEF CutPictureIsPrefix, WholePictureIsExact, Error
  <2> QED
    BY <1>1, <1>5, <1>6, <2>1 DEF ImageInv
<1>7. CASE blocks # <<>>
  <2>1. PICK l \in Nat, n \in Nat : l = Len(blocks) /\ l > 0 /\ n = Len(segments) /\ l < n
    <3>1. Len(blocks) \in Nat /\ Len(blocks) > 0
      BY <1>2, <1>7
    <3>2. Len(segments) \in Nat /\ Len(blocks) < Len(segments)
      BY <1>2, <1>3, AnswerNumbers DEF SplitInv
    <3> QED
      BY <3>1, <3>2
  <2>2. \A u \in 1..Len(blocks') : BlockIs(u)' /\ blocks'[u].last = EndOf(segments'[u])
    BY <1>1, <1>2 DEF SplitInv, BlockIs
  <2>3. code' # "none" /\ joined' = 0 /\ picture' = Given(<<>>)
    BY <1>1, <1>2, <1>7 DEF SplitInv
  <2>4. /\ picture' = Given(picture'.data) /\ picture'.data \in Seq(AnyByte)
        /\ Longer(picture'.data, original') /\ Len(picture'.data) = 0
    <3>1. original' \in Seq(AnyByte)
      BY <1>5 DEF Camera
    <3> QED
      BY <2>3, <3>1, NothingJoined
  <2>5. /\ Len(blocks') <= Len(segments') /\ Len(blocks') > 0
        /\ data' # encrypted'
        /\ joined' \in 0..Len(blocks') /\ ~ (joined' > 0) /\ (Holds(joined))' = 0
    BY <1>1, <1>4, <2>1, <2>3 DEF Holds
  <2>6. DecryptInv'
    BY <1>5, <2>2, <2>3, <2>4, <2>5 DEF DecryptInv
  <2> QED
    BY <1>1, <1>5, <1>7, <2>6 DEF ImageInv
<1> QED
  BY <1>6, <1>7

\* The next block and what it decrypts to.
LEMMA NextPlain ==
    ASSUME DecryptInv, blocks \in Seq(BlockRecord), joined < Len(blocks)
    PROVE  \E s \in 1..Len(segments), m \in Nat :
               /\ s = joined + 1 /\ s <= Len(blocks) /\ Camera(encrypted, original, segments)
               /\ DecryptBlock(SubSeq(data, blocks[s].first + MinLength, blocks[s].last))
                      = Bytes("plain", s, m)
               /\ m <= segments[s].size
               /\ s < Len(blocks) \/ data = encrypted => m = segments[s].size
               /\ m < segments[s].size => m + Block <= segments[s].size
               /\ 0 < segments[s].size
<1>1. /\ Answered /\ Answer(data, encrypted, original, segments)
      /\ Camera(encrypted, original, segments)
  BY DEF DecryptInv, Answered, Answer
<1>2. PICK n \in Nat, l \in Nat, j \in Nat :
          n = Len(segments) /\ l = Len(blocks) /\ j = joined /\ j < l /\ l <= n
  <2>1. Len(segments) \in Nat /\ Len(blocks) \in Nat
    BY <1>1, AnswerNumbers
  <2>2. joined \in 0..Len(blocks) /\ Len(blocks) <= Len(segments)
    BY DEF DecryptInv
  <2> QED
    BY <2>1, <2>2
<1>3. PICK s \in Nat : s = j + 1
  BY <1>2
<1>4. s \in 1..Len(segments) /\ s \in 1..Len(blocks) /\ s = joined + 1
  BY <1>2, <1>3
<1>5. BlockIs(s) /\ (s < Len(blocks) \/ data = encrypted => blocks[s].last = EndOf(segments[s]))
  BY <1>4 DEF DecryptInv
<1>6. PICK last \in Nat : last = blocks[s].last
  BY <1>5 DEF BlockIs
<1>7. /\ segments[s].start + MinLength <= last /\ last <= Len(data)
      /\ last < EndOf(segments[s]) + HeaderLen
  BY <1>5, <1>6 DEF BlockIs
<1>8. PICK m \in Nat :
          /\ DecryptBlock(SubSeq(data, segments[s].start + 1 + MinLength, last))
                 = Bytes("plain", s, m)
          /\ m <= segments[s].size
          /\ last = EndOf(segments[s]) => m = segments[s].size
          /\ m < segments[s].size => m + Block <= segments[s].size
  BY <1>1, <1>4, <1>7, BlockDecrypted
<1>9. blocks[s].first + MinLength = segments[s].start + 1 + MinLength
  BY <1>5 DEF BlockIs
<1>10. 0 < segments[s].size
  <2>1. SegmentIs(encrypted, original, s, segments[s]) /\ segments[s] \in SegmentRecord
    BY <1>1, <1>4 DEF Camera
  <2>2. PICK b \in Nat : b > 0 /\ segments[s].size = b * Block
    BY <2>1 DEF SegmentIs
  <2>3. Block <= segments[s].size
    BY <2>2, SizeHoldsPadding
  <2> QED
    BY <2>1, <2>3, RecordNumbers, ImageBounds
<1>11. s <= Len(blocks)
  BY <1>4
<1> QED
  BY <1>1, <1>4, <1>5, <1>6, <1>8, <1>9, <1>10, <1>11

\* The next segment starts, in the original, where what has been joined ends.
LEMMA JoinsNext ==
    ASSUME DecryptInv, blocks \in Seq(BlockRecord), NEW s \in 1..Len(segments),
           s = joined + 1, s <= Len(blocks)
    PROVE  Len(picture.data) = segments[s].from /\ segments[s].from \in Nat
<1>1. Camera(encrypted, original, segments)
  BY DEF DecryptInv, Answered, Answer
<1>2. segments[s].from \in Nat
  BY <1>1, RecordNumbers DEF Camera
<1>3. PICK l \in Nat, j \in Nat : l = Len(blocks) /\ j = joined
  <2>1. Len(blocks) \in Nat
    OBVIOUS
  <2>2. joined \in 0..Len(blocks)
    BY DEF DecryptInv
  <2> QED
    BY <2>1, <2>2
<1>4. s \in Nat /\ s = j + 1 /\ j < l
  BY <1>3
<1>5. Len(picture.data) = Holds(joined)
  BY <1>3, <1>4 DEF DecryptInv
<1>6. CASE j = 0
  <2>1. s = 1
    BY <1>4, <1>6
  <2>2. segments[s].from = 0
    BY <1>1, <2>1 DEF Camera
  <2> QED
    BY <1>2, <1>3, <1>5, <1>6, <2>2 DEF Holds
<1>7. CASE j # 0
  <2>1. j \in 1..Len(segments)
    BY <1>4, <1>7
  <2>2. segments[s].from = UpTo(segments[j])
    BY <1>1, <1>4, <2>1 DEF Camera
  <2> QED
    BY <1>2, <1>3, <1>5, <1>7, <2>2 DEF Holds
<1> QED
  BY <1>6, <1>7

\* A block adds the next part of the original, or fails them all.
LEMMA DecryptSegmentStep == ImageInv /\ DecryptSegment => ImageInv'
<1> SUFFICES ASSUME ImageInv, DecryptSegment
             PROVE  ImageInv'
  OBVIOUS
<1>1. /\ phase = "decrypt" /\ joined < Len(blocks)
      /\ encrypted' = encrypted /\ original' = original /\ segments' = segments
      /\ looks' = looks /\ code' = code /\ data' = data /\ cursor' = cursor
      /\ blocks' = blocks
  BY DEF DecryptSegment
<1>2. PICK plain :
          /\ plain = DecryptBlock(SubSeq(data, blocks[joined + 1].first + MinLength,
                                               blocks[joined + 1].last))
          /\ code # "right" \/ plain = <<>> =>
                 phase' = "done" /\ picture' = Error /\ joined' = joined
          /\ ~ (code # "right" \/ plain = <<>>) =>
                 /\ picture' = Given(picture.data \o Unpadded(plain))
                 /\ joined' = joined + 1 /\ phase' = phase
  BY DEF DecryptSegment
<1>3. DecryptInv /\ blocks \in Seq(BlockRecord)
  BY <1>1 DEF ImageInv
<1>4. PICK s \in 1..Len(segments), m \in Nat :
          /\ s = joined + 1 /\ s <= Len(blocks) /\ Camera(encrypted, original, segments)
          /\ DecryptBlock(SubSeq(data, blocks[s].first + MinLength, blocks[s].last))
                 = Bytes("plain", s, m)
          /\ m <= segments[s].size
          /\ s < Len(blocks) \/ data = encrypted => m = segments[s].size
          /\ m < segments[s].size => m + Block <= segments[s].size
          /\ 0 < segments[s].size
  BY <1>1, <1>3, NextPlain
<1>5. plain = Bytes("plain", s, m)
  BY <1>2, <1>4
<1>6. s \in Nat /\ segments[s].size \in Nat
  BY <1>4, RecordNumbers DEF Camera
<1>7. plain = <<>> <=> m = 0
  <2>1. plain \in Seq(AnyByte) /\ Len(plain) = m
    BY <1>5, <1>6, BytesProperties
  <2> QED
    BY <2>1
<1>8. /\ Camera(encrypted', original', segments') /\ looks' \in 0..Block
      /\ code' \in {"right", "wrong", "none"} /\ blocks' \in Seq(BlockRecord)
      /\ Answered'
  <2>1. Answered
    BY <1>3 DEF DecryptInv
  <2> QED
    BY <1>1, <1>4, <2>1 DEF ImageInv, Answered
<1>9. CASE code # "right" \/ plain = <<>>
  <2>1. data = encrypted => code # "right"
    BY <1>4, <1>6, <1>7, <1>9
  <2>2. CutPictureIsPrefix' /\ WholePictureIsExact'
    BY <1>1, <1>2, <1>9, <2>1 DEF CutPictureIsPrefix, WholePictureIsExact, Error
  <2> QED
    BY <1>2, <1>8, <1>9, <2>2 DEF ImageInv
<1>10. CASE ~ (code # "right" \/ plain = <<>>)
  <2>1. m > 0
    BY <1>7, <1>10
  <2>2. looks \in 0..Block
    BY DEF ImageInv
  <2>3. PICK d \in Nat :
            /\ Unpadded(plain) = Bytes("plain", s, d)
            /\ d <= segments[s].size - segments[s].padding
            /\ m = segments[s].size => d = segments[s].size - segments[s].padding
    BY <1>4, <1>5, <2>1, <2>2, PaddingRemoved
  <2>4. PICK b : b = Unpadded(plain)
    OBVIOUS
  <2>5. /\ b \in Seq(AnyByte) /\ Len(b) = d /\ PlainTo(b, s, d)
    <3>1. b = Bytes("plain", s, d)
      BY <2>3, <2>4
    <3>2. s \in Nat
      BY <1>6
    <3>3. /\ b \in Seq(AnyByte) /\ Len(b) = d
          /\ \A k \in Nat : 1 <= k /\ k <= d => b[k] = Byte("plain", s, k)
      BY <3>1, <3>2, BytesProperties
    <3> QED
      BY <3>3 DEF PlainTo
  <2>6. PICK f \in Nat : f = segments[s].from /\ f = Len(picture.data)
    BY <1>3, <1>4, JoinsNext
  <2>7. picture.data \in Seq(AnyByte) /\ Longer(picture.data, original)
    BY <1>3 DEF DecryptInv
  <2>8. PICK after : after = picture.data \o b
    OBVIOUS
  <2>9. after \in Seq(AnyByte) /\ Joined(after, picture.data, f, b, d)
    BY <2>5, <2>6, <2>7, <2>8, Join
  <2>10. Longer(after, original) /\ Len(after) = f + d
    <3>1. /\ Camera(encrypted, original, segments) /\ d <= segments[s].size - segments[s].padding
          /\ PlainTo(b, s, d) /\ f = segments[s].from /\ Len(picture.data) = f
          /\ Longer(picture.data, original) /\ Joined(after, picture.data, f, b, d)
      BY <1>4, <2>3, <2>5, <2>6, <2>7, <2>9
    <3>2. PICK before : before = picture.data
      OBVIOUS
    <3>3. /\ Longer(before, original) /\ Len(before) = f /\ Joined(after, before, f, b, d)
      BY <3>1, <3>2
    <3> QED
      BY <3>1, <3>3, JoinsSegment
  <2>11. picture' = Given(after) /\ joined' = s /\ phase' = "decrypt"
    BY <1>1, <1>2, <1>4, <1>10, <2>4, <2>8
  <2>12. /\ picture' = Given(picture'.data) /\ picture'.data \in Seq(AnyByte)
         /\ Longer(picture'.data, original') /\ Len(picture'.data) = f + d
    <3>1. picture'.data = after
      BY <2>11 DEF Given
    <3> QED
      BY <1>1, <2>9, <2>10, <2>11, <3>1
  <2>13. s < Len(blocks) \/ data = encrypted => f + d = (Holds(joined))'
    <3>1. PICK z \in Nat, p \in Nat : z = segments[s].size /\ p = segments[s].padding
      <4>1. segments[s] \in SegmentRecord
        BY <1>4 DEF Camera
      <4> QED
        BY <4>1, RecordNumbers
    <3>2. s < Len(blocks) \/ data = encrypted => d = z - p
      BY <1>4, <2>3, <3>1
    <3>3. UpTo(segments[s]) = f + z - p
      BY <2>6, <3>1 DEF UpTo
    <3>4. (Holds(joined))' = UpTo(segments[s])
      <4>1. joined' # 0 /\ segments'[joined'] = segments[s]
        BY <1>1, <1>6, <2>11
      <4> QED
        BY <4>1 DEF Holds
    <3> QED
      BY <3>1, <3>2, <3>3, <3>4
  <2>14. \A u \in 1..Len(blocks') :
             /\ BlockIs(u)'
             /\ u < Len(blocks') \/ data' = encrypted' => blocks'[u].last = EndOf(segments'[u])
    BY <1>1, <1>3 DEF DecryptInv, BlockIs
  <2>15. /\ code' # "none" /\ Len(blocks') <= Len(segments') /\ Len(blocks') > 0
         /\ data' = encrypted' => Len(blocks') = Len(segments')
    BY <1>1, <1>3 DEF DecryptInv
  <2>16. joined' \in 0..Len(blocks') /\ code' = "right"
    <3>1. Len(blocks) \in Nat
      BY <1>3
    <3> QED
      BY <1>1, <1>4, <1>6, <1>10, <2>11, <3>1
  <2>17. joined' < Len(blocks') \/ data' = encrypted' => Len(picture'.data) = (Holds(joined))'
    BY <1>1, <2>11, <2>12, <2>13
  <2>18. DecryptInv'
    BY <1>8, <2>12, <2>14, <2>15, <2>16, <2>17 DEF DecryptInv
  <2> QED
    BY <1>8, <2>11, <2>18 DEF ImageInv
<1> QED
  BY <1>9, <1>10

\* What is given has been joined from all blocks.
LEMMA GivesPictureStep == ImageInv /\ GivesPicture => ImageInv'
<1> SUFFICES ASSUME ImageInv, GivesPicture
             PROVE  ImageInv'
  OBVIOUS
<1>1. /\ phase = "decrypt" /\ joined = Len(blocks) /\ phase' = "done"
      /\ encrypted' = encrypted /\ original' = original /\ segments' = segments
      /\ looks' = looks /\ code' = code /\ data' = data /\ cursor' = cursor
      /\ blocks' = blocks /\ joined' = joined /\ picture' = picture
  BY DEF GivesPicture
<1>2. DecryptInv /\ blocks \in Seq(BlockRecord)
  BY <1>1 DEF ImageInv
<1>3. Camera(encrypted, original, segments) /\ original \in Seq(AnyByte)
  BY <1>2 DEF DecryptInv, Answered, Answer, Camera
<1>4. /\ picture = Given(picture.data) /\ picture.data \in Seq(AnyByte)
      /\ Longer(picture.data, original) /\ code = "right"
  BY <1>1, <1>2 DEF DecryptInv
<1>5. IsPrefix(picture.data, original)
  BY <1>3, <1>4, IsBeginning
<1>6. ASSUME data = encrypted
      PROVE  picture = Given(original)
  <2>1. Len(picture.data) = Holds(joined) /\ joined = Len(segments) /\ joined > 0
    BY <1>1, <1>2, <1>6 DEF DecryptInv
  <2>2. Len(segments) \in Nat
    BY <1>3 DEF Camera
  <2>3. joined \in 1..Len(segments)
    BY <2>1, <2>2
  <2>4. Holds(joined) = UpTo(segments[joined])
    BY <2>1 DEF Holds
  <2>5. UpTo(segments[joined]) = Len(original)
    BY <1>3, <2>1, <2>3 DEF Camera
  <2>6. picture.data = original
    BY <1>3, <1>4, <2>1, <2>4, <2>5, IsBeginning
  <2> QED
    BY <1>4, <2>6
<1>7. CutPictureIsPrefix'
  BY <1>1, <1>5 DEF CutPictureIsPrefix
<1>8. WholePictureIsExact'
  BY <1>1, <1>4, <1>6 DEF WholePictureIsExact
<1>9. /\ Camera(encrypted', original', segments') /\ looks' \in 0..Block
      /\ code' \in {"right", "wrong", "none"} /\ blocks' \in Seq(BlockRecord)
  BY <1>1, <1>2, <1>3 DEF ImageInv
<1> QED
  BY <1>1, <1>7, <1>8, <1>9 DEF ImageInv

\* A step of another component.
LEMMA ImageStutters == ImageInv /\ UNCHANGED imageVars => ImageInv'
BY DEF ImageInv, imageVars, Waits, SplitInv, DecryptInv, Answered, BlockIs, Holds,
       CutPictureIsPrefix, WholePictureIsExact, Value

\* The invariant holds throughout.
THEOREM ImageInvariance == ImageSpec => []ImageInv
<1>1. ImageInit => ImageInv
  BY ImageInitially
<1>2. ImageInv /\ [ImageNext]_imageVars => ImageInv'
  BY CameraEncryptsStep, ImageArrivesStep, SkipToHeaderStep, TakeBlockStep, SplitEndsStep,
     DecryptSegmentStep, GivesPictureStep, ImageStutters DEF ImageNext
<1> QED
  BY <1>1, <1>2, PTL DEF ImageSpec

\* decrypt_image() gives the beginning of the original or an error, wherever the answer is
\* cut, for any sizes of segments, any padding and anything that stands before them.
THEOREM ImagesAreCutCleanly == ImageSpec => []CutPictureIsPrefix
<1>1. ImageInv => CutPictureIsPrefix
  BY DEF ImageInv, CutPictureIsPrefix
<1> QED
  BY <1>1, ImageInvariance, PTL

\* decrypt_image() gives all of a picture that arrived whole, for any number of segments.
THEOREM WholeImagesAreExact == ImageSpec => []WholePictureIsExact
<1>1. ImageInv => WholePictureIsExact
  BY DEF ImageInv, WholePictureIsExact
<1> QED
  BY <1>1, ImageInvariance, PTL

-----------------------------------------------------------------------------
(* LanEndpoint.                                                            *)

\* What was read was read from blocks, by the one reading or by the other.
EndpointInv ==
    /\ cloud \in Blocks
    /\ device.of \in Blocks
    /\ device.local_ip = DeviceAddress(device.of)
    /\ fields.local_ip # None => /\ fields.of \in Blocks
                                 /\ fields.local_ip = EndpointAddress(fields.of)
    /\ dialed.host # None => /\ dialed.of \in Blocks
                             /\ dialed.host = EndpointAddress(dialed.of)

\* strip() drops blanks and nothing else.
LEMMA Stripped ==
    ASSUME NEW h, NEW b
    PROVE  Strip([host |-> h, blanks |-> b]) = [host |-> h, blanks |-> FALSE]
<1>1. ASSUME NEW c
      PROVE  [[host |-> h, blanks |-> b] EXCEPT !.blanks = c] = [host |-> h, blanks |-> c]
  OBVIOUS
<1> QED
  BY <1>1 DEF Strip

\* The two readings of the same blocks.
LEMMA TwoReadings ==
    ASSUME NEW wifi \in Blocks, EndpointAddress(wifi) # None
    PROVE  /\ EndpointAddress(wifi) = Strip(DeviceAddress(wifi))
           /\ EndpointAddress(wifi) \in {Strip(wifi.address), Strip(wifi.localIp)} \ {Empty}
<1>1. CASE WifiUsable(wifi)
  <2>1. EndpointAddress(wifi) = Strip(wifi.address)
    BY <1>1 DEF EndpointAddress
  <2>2. DeviceAddress(wifi) = Strip(wifi.address)
    BY <1>1 DEF DeviceAddress
  <2>3. Strip(Strip(wifi.address)) = Strip(wifi.address)
    <3>1. wifi.address \in Text
      BY DEF Blocks
    <3>2. PICK h, b : wifi.address = [host |-> h, blanks |-> b]
      BY <3>1 DEF Text, None
    <3>3. Strip(wifi.address) = [host |-> h, blanks |-> FALSE]
      BY <3>2, Stripped
    <3> QED
      BY <3>3, Stripped
  <2>4. Strip(wifi.address) # Empty
    BY <1>1 DEF WifiUsable
  <2> QED
    BY <2>1, <2>2, <2>3, <2>4
<1>2. CASE ~ WifiUsable(wifi)
  <2>1. /\ EndpointAddress(wifi) = Strip(wifi.localIp)
        /\ Strip(wifi.localIp) \notin {None, Empty}
    BY <1>2 DEF EndpointAddress
  <2>2. wifi.localIp # Empty
    <3>1. Strip(Empty) = Empty
      BY Stripped DEF Empty
    <3> QED
      BY <2>1, <3>1
  <2>3. DeviceAddress(wifi) = wifi.localIp
    BY <1>2, <2>2 DEF DeviceAddress
  <2> QED
    BY <2>1, <2>3
<1> QED
  BY <1>1, <1>2

\* Nothing has been read.
THEOREM EndpointInitially == EndpointInit => EndpointInv
<1> SUFFICES ASSUME EndpointInit PROVE EndpointInv
  OBVIOUS
<1>1. NoBlocks \in Blocks
  BY DEF NoBlocks, Blocks, Text
<1>2. DeviceAddress(NoBlocks) = None
  BY DEF DeviceAddress, WifiUsable, NoBlocks, Strip, None, Empty
<1> QED
  BY <1>1, <1>2 DEF EndpointInit, EndpointInv

\* The address a Camera has is always read from one set of blocks.
THEOREM EndpointStep == EndpointInv /\ [EndpointNext]_endpointVars => EndpointInv'
<1> SUFFICES ASSUME EndpointInv, [EndpointNext]_endpointVars PROVE EndpointInv'
  OBVIOUS
<1> USE DEF EndpointInv
<1>1. ASSUME fields' = Prepared(cloud)
      PROVE  fields'.of = cloud /\ fields'.local_ip = EndpointAddress(cloud)
  BY <1>1 DEF Prepared
<1>2. CASE CloudChanges
  BY <1>2 DEF CloudChanges
<1>3. CASE Cameras
  BY <1>3 DEF Cameras
<1>4. CASE PrepareLive
  BY <1>1, <1>4 DEF PrepareLive
<1>5. CASE Live
  <2>1. fields'.local_ip # None => /\ fields'.of \in Blocks
                                   /\ fields'.local_ip = EndpointAddress(fields'.of)
    BY <1>1, <1>5 DEF Live
  <2>2. dialed'.host = fields'.local_ip /\ dialed'.of = fields'.of
    BY <1>5 DEF Live, Dial
  <2> QED
    BY <1>5, <2>1, <2>2 DEF Live
<1>6. CASE UNCHANGED endpointVars
  BY <1>6 DEF endpointVars
<1> QED
  BY <1>2, <1>3, <1>4, <1>5, <1>6 DEF EndpointNext

\* The inductive invariant holds throughout.
THEOREM EndpointInvariance == EndpointSpec => []EndpointInv
<1> QED
  BY EndpointInitially, EndpointStep, PTL DEF EndpointSpec

\* Device.from_api() and DeviceEndpoint.from_connection() agree on where a camera is, and
\* no address is dialed that its blocks do not name.
THEOREM ReadingsAgree == EndpointSpec => []InventoryAgrees
<1>1. EndpointInv => InventoryAgrees
  BY TwoReadings DEF EndpointInv, InventoryAgrees
<1> QED
  BY <1>1, EndpointInvariance, PTL
=============================================================================
