---------------------------- MODULE ConnectionProofs ----------------------------
(***************************************************************************)
(* Proofs about Codec and Connection: what is written is what is read, for *)
(* requests and responses of any size, and what that means for a request   *)
(* over a connection.                                                      *)
(***************************************************************************)
EXTENDS Connection, SequenceTheorems, WellFoundedInduction, TLAPS

-----------------------------------------------------------------------------
\* Reading what was written.

\* Strings one after the other are a string.
LEMMA Concat ==
  ASSUME NEW s \in String, NEW t \in String
  PROVE  s \o t \in String
  BY ConcatProperties DEF String

\* It does not matter which are put together first.
LEMMA Assoc ==
  ASSUME NEW s \in String, NEW t \in String, NEW u \in String
  PROVE  (s \o t) \o u = s \o (t \o u)
  BY ConcatAssociative, SMTT(30) DEF String

\* A number is read from the front.
LEMMA NumberRead ==
  ASSUME NEW n \in Nat, NEW b \in String
  PROVE  number(<<n>> \o b) = Found(n, b)
<1>1. <<n>> \in Seq(Nat) /\ <<n>> \o b \in Seq(Nat) /\ Len(<<n>> \o b) = 1 + Len(b)
  BY DEF String
<1>2. <<n>> \o b # <<>>
  BY <1>1, LenProperties DEF String
<1>3. Head(<<n>> \o b) = n
  BY <1>1, <1>2 DEF String
<1>4. Tail(<<n>> \o b) = b
  <2>1. Len(Tail(<<n>> \o b)) = Len(b)
    BY <1>1, <1>2, HeadTailProperties, LenProperties DEF String
  <2>2. \A i \in 1..Len(b) : Tail(<<n>> \o b)[i] = b[i]
    BY <1>1, <1>2, ConcatProperties DEF String
  <2>3. QED
    BY <1>1, <1>2, <2>1, <2>2, HeadTailProperties, SeqEqual DEF String
<1>5. QED
  BY <1>2, <1>3, <1>4 DEF number

\* take gives what was put in front.
LEMMA TakeRead ==
  ASSUME NEW s \in String, NEW b \in String
  PROVE  take(s \o b, Len(s)) = Found(s, b)
<1>1. /\ s \o b \in Seq(Nat) /\ Len(s \o b) = Len(s) + Len(b)
      /\ Len(s) \in Nat /\ Len(b) \in Nat
  BY ConcatProperties, LenProperties DEF String
<1>2. SubSeq(s \o b, 1, Len(s)) = s
  <2>1. \A i \in 1..Len(s) : (s \o b)[i] = s[i] /\ s[i] \in Nat
    BY <1>1, ConcatProperties DEF String
  <2>2. SubSeq(s \o b, 1, Len(s)) \in Seq(Nat) /\ Len(SubSeq(s \o b, 1, Len(s))) = Len(s)
    BY <1>1, <2>1, SubSeqProperties
  <2>3. \A i \in 1..Len(s) : SubSeq(s \o b, 1, Len(s))[i] = s[i]
    BY <1>1, <2>1
  <2>4. QED
    BY <2>2, <2>3, SeqEqual DEF String
<1>3. SubSeq(s \o b, Len(s) + 1, Len(s \o b)) = b
  <2>1. \A i \in 1..Len(b) : (s \o b)[Len(s) + i] = b[i] /\ b[i] \in Nat
    BY <1>1, ConcatProperties DEF String
  <2>2. \A j \in (Len(s) + 1)..Len(s \o b) : (s \o b)[j] \in Nat
    BY <1>1, ElementOfSeq
  <2>3. /\ SubSeq(s \o b, Len(s) + 1, Len(s \o b)) \in Seq(Nat)
        /\ Len(SubSeq(s \o b, Len(s) + 1, Len(s \o b))) = Len(b)
    BY <1>1, <2>2, SubSeqProperties
  <2>4. \A i \in 1..Len(b) : SubSeq(s \o b, Len(s) + 1, Len(s \o b))[i] = b[i]
    BY <1>1, <2>1
  <2>5. QED
    BY <2>3, <2>4, SeqEqual DEF String
<1>4. ~ (Len(s) > Len(s \o b))
  BY <1>1
<1>5. QED
  BY <1>2, <1>3, <1>4, Zenon DEF take

\* A string is read as it was written, whatever its length.
LEMMA StringRead ==
  ASSUME NEW s \in String, NEW b \in String
  PROVE  /\ write_string(s) \in String
         /\ string(write_string(s) \o b) = Found(s, b)
<1>1. Len(s) \in Nat /\ <<Len(s)>> \in Seq(Nat) /\ s \o b \in Seq(Nat)
  BY LenProperties, ConcatProperties DEF String
<1>2. write_string(s) \in String
  BY <1>1, ConcatProperties DEF String, write_string
<1>3. write_string(s) \o b = <<Len(s)>> \o (s \o b)
  BY <1>1, ConcatAssociative DEF String, write_string
<1>4. number(write_string(s) \o b) = Found(Len(s), s \o b)
  BY <1>1, <1>3, NumberRead DEF String
<1>5. QED
  BY <1>2, <1>4, TakeRead DEF string, Found

\* A code of a table of names is read as its name.
LEMMA CodeRead ==
  ASSUME NEW names, NEW n \in Nat, DOMAIN names = 1..n,
         NEW name \in Range(names), NEW b \in String
  PROVE  /\ <<CodeOf(name, names)>> \in String
         /\ code(<<CodeOf(name, names)>> \o b, names) = Found(name, b)
<1>1. PICK i : i = CHOOSE j \in DOMAIN names : names[j] = name
  OBVIOUS
<1>2. i \in 1..n /\ names[i] = name
  BY <1>1 DEF Range
<1>3. CodeOf(name, names) = i - 1
  BY <1>1 DEF CodeOf
<1>4. i - 1 \in Nat /\ (i - 1) + 1 = i
  BY <1>2
<1>5. number(<<i - 1>> \o b) = Found(i - 1, b)
  BY <1>4, NumberRead
<1>6. code(<<i - 1>> \o b, names) = Found(name, b)
  <2>1. PICK m : m = number(<<i - 1>> \o b)
    OBVIOUS
  <2>2. m.ok /\ m.value = i - 1 /\ m.rest = b
    BY <1>5, <2>1 DEF Found
  <2>3. m.value + 1 = i /\ m.value + 1 \in DOMAIN names
    BY <1>2, <1>4, <2>2
  <2>4. names[m.value + 1] = name
    BY <1>2, <2>3
  <2>5. QED
    BY <2>1, <2>2, <2>3, <2>4, Zenon DEF code
<1>7. QED
  BY <1>3, <1>4, <1>6 DEF String

\* The tables of names.
LEMMA Names ==
  /\ DOMAIN Kind = 1..4 /\ DOMAIN ExecutionStatus = 1..6
  /\ Kind # <<>> /\ ExecutionStatus # <<>>
  BY DEF Kind, ExecutionStatus

\* An identity is read as it was written.
LEMMA IdentityRead ==
  ASSUME NEW x \in Identity, NEW b \in String
  PROVE  /\ write_identity(x) \in String
         /\ identity(write_identity(x) \o b) = Found(x, b)
<1>1. x.id \in String /\ x.id \in Uuids /\ x.kind \in Range(Kind)
  BY NoneAssumption DEF Identity
<1>2. PICK c : c = <<CodeOf(x.kind, Kind)>>
  OBVIOUS
<1>3. c \in String /\ code(c \o b, Kind) = Found(x.kind, b)
  BY <1>1, <1>2, Names, CodeRead
<1>4. c \o b \in String
  BY <1>3, ConcatProperties DEF String
<1>5. write_string(x.id) \in String
  BY <1>1, StringRead
<1>6. write_identity(x) = write_string(x.id) \o c
  BY <1>2 DEF write_identity
<1>7. write_identity(x) \in String
  BY <1>3, <1>5, <1>6, ConcatProperties DEF String
<1>8. write_identity(x) \o b = write_string(x.id) \o (c \o b)
  <2>1. (write_string(x.id) \o c) \o b = write_string(x.id) \o (c \o b)
    BY <1>3, <1>5, Assoc
  <2>2. QED
    BY <1>6, <2>1, Zenon
<1>9. string(write_identity(x) \o b) = Found(x.id, c \o b)
  BY <1>1, <1>4, <1>8, StringRead
<1>10. x = [id |-> x.id, kind |-> x.kind]
  BY DEF Identity
<1>11. PICK id : id = string(write_identity(x) \o b)
  OBVIOUS
<1>12. id.ok /\ id.value = x.id /\ id.rest = c \o b
  BY <1>9, <1>11 DEF Found
<1>13. PICK kind : kind = code(id.rest, Kind)
  OBVIOUS
<1>14. kind.ok /\ kind.value = x.kind /\ kind.rest = b
  BY <1>3, <1>12, <1>13 DEF Found
<1>15. identity(write_identity(x) \o b)
         = Where(id.ok /\ kind.ok /\ valid_identity(id.value),
                 Found([id |-> id.value, kind |-> kind.value], kind.rest))
  BY <1>11, <1>13, Zenon DEF identity
<1>16. QED
  BY <1>1, <1>7, <1>10, <1>12, <1>14, <1>15 DEF valid_identity, Where

\* Something that may be missing is read as it was written, when what follows the
\* tag is.
LEMMA OptionRead ==
  ASSUME NEW x, NEW w \in String, NEW b \in String, NEW present,
         x # None => present = Found(x, b)
  PROVE  /\ x = None => option(<<0>> \o b, present) = Found(x, b)
         /\ x # None => option(<<1>> \o (w \o b), present) = Found(x, b)
<1>1. w \o b \in String
  BY ConcatProperties DEF String
<1>2. ASSUME x = None
      PROVE  option(<<0>> \o b, present) = Found(x, b)
  <2>1. PICK tag : tag = number(<<0>> \o b)
    OBVIOUS
  <2>2. tag = Found(0, b)
    BY <2>1, NumberRead
  <2>3. tag.ok /\ tag.value = 0 /\ tag.rest = b
    BY <2>2 DEF Found
  <2>4. ~ (tag.ok /\ tag.value = 1)
    BY <2>3
  <2>5. QED
    BY <1>2, <2>1, <2>3, <2>4 DEF option
<1>3. ASSUME x # None
      PROVE  option(<<1>> \o (w \o b), present) = Found(x, b)
  <2>1. PICK tag : tag = number(<<1>> \o (w \o b))
    OBVIOUS
  <2>2. tag = Found(1, w \o b)
    BY <1>1, <2>1, NumberRead
  <2>3. tag.ok /\ tag.value = 1
    BY <2>2 DEF Found
  <2>4. ~ (tag.ok /\ tag.value = 0)
    BY <2>3
  <2>5. QED
    BY <1>3, <2>1, <2>3, <2>4 DEF option
<1>4. QED
  BY <1>2, <1>3

\* What follows the tag of something that is there.
LEMMA OptionRest ==
  ASSUME NEW x, x # None, NEW w \in String, NEW b \in String
  PROVE  /\ write_option(x, w) \o b = <<1>> \o (w \o b)
         /\ number(write_option(x, w) \o b).rest = w \o b
<1>1. w \o b \in String /\ <<1>> \in String
  BY ConcatProperties DEF String
<1>2. write_option(x, w) \o b = <<1>> \o (w \o b)
  BY <1>1, ConcatAssociative DEF String, write_option
<1>3. number(<<1>> \o (w \o b)) = Found(1, w \o b)
  BY <1>1, NumberRead
<1>4. QED
  BY <1>2, <1>3 DEF Found

\* What each kind of item is read with.
LEMMA ItemIs ==
  ASSUME NEW b
  PROVE  /\ item("byte", b) = number(b)
         /\ item("string", b) = string(b)
         /\ item("identity", b) = identity(b)
         /\ item("source", b) = option(b, identity(number(b).rest))
         /\ item("resources", b) = resources(b)
         /\ item("status", b) = code(b, ExecutionStatus)
         /\ item("error", b) = option(b, string(number(b).rest))
  BY DEF item

\* A source, or none, is read as it was written.
LEMMA SourceRead ==
  ASSUME NEW x \in Identity \cup {None}, NEW b \in String
  PROVE  /\ write_option(x, write_identity(x)) \in String
         /\ item("source", write_option(x, write_identity(x)) \o b) = Found(x, b)
<1>1. PICK w : w = write_option(x, write_identity(x))
  OBVIOUS
<1>2. CASE x = None
  <2>1. w = <<0>>
    BY <1>1, <1>2 DEF write_option
  <2>2. w \in String
    BY <2>1 DEF String
  <2>3. <<>> \in String
    BY DEF String
  <2>4. option(<<0>> \o b, identity(number(<<0>> \o b).rest)) = Found(x, b)
    BY <1>2, <2>3, OptionRead
  <2>5. QED
    BY <1>1, <2>1, <2>2, <2>4, ItemIs
<1>3. CASE x # None
  <2>1. x \in Identity /\ write_identity(x) \in String
    BY <1>3, IdentityRead DEF String
  <2>2. PICK v : v = write_identity(x)
    OBVIOUS
  <2>3. w \o b = <<1>> \o (v \o b) /\ number(w \o b).rest = v \o b
    BY <1>1, <1>3, <2>1, <2>2, OptionRest
  <2>4. identity(number(w \o b).rest) = Found(x, b)
    BY <2>1, <2>2, <2>3, IdentityRead
  <2>5. option(w \o b, identity(number(w \o b).rest)) = Found(x, b)
    BY <1>3, <2>1, <2>2, <2>3, <2>4, OptionRead
  <2>6. w = <<1>> \o v
    BY <1>1, <1>3, <2>2 DEF write_option
  <2>7. w \in String
    BY <2>1, <2>2, <2>6, ConcatProperties DEF String
  <2>8. QED
    BY <1>1, <2>5, <2>7, ItemIs
<1>4. QED
  BY <1>2, <1>3

\* An error, or none, is read as it was written.
LEMMA ErrorRead ==
  ASSUME NEW x \in String \cup {None}, NEW b \in String
  PROVE  /\ write_option(x, write_string(x)) \in String
         /\ item("error", write_option(x, write_string(x)) \o b) = Found(x, b)
<1>1. PICK w : w = write_option(x, write_string(x))
  OBVIOUS
<1>2. CASE x = None
  <2>1. w = <<0>>
    BY <1>1, <1>2 DEF write_option
  <2>2. w \in String
    BY <2>1 DEF String
  <2>3. <<>> \in String
    BY DEF String
  <2>4. option(<<0>> \o b, string(number(<<0>> \o b).rest)) = Found(x, b)
    BY <1>2, <2>3, OptionRead
  <2>5. QED
    BY <1>1, <2>1, <2>2, <2>4, ItemIs
<1>3. CASE x # None
  <2>1. x \in String /\ write_string(x) \in String
    BY <1>3, StringRead
  <2>2. PICK v : v = write_string(x)
    OBVIOUS
  <2>3. w \o b = <<1>> \o (v \o b) /\ number(w \o b).rest = v \o b
    BY <1>1, <1>3, <2>1, <2>2, OptionRest, ZenonT(40)
  <2>4. string(number(w \o b).rest) = Found(x, b)
    BY <2>1, <2>2, <2>3, StringRead
  <2>5. option(w \o b, string(number(w \o b).rest)) = Found(x, b)
    BY <1>3, <2>1, <2>2, <2>3, <2>4, OptionRead
  <2>6. w = <<1>> \o v
    BY <1>1, <1>3, <2>2 DEF write_option
  <2>7. w \in String
    BY <2>1, <2>2, <2>6, ConcatProperties DEF String
  <2>8. QED
    BY <1>1, <2>5, <2>7, ItemIs
<1>4. QED
  BY <1>2, <1>3

\* A function on 1..n is a sequence of length n.
LEMMA FixedString ==
  ASSUME NEW n \in Nat, NEW f \in [1..n -> Nat]
  PROVE  f \in String /\ Len(f) = n
<1>1. f = [i \in 1..n |-> f[i]]
  OBVIOUS
<1>2. [i \in 1..n |-> f[i]] \in Seq(Nat) /\ Len([i \in 1..n |-> f[i]]) = n
  OBVIOUS
<1>3. QED
  BY <1>1, <1>2, Zenon DEF String

\* A duration has no whole second among its nanoseconds to carry over: it is read as
\* it was written, and reading it does not panic.
LEMMA DurationRead ==
  ASSUME NEW d \in Duration, NEW b \in String
  PROVE  /\ d \in String /\ Len(d) = 2
         /\ duration(d \o b) = Found(d, b)
<1>1. /\ d \in [1..2 -> Nat] /\ d[1] \in Nat /\ d[2] \in Nat
      /\ d[1] <= MaxSeconds /\ d[2] < NanosPerSecond
  BY DEF Duration
<1>2. d \in String /\ Len(d) = 2
  BY <1>1, FixedString
<1>3. d[2] \div NanosPerSecond = 0 /\ d[2] % NanosPerSecond = d[2]
  BY <1>1, DurationAssumption
<1>4. PICK read : read = take(d \o b, 2)
  OBVIOUS
<1>5. read = Found(d, b)
  BY <1>2, <1>4, TakeRead
<1>6. read.ok /\ read.value = d /\ read.rest = b
  BY <1>5 DEF Found
<1>7. PICK seconds : seconds = read.value[1] + read.value[2] \div NanosPerSecond
  OBVIOUS
<1>8. seconds = d[1] /\ ~ (seconds > MaxSeconds)
  BY <1>1, <1>3, <1>6, <1>7, DurationAssumption
<1>9. duration(d \o b) = Found(<<seconds, read.value[2] % NanosPerSecond>>, read.rest)
  BY <1>4, <1>6, <1>7, <1>8, Zenon DEF duration
<1>10. <<d[1], d[2]>> = d
  BY <1>1
<1>11. QED
  BY <1>2, <1>3, <1>6, <1>8, <1>9, <1>10

\* Resources that pass the check are read as they were written, the lifetime with
\* its nanoseconds.
LEMMA ResourcesRead ==
  ASSUME NEW r \in ResourceFragment, NEW b \in String, validate_requirement(r)
  PROVE  /\ write_resources(r) \in String
         /\ resources(write_resources(r) \o b) = Found(r, b)
<1>1. r.amounts \in [1..5 -> Nat] /\ r.lifetime \in Duration \cup {None}
  BY DEF ResourceFragment
<1>2. r.amounts \in String /\ Len(r.amounts) = 5
  BY <1>1, FixedString
<1>3. PICK w : w = write_option(r.lifetime, r.lifetime)
  OBVIOUS
<1>4. /\ w \in String
      /\ option(w \o b, duration(number(w \o b).rest)) = Found(r.lifetime, b)
  <2>1. CASE r.lifetime = None
    <3>1. w = <<0>>
      BY <1>3, <2>1 DEF write_option
    <3>2. w \in String /\ <<>> \in String
      BY <3>1 DEF String
    <3>3. option(<<0>> \o b, duration(number(<<0>> \o b).rest)) = Found(r.lifetime, b)
      BY <2>1, <3>2, OptionRead
    <3>4. QED
      BY <3>1, <3>2, <3>3
  <2>2. CASE r.lifetime # None
    <3>1. PICK v : v = r.lifetime
      OBVIOUS
    <3>2. v \in Duration
      BY <1>1, <2>2, <3>1
    <3>3. v \in String
      BY <3>2, DurationRead
    <3>4. w \o b = <<1>> \o (v \o b) /\ number(w \o b).rest = v \o b
      BY <1>3, <2>2, <3>1, <3>3, OptionRest, ZenonT(40)
    <3>5. duration(number(w \o b).rest) = Found(v, b)
      BY <3>2, <3>4, DurationRead
    <3>6. option(w \o b, duration(number(w \o b).rest)) = Found(v, b)
      BY <2>2, <3>1, <3>3, <3>4, <3>5, OptionRead
    <3>7. w = <<1>> \o v
      BY <1>3, <2>2, <3>1 DEF write_option
    <3>8. w \in String
      BY <3>3, <3>7, ConcatProperties DEF String
    <3>9. QED
      BY <3>1, <3>6, <3>8
  <2>3. QED
    BY <2>1, <2>2
<1>5. write_resources(r) = r.amounts \o w
  BY <1>3 DEF write_resources
<1>6. PICK s : s = write_resources(r) \o b
  OBVIOUS
<1>7. (r.amounts \o w) \o b = r.amounts \o (w \o b) /\ w \o b \in String
  BY <1>2, <1>4, Concat, Assoc
<1>8. s = r.amounts \o (w \o b)
  BY <1>5, <1>6, <1>7, Zenon
<1>9. take(s, 5) = Found(r.amounts, w \o b)
  BY <1>2, <1>7, <1>8, TakeRead
<1>10. PICK amounts : amounts = take(s, 5)
  OBVIOUS
<1>11. amounts.ok /\ amounts.value = r.amounts /\ amounts.rest = w \o b
  BY <1>9, <1>10 DEF Found
<1>12. PICK lifetime : lifetime = option(amounts.rest, duration(number(amounts.rest).rest))
  OBVIOUS
<1>13. lifetime.ok /\ lifetime.value = r.lifetime /\ lifetime.rest = b
  BY <1>4, <1>11, <1>12 DEF Found
<1>14. resources(s) =
         IF lifetime.ok
         THEN Where(validate_requirement([amounts |-> amounts.value,
                                          lifetime |-> lifetime.value]),
                    Found([amounts |-> amounts.value, lifetime |-> lifetime.value],
                          lifetime.rest))
         ELSE lifetime
  BY <1>10, <1>12, Zenon DEF resources
<1>15. r = [amounts |-> r.amounts, lifetime |-> r.lifetime]
  BY DEF ResourceFragment
<1>16. resources(s) = Found(r, b)
  BY <1>11, <1>13, <1>14, <1>15, Zenon DEF Where
<1>17. write_resources(r) \in String
  BY <1>2, <1>4, <1>5, ConcatProperties DEF String
<1>18. QED
  BY <1>6, <1>16, <1>17

-----------------------------------------------------------------------------
\* Reading a layout.

\* An item that is found is put behind the ones before it.
LEMMA NextRead ==
  ASSUME NEW kind, NEW before, NEW b, NEW value, NEW rest,
         item(kind, b) = Found(value, rest)
  PROVE  NextItem(kind, {Found(before, b)}) = {Found(Append(before, value), rest)}
<1>1. PICK one : one = item(kind, b)
  OBVIOUS
<1>2. one.ok /\ one.value = value /\ one.rest = rest
  BY <1>1 DEF Found
<1>3. PICK front : front = Found(before, b)
  OBVIOUS
<1>4. front.ok /\ front.value = before /\ front.rest = b
  BY <1>3 DEF Found
<1>5. Followed(front, one) = Found(Append(before, value), rest)
  BY <1>2, <1>4, Zenon DEF Followed
<1>6. NextItem(kind, {front}) = {Followed(front, item(kind, front.rest))}
  BY DEF NextItem
<1>7. QED
  BY <1>1, <1>3, <1>4, <1>5, <1>6, Zenon

\* What items computes: what is found up to each place of the layout.
IsReading(f, layout, payload) ==
  f = [n \in 0..Len(layout) |->
         IF n = 0 THEN {Found(<<>>, payload)} ELSE NextItem(layout[n], f[n - 1])]

\* If an item of the layout is found at each place then all are, for a layout of
\* any length.
LEMMA ItemsRead ==
  ASSUME NEW layout, NEW V, NEW values \in Seq(V), NEW rests,
         Len(layout) = Len(values),
         \A i \in 1..Len(values) : item(layout[i], rests[i]) = Found(values[i], rests[i + 1])
  PROVE  items(layout, rests[1]) = {Found(values, rests[Len(values) + 1])}
<1>1. PICK N \in Nat : N = Len(values) /\ N = Len(layout)
  OBVIOUS
<1>2. PICK g : g = [n \in 0..N |-> {Found(SubSeq(values, 1, n), rests[n + 1])}]
  OBVIOUS
<1>3. g[0] = {Found(<<>>, rests[1])}
  <2>1. g[0] = {Found(SubSeq(values, 1, 0), rests[1])}
    BY <1>2
  <2>2. SubSeq(values, 1, 0) = <<>>
    BY <1>1
  <2>3. QED
    BY <2>1, <2>2
<1>4. ASSUME NEW n \in 1..N
      PROVE  g[n] = NextItem(layout[n], g[n - 1])
  <2>1. item(layout[n], rests[n]) = Found(values[n], rests[n + 1])
    BY <1>1
  <2>2. g[n - 1] = {Found(SubSeq(values, 1, n - 1), rests[n])}
    BY <1>2
  <2>3. NextItem(layout[n], g[n - 1])
          = {Found(Append(SubSeq(values, 1, n - 1), values[n]), rests[n + 1])}
    BY <2>1, <2>2, NextRead
  <2>4. Append(SubSeq(values, 1, n - 1), values[n]) = SubSeq(values, 1, n)
    BY <1>1
  <2>5. g[n] = {Found(SubSeq(values, 1, n), rests[n + 1])}
    BY <1>2
  <2>6. QED
    BY <2>3, <2>4, <2>5
<1>5. IsReading(g, layout, rests[1])
  <2>1. \A n \in 0..N : g[n] = IF n = 0 THEN {Found(<<>>, rests[1])}
                               ELSE NextItem(layout[n], g[n - 1])
    <3>1. \A n \in 0..N : n # 0 => n \in 1..N
      BY <1>1
    <3>2. QED
      BY <1>3, <1>4, <3>1, Zenon
  <2>2. g = [n \in 0..N |-> g[n]]
    BY <1>2
  <2>3. QED
    BY <1>1, <2>1, <2>2 DEF IsReading
<1>6. PICK f : f = CHOOSE h : IsReading(h, layout, rests[1])
  OBVIOUS
<1>7. IsReading(f, layout, rests[1])
  BY <1>5, <1>6
<1>8. items(layout, rests[1]) = f[N]
  BY <1>1, <1>6 DEF items, IsReading
<1>9. PICK D : D = {n \in 0..N : f[n] # g[n]}
  OBVIOUS
<1>10. D = {}
  <2>1. SUFFICES ASSUME D # {} PROVE FALSE
    OBVIOUS
  <2>2. D \subseteq Nat
    BY <1>9
  <2>3. PICK R : R = OpToRel(<, Nat)
    OBVIOUS
  <2>4. \A x, y \in Nat : <<y, x>> \in R <=> y < x
    BY <2>3 DEF OpToRel
  <2>5. PICK n \in D : \A m \in D : ~ (<<m, n>> \in R)
    BY <2>1, <2>2, <2>3, NatLessThanWellFounded, WFMin
  <2>6. n \in 0..N /\ f[n] # g[n]
    BY <1>9, <2>5
  <2>7. \A m \in D : ~ (m < n)
    BY <2>2, <2>4, <2>5, Zenon
  <2>8. f[0] = {Found(<<>>, rests[1])}
    <3>1. 0 \in 0..Len(layout)
      BY <1>1
    <3>2. QED
      BY <1>7, <3>1, Zenon DEF IsReading
  <2>9. n \in 1..N
    <3>1. n # 0
      BY <1>3, <2>6, <2>8, Zenon
    <3>2. QED
      BY <1>1, <2>6, <3>1
  <2>10. n - 1 \in 0..N /\ n - 1 < n
    BY <2>9
  <2>11. n - 1 \notin D
    BY <2>7, <2>10
  <2>12. f[n - 1] = g[n - 1]
    BY <1>9, <2>10, <2>11
  <2>13. f[n] = NextItem(layout[n], f[n - 1])
    <3>1. n \in 0..Len(layout) /\ n # 0
      BY <1>1, <2>9
    <3>2. QED
      BY <1>7, <3>1, Zenon DEF IsReading
  <2>14. QED
    BY <1>4, <2>6, <2>9, <2>12, <2>13
<1>11. f[N] = g[N]
  BY <1>9, <1>10
<1>12. SubSeq(values, 1, N) = values
  BY <1>1
<1>13. g[N] = {Found(SubSeq(values, 1, N), rests[N + 1])}
  BY <1>2
<1>14. QED
  BY <1>1, <1>8, <1>11, <1>12, <1>13

\* Concatenation by a name of its own.
Cat(s, t) == s \o t

\* Putting strings together gives a string, whichever are put together first.
LEMMA CatString ==
  /\ \A s, t \in String : Cat(s, t) \in String
  /\ \A s, t, u \in String : Cat(Cat(s, t), u) = Cat(s, Cat(t, u))
  /\ \A s \in String : Cat(s, <<>>) = s
<1>1. \A s, t \in String : Cat(s, t) \in String
  BY Concat DEF Cat
<1>2. \A s, t, u \in String : Cat(Cat(s, t), u) = Cat(s, Cat(t, u))
  BY Assoc DEF Cat
<1>3. \A s \in String : Cat(s, <<>>) = s
  BY ConcatEmptySeq DEF Cat, String
<1>4. QED
  BY <1>1, <1>2, <1>3

\* A valid request is read as it was written, and one of another version not at all;
\* neither makes the reader panic.
THEOREM RequestRead ==
  ASSUME NEW q \in ExecutionRequest, validate_transport_request(q), NEW v \in Nat
  PROVE  /\ write_request(v, q) \in String
         /\ v = PROTOCOL_VERSION => read_request(write_request(v, q)) = {q}
         /\ v # PROTOCOL_VERSION => read_request(write_request(v, q)) = {}
         /\ ~ panics(write_request(v, q))
<1>1. /\ q.request_id \in String /\ q.source \in Identity \cup {None}
      /\ q.workload_id \in String /\ q.payload \in String /\ q.node_id \in Identity
      /\ q.runtime.name \in String /\ q.runtime.version \in String
      /\ q.unit.participant_id \in Identity /\ q.unit.resources \in ResourceFragment
      /\ q.endpoint.participant_id \in Identity /\ q.endpoint.locator \in String
  BY DEF ExecutionRequest
<1>2. validate_requirement(q.unit.resources)
  BY DEF validate_transport_request
<1>3. PICK w1, w2, w3, w4 :
        /\ w1 = <<v>> /\ w2 = write_string(q.request_id)
        /\ w3 = write_option(q.source, write_identity(q.source))
        /\ w4 = write_string(q.workload_id)
  OBVIOUS
<1>4. PICK w5, w6, w7, w8 :
        /\ w5 = write_string(q.payload) /\ w6 = write_identity(q.node_id)
        /\ w7 = write_string(q.runtime.name) /\ w8 = write_string(q.runtime.version)
  OBVIOUS
<1>5. PICK w9, w10, w11, w12 :
        /\ w9 = write_identity(q.unit.participant_id)
        /\ w10 = write_resources(q.unit.resources)
        /\ w11 = write_identity(q.endpoint.participant_id)
        /\ w12 = write_string(q.endpoint.locator)
  OBVIOUS
<1>6. <<>> \in String /\ w1 \in String
  BY <1>3 DEF String
<1>7. w2 \in String /\ w3 \in String /\ w4 \in String
  BY <1>1, <1>3, <1>6, StringRead, SourceRead
<1>8. w5 \in String /\ w6 \in String /\ w7 \in String /\ w8 \in String
  BY <1>1, <1>4, <1>6, StringRead, IdentityRead
<1>9. w9 \in String /\ w10 \in String /\ w11 \in String /\ w12 \in String
  BY <1>1, <1>2, <1>5, <1>6, StringRead, IdentityRead, ResourcesRead
<1>10. PICK r10, r11, r12, r13 :
         /\ r13 = <<>> /\ r12 = Cat(w12, r13) /\ r11 = Cat(w11, r12) /\ r10 = Cat(w10, r11)
  OBVIOUS
<1>11. PICK r6, r7, r8, r9 :
         /\ r9 = Cat(w9, r10) /\ r8 = Cat(w8, r9) /\ r7 = Cat(w7, r8) /\ r6 = Cat(w6, r7)
  OBVIOUS
<1>12. PICK r1, r2, r3, r4, r5 :
         /\ r5 = Cat(w5, r6) /\ r4 = Cat(w4, r5) /\ r3 = Cat(w3, r4) /\ r2 = Cat(w2, r3)
         /\ r1 = Cat(w1, r2)
  OBVIOUS
<1>13. r10 \in String /\ r11 \in String /\ r12 \in String /\ r13 \in String
  BY <1>6, <1>9, <1>10, CatString
<1>14. r6 \in String /\ r7 \in String /\ r8 \in String /\ r9 \in String
  BY <1>8, <1>9, <1>11, <1>13, CatString
<1>15. r1 \in String /\ r2 \in String /\ r3 \in String /\ r4 \in String /\ r5 \in String
  BY <1>6, <1>7, <1>8, <1>12, <1>14, CatString
<1>16. write_request(v, q) = r1
  <2>1. PICK p2, p3, p4 : p2 = Cat(w1, w2) /\ p3 = Cat(p2, w3) /\ p4 = Cat(p3, w4)
    OBVIOUS
  <2>2. PICK p5, p6, p7, p8 :
          p5 = Cat(p4, w5) /\ p6 = Cat(p5, w6) /\ p7 = Cat(p6, w7) /\ p8 = Cat(p7, w8)
    OBVIOUS
  <2>3. PICK p9, p10, p11, p12 :
          p9 = Cat(p8, w9) /\ p10 = Cat(p9, w10) /\ p11 = Cat(p10, w11) /\ p12 = Cat(p11, w12)
    OBVIOUS
  <2>4. write_request(v, q) = p12
    BY <1>3, <1>4, <1>5, <2>1, <2>2, <2>3, Zenon DEF write_request, Cat
  <2>5. p2 \in String /\ p3 \in String /\ p4 \in String
    BY <1>6, <1>7, <2>1, CatString
  <2>6. p5 \in String /\ p6 \in String /\ p7 \in String /\ p8 \in String
    BY <1>8, <2>2, <2>5, CatString
  <2>7. p9 \in String /\ p10 \in String /\ p11 \in String
    BY <1>9, <2>3, <2>6, CatString
  <2>8. p12 = Cat(p8, r9)
    <3>1. p12 = Cat(p11, r12)
      BY <1>9, <1>10, <2>3, CatString
    <3>2. Cat(p11, r12) = Cat(p10, r11)
      BY <1>9, <1>10, <1>13, <2>3, <2>7, CatString
    <3>3. Cat(p10, r11) = Cat(p9, r10)
      BY <1>9, <1>10, <1>13, <2>3, <2>7, CatString
    <3>4. Cat(p9, r10) = Cat(p8, r9)
      BY <1>9, <1>11, <1>13, <2>3, <2>6, CatString
    <3>5. QED
      BY <3>1, <3>2, <3>3, <3>4
  <2>9. Cat(p8, r9) = Cat(p4, r5)
    <3>1. Cat(p8, r9) = Cat(p7, r8)
      BY <1>8, <1>11, <1>14, <2>2, <2>6, CatString
    <3>2. Cat(p7, r8) = Cat(p6, r7)
      BY <1>8, <1>11, <1>14, <2>2, <2>6, CatString
    <3>3. Cat(p6, r7) = Cat(p5, r6)
      BY <1>8, <1>11, <1>14, <2>2, <2>6, CatString
    <3>4. Cat(p5, r6) = Cat(p4, r5)
      BY <1>8, <1>12, <1>14, <2>2, <2>5, CatString
    <3>5. QED
      BY <3>1, <3>2, <3>3, <3>4
  <2>10. Cat(p4, r5) = r1
    <3>1. Cat(p4, r5) = Cat(p3, r4)
      BY <1>7, <1>12, <1>15, <2>1, <2>5, CatString
    <3>2. Cat(p3, r4) = Cat(p2, r3)
      BY <1>7, <1>12, <1>15, <2>1, <2>5, CatString
    <3>3. Cat(p2, r3) = Cat(w1, r2)
      BY <1>6, <1>7, <1>12, <1>15, <2>1, CatString
    <3>4. QED
      BY <1>12, <3>1, <3>2, <3>3
  <2>11. QED
    BY <2>4, <2>8, <2>9, <2>10
<1>17. PICK values : values = <<v, q.request_id, q.source, q.workload_id, q.payload,
         q.node_id, q.runtime.name, q.runtime.version, q.unit.participant_id,
         q.unit.resources, q.endpoint.participant_id, q.endpoint.locator>>
  OBVIOUS
<1>18. PICK rests : rests = <<r1, r2, r3, r4, r5, r6, r7, r8, r9, r10, r11, r12, r13>>
  OBVIOUS
<1>19. PICK V : values \in Seq(V) /\ Len(values) = 12 /\ Len(RequestLayout) = 12
  <2>1. values \in Seq({v, q.request_id, q.source, q.workload_id, q.payload,
         q.node_id, q.runtime.name, q.runtime.version, q.unit.participant_id,
         q.unit.resources, q.endpoint.participant_id, q.endpoint.locator})
    BY <1>17
  <2>2. Len(values) = 12 /\ Len(RequestLayout) = 12
    BY <1>17 DEF RequestLayout
  <2>3. QED
    BY <2>1, <2>2
<1>20. /\ item("byte", r1) = Found(v, r2)
       /\ item("string", r2) = Found(q.request_id, r3)
       /\ item("source", r3) = Found(q.source, r4)
       /\ item("string", r4) = Found(q.workload_id, r5)
  <2>1. item("byte", r1) = Found(v, r2)
    BY <1>3, <1>12, <1>15, ItemIs, NumberRead DEF Cat
  <2>2. item("string", r2) = Found(q.request_id, r3)
    BY <1>1, <1>3, <1>12, <1>15, ItemIs, StringRead DEF Cat
  <2>3. item("source", r3) = Found(q.source, r4)
    BY <1>1, <1>3, <1>12, <1>15, SourceRead DEF Cat
  <2>4. item("string", r4) = Found(q.workload_id, r5)
    BY <1>1, <1>3, <1>12, <1>15, ItemIs, StringRead DEF Cat
  <2>5. QED
    BY <2>1, <2>2, <2>3, <2>4
<1>21. /\ item("string", r5) = Found(q.payload, r6)
       /\ item("identity", r6) = Found(q.node_id, r7)
       /\ item("string", r7) = Found(q.runtime.name, r8)
       /\ item("string", r8) = Found(q.runtime.version, r9)
  <2>1. item("string", r5) = Found(q.payload, r6)
    BY <1>1, <1>4, <1>12, <1>14, ItemIs, StringRead DEF Cat
  <2>2. item("identity", r6) = Found(q.node_id, r7)
    BY <1>1, <1>4, <1>11, <1>14, ItemIs, IdentityRead DEF Cat
  <2>3. item("string", r7) = Found(q.runtime.name, r8)
    BY <1>1, <1>4, <1>11, <1>14, ItemIs, StringRead DEF Cat
  <2>4. item("string", r8) = Found(q.runtime.version, r9)
    BY <1>1, <1>4, <1>11, <1>14, ItemIs, StringRead DEF Cat
  <2>5. QED
    BY <2>1, <2>2, <2>3, <2>4
<1>22. /\ item("identity", r9) = Found(q.unit.participant_id, r10)
       /\ item("resources", r10) = Found(q.unit.resources, r11)
       /\ item("identity", r11) = Found(q.endpoint.participant_id, r12)
       /\ item("string", r12) = Found(q.endpoint.locator, r13)
  <2>1. item("identity", r9) = Found(q.unit.participant_id, r10)
    BY <1>1, <1>5, <1>11, <1>13, ItemIs, IdentityRead DEF Cat
  <2>2. item("resources", r10) = Found(q.unit.resources, r11)
    BY <1>1, <1>2, <1>5, <1>10, <1>13, ItemIs, ResourcesRead DEF Cat
  <2>3. item("identity", r11) = Found(q.endpoint.participant_id, r12)
    BY <1>1, <1>5, <1>10, <1>13, ItemIs, IdentityRead DEF Cat
  <2>4. item("string", r12) = Found(q.endpoint.locator, r13)
    BY <1>1, <1>5, <1>10, <1>13, ItemIs, StringRead DEF Cat
  <2>5. QED
    BY <2>1, <2>2, <2>3, <2>4
<1>23. ASSUME NEW i \in 1..12
       PROVE  item(RequestLayout[i], rests[i]) = Found(values[i], rests[i + 1])
  <2>1. CASE i \in 1..4
    BY <1>17, <1>18, <1>20, <2>1 DEF RequestLayout
  <2>2. CASE i \in 5..8
    BY <1>17, <1>18, <1>21, <2>2 DEF RequestLayout
  <2>3. CASE i \in 9..12
    BY <1>17, <1>18, <1>22, <2>3 DEF RequestLayout
  <2>4. QED
    BY <2>1, <2>2, <2>3
<1>24. items(RequestLayout, rests[1]) = {Found(values, rests[13])}
  <2>1. \A i \in 1..Len(values) : item(RequestLayout[i], rests[i]) = Found(values[i], rests[i + 1])
    BY <1>19, <1>23
  <2>2. items(RequestLayout, rests[1]) = {Found(values, rests[Len(values) + 1])}
    <3>1. PICK layout : layout = RequestLayout
      OBVIOUS
    <3>2. values \in Seq(V) /\ Len(layout) = Len(values)
      BY <1>19, <3>1
    <3>3. \A i \in 1..Len(values) : item(layout[i], rests[i]) = Found(values[i], rests[i + 1])
      BY <2>1, <3>1
    <3>4. items(layout, rests[1]) = {Found(values, rests[Len(values) + 1])}
      BY <3>2, <3>3, ItemsRead, Zenon
    <3>5. QED
      BY <3>1, <3>4, Zenon
  <2>3. Len(values) + 1 = 13
    BY <1>19
  <2>4. QED
    BY <2>2, <2>3
<1>25. PICK all : all = Found(values, <<>>)
  OBVIOUS
<1>26. items(RequestLayout, write_request(v, q)) = {all}
  BY <1>10, <1>16, <1>18, <1>24, <1>25
<1>27. all.ok /\ all.value = values /\ all.rest = <<>>
  BY <1>25 DEF Found
<1>28. Complete(all) <=> v = PROTOCOL_VERSION
  BY <1>17, <1>27 DEF Complete
<1>29. RequestOf(values) = q
  BY <1>17 DEF RequestOf, ExecutionRequest
<1>30. read_request(write_request(v, q)) =
         {x \in {RequestOf(a.value) : a \in {r \in {all} : Complete(r)}} :
            validate_transport_request(x)}
  BY <1>26, Zenon DEF read_request
<1>31. v = PROTOCOL_VERSION => read_request(write_request(v, q)) = {q}
  BY <1>27, <1>28, <1>29, <1>30
<1>32. v # PROTOCOL_VERSION => read_request(write_request(v, q)) = {}
  BY <1>28, <1>30
<1>33. ~ panics(write_request(v, q))
  <2>1. ~ Panics.ok
    BY DEF Panics
  <2>2. Panics # all
    BY <1>27, <2>1
  <2>3. QED
    BY <1>26, <2>2, Zenon DEF panics
<1>34. QED
  BY <1>15, <1>16, <1>31, <1>32, <1>33

\* A response is read as it was written.
THEOREM ResponseRead ==
  ASSUME NEW a \in ExecutionResponse
  PROVE  /\ write_response(a) \in String
         /\ read_response(write_response(a)) = {a}
<1>1. /\ a.request_id \in String /\ a.status \in Range(ExecutionStatus)
      /\ a.error \in String \cup {None}
  BY DEF ExecutionResponse
<1>2. PICK w1, w2, w3, w4 :
        /\ w1 = <<PROTOCOL_VERSION>> /\ w2 = write_string(a.request_id)
        /\ w3 = <<CodeOf(a.status, ExecutionStatus)>>
        /\ w4 = write_option(a.error, write_string(a.error))
  OBVIOUS
<1>3. <<>> \in String /\ w1 \in String
  BY <1>2 DEF String, PROTOCOL_VERSION
<1>4. w2 \in String /\ w3 \in String /\ w4 \in String
  BY <1>1, <1>2, <1>3, StringRead, ErrorRead, CodeRead, Names
<1>5. PICK r1, r2, r3, r4, r5 :
        /\ r5 = <<>> /\ r4 = Cat(w4, r5) /\ r3 = Cat(w3, r4) /\ r2 = Cat(w2, r3)
        /\ r1 = Cat(w1, r2)
  OBVIOUS
<1>6. r1 \in String /\ r2 \in String /\ r3 \in String /\ r4 \in String /\ r5 \in String
  BY <1>3, <1>4, <1>5, CatString
<1>7. write_response(a) = r1
  <2>1. PICK p2, p3, p4 : p2 = Cat(w1, w2) /\ p3 = Cat(p2, w3) /\ p4 = Cat(p3, w4)
    OBVIOUS
  <2>2. write_response(a) = p4
    BY <1>2, <2>1, Zenon DEF write_response, Cat
  <2>3. p2 \in String /\ p3 \in String
    BY <1>3, <1>4, <2>1, CatString
  <2>4. p4 = Cat(p3, r4)
    BY <1>4, <1>5, <2>1, CatString
  <2>5. Cat(p3, r4) = Cat(p2, r3)
    BY <1>4, <1>5, <1>6, <2>1, <2>3, CatString
  <2>6. Cat(p2, r3) = Cat(w1, r2)
    BY <1>3, <1>4, <1>5, <1>6, <2>1, CatString
  <2>7. QED
    BY <1>5, <2>2, <2>4, <2>5, <2>6
<1>8. PICK values : values = <<PROTOCOL_VERSION, a.request_id, a.status, a.error>>
  OBVIOUS
<1>9. PICK rests : rests = <<r1, r2, r3, r4, r5>>
  OBVIOUS
<1>10. PICK layout : layout = <<"byte", "string", "status", "error">>
  OBVIOUS
<1>11. PICK V : values \in Seq(V) /\ Len(values) = 4 /\ Len(layout) = 4
  <2>1. values \in Seq({PROTOCOL_VERSION, a.request_id, a.status, a.error})
    BY <1>8
  <2>2. Len(values) = 4 /\ Len(layout) = 4
    BY <1>8, <1>10
  <2>3. QED
    BY <2>1, <2>2
<1>12. item("byte", r1) = Found(PROTOCOL_VERSION, r2)
  BY <1>2, <1>5, <1>6, ItemIs, NumberRead DEF Cat, PROTOCOL_VERSION
<1>13. item("string", r2) = Found(a.request_id, r3)
  BY <1>1, <1>2, <1>5, <1>6, ItemIs, StringRead DEF Cat
<1>14. item("status", r3) = Found(a.status, r4)
  <2>1. code(<<CodeOf(a.status, ExecutionStatus)>> \o r4, ExecutionStatus) = Found(a.status, r4)
    BY <1>1, <1>6, Names, CodeRead
  <2>2. r3 = <<CodeOf(a.status, ExecutionStatus)>> \o r4
    BY <1>2, <1>5 DEF Cat
  <2>3. QED
    BY <2>1, <2>2, ItemIs
<1>15. item("error", r4) = Found(a.error, r5)
  BY <1>1, <1>2, <1>5, <1>6, ErrorRead DEF Cat
<1>16. \A i \in 1..Len(values) : item(layout[i], rests[i]) = Found(values[i], rests[i + 1])
  <2>1. \A i \in 1..4 : item(layout[i], rests[i]) = Found(values[i], rests[i + 1])
    BY <1>8, <1>9, <1>10, <1>12, <1>13, <1>14, <1>15
  <2>2. QED
    BY <1>11, <2>1
<1>17. items(layout, rests[1]) = {Found(values, rests[Len(values) + 1])}
  <2>1. Len(layout) = Len(values)
    BY <1>11
  <2>2. QED
    BY <1>11, <1>16, <2>1, ItemsRead, Zenon
<1>18. Len(values) + 1 = 5 /\ rests[1] = r1 /\ rests[5] = <<>>
  BY <1>5, <1>9, <1>11
<1>19. PICK all : all = Found(values, <<>>)
  OBVIOUS
<1>20. items(layout, write_response(a)) = {all}
  BY <1>7, <1>17, <1>18, <1>19
<1>21. all.ok /\ all.value = values /\ all.rest = <<>>
  BY <1>19 DEF Found
<1>22. Complete(all)
  BY <1>8, <1>21 DEF Complete
<1>23. ResponseOf(values) = a
  BY <1>8 DEF ResponseOf, ExecutionResponse
<1>24. read_response(write_response(a)) =
         {ResponseOf(x.value) : x \in {r \in {all} : Complete(r)}}
  BY <1>10, <1>20, Zenon DEF read_response
<1>25. QED
  BY <1>6, <1>7, <1>21, <1>22, <1>23, <1>24

-----------------------------------------------------------------------------
\* Frames as they arrive.

\* What has arrived of a frame is its length and then its payload; it is whole
\* when nothing is missing.
LEMMA FrameArrives ==
  ASSUME NEW p \in String, fits(p), NEW n \in 0..Len(frame(p))
  PROVE  LET s == Arrived(frame(p), n)
         IN  /\ n # 0 => s # <<>> /\ Head(s) = Len(p) /\ acceptable_length(Head(s))
             /\ n = 0 => s = <<>>
             /\ whole_frame(s) => n = Len(frame(p)) /\ read_frame(s) = {p}
             /\ n = Len(frame(p)) => whole_frame(s)
<1>1. PICK f : f = frame(p)
  OBVIOUS
<1>2. Len(p) \in Nat /\ <<Len(p)>> \in Seq(Nat)
  BY DEF String
<1>3. f \in Seq(Nat) /\ Len(f) = Len(p) + 1
  BY <1>1, <1>2, ConcatProperties DEF String, frame
<1>4. f[1] = Len(p) /\ \A i \in 1..Len(p) : f[i + 1] = p[i]
  BY <1>1, <1>2, ConcatProperties DEF String, frame
<1>5. PICK s : s = Arrived(f, n)
  OBVIOUS
<1>6. s \in Seq(Nat) /\ Len(s) = n /\ \A i \in 1..n : s[i] = f[i]
  BY <1>1, <1>3, <1>5 DEF Arrived
<1>7. n = 0 => s = <<>>
  BY <1>6
<1>8. n # 0 => s # <<>> /\ Head(s) = Len(p)
  BY <1>1, <1>3, <1>4, <1>6
<1>9. n # 0 => acceptable_length(Head(s))
  BY <1>8 DEF acceptable_length, fits
<1>10. ASSUME whole_frame(s)
       PROVE  n = Len(f) /\ read_frame(s) = {p}
  <2>1. s # <<>> /\ Len(s) - 1 >= Head(s)
    BY <1>10 DEF whole_frame
  <2>2. n # 0
    BY <1>7, <2>1
  <2>3. n = Len(f)
    BY <1>1, <1>2, <1>3, <1>6, <1>8, <2>1, <2>2
  <2>4. SubSeq(s, 2, Len(p) + 1) = p
    <3>1. \A i \in 2..(Len(p) + 1) : s[i] \in Nat
      BY <1>2, <1>3, <1>6, <2>3
    <3>2. /\ SubSeq(s, 2, Len(p) + 1) \in Seq(Nat) /\ Len(SubSeq(s, 2, Len(p) + 1)) = Len(p)
          /\ \A i \in 1..Len(p) : SubSeq(s, 2, Len(p) + 1)[i] = s[i + 1]
      BY <1>2, <3>1, SubSeqProperties
    <3>3. \A i \in 1..Len(p) : s[i + 1] = p[i]
      BY <1>2, <1>3, <1>4, <1>6, <2>3
    <3>4. QED
      BY <3>2, <3>3, SeqEqual DEF String
  <2>5. read_frame(s) = {p}
    BY <1>8, <1>9, <2>2, <2>4 DEF read_frame
  <2>6. QED
    BY <2>3, <2>5
<1>11. n = Len(f) => whole_frame(s)
  BY <1>2, <1>3, <1>6, <1>8 DEF whole_frame
<1>12. QED
  BY <1>1, <1>5, <1>7, <1>8, <1>9, <1>10, <1>11

-----------------------------------------------------------------------------
\* The inductive invariant.

\* The participant ids a certificate was granted to.
Owners(leaf) ==
  {grants[i].id : i \in {j \in DOMAIN grants : Head(grants[j].pem) = leaf}}

\* The allow list says what was granted, and no certificate was granted twice.
SetupOk ==
  /\ server = "unbound" => grants = None
  /\ grants # None =>
       /\ \A id : id \in DOMAIN allowlist <=> \E i \in DOMAIN grants : grants[i].id = id
       /\ \A id \in DOMAIN allowlist : \A leaf :
            leaf \in allowlist[id] <=> id \in Owners(leaf)
       /\ \A i, j \in DOMAIN grants : Head(grants[i].pem) = Head(grants[j].pem) => i = j

\* The client has sent nothing that it may not send, and what it dispatches is
\* fixed once it has started.
ClientOk ==
  /\ client \in {"idle", "handshake", "reading", "done", "foreign"}
  /\ client = "idle" => server \in {"unbound", "accept"} /\ up = <<>>
  /\ client # "idle" => server # "unbound"
  /\ client \in {"idle", "foreign"} => request = None
  /\ request # None => request \in Requests
  /\ client = "handshake" => request # None /\ chain # None /\ up = Hello
  /\ client # "done" => result = None
  /\ request # None /\ up # <<>> => sendable(request, chain)

\* What was written to the server: nothing, a client hello, the request in plain,
\* or the request behind the handshake with the server the locator names.
Plain ==
  /\ chain = None
  /\ \E v \in Versions :
       fits(write_request(v, request)) /\ up = frame(write_request(v, request))

Behind ==
  /\ chain # None /\ grants # None
  /\ server_name(request.endpoint.locator) \in ServerHosts
  /\ \E v \in Versions :
       fits(write_request(v, request)) /\ up = Hello \o frame(write_request(v, request))

UpOk ==
  /\ request # None => up = <<>> \/ (chain # None /\ up = Hello) \/ Plain \/ Behind
  /\ client = "reading" => request # None /\ (Plain \/ Behind)

\* No more arrives than was written.
ArrivalOk == seen \in 0..Len(up) /\ got \in 0..Len(down)

\* What the server is called with, and for whom.
Entitled ==
  /\ request # None =>
       request \in Requests /\ handled = request /\ (chain # None => Behind)
  /\ grants # None => chain \in Verified /\ authorized(handled)

\* The server reads only from clients it has verified, calls the handler only for
\* clients that are entitled to their request, and panics over a request of this
\* crate's only in the handler.
ServerOk ==
  /\ server \in {"unbound", "accept", "handshake", "reading", "handling", "closed", "panicked"}
  /\ server \in {"handshake", "reading", "handling"} =>
       client # "idle" /\ (request # None => sendable(request, chain))
  /\ server = "handshake" => grants # None
  /\ server = "reading" /\ grants # None =>
       chain \in Verified /\ seen > 0 /\ (request # None => Behind)
  /\ server = "handling" => Entitled
  /\ server \notin {"handling", "closed", "panicked"} => handled = None /\ refused = None
  /\ server # "closed" => down = <<>> /\ refused = None
  /\ server = "panicked" /\ request # None => handled # None
  /\ handled # None => Entitled

\* What was written to the client is the answer of the handler.
DownOk ==
  \/ down = <<>>
  \/ /\ Entitled /\ answer \in Answers
     /\ fits(write_response(answer)) /\ down = frame(write_response(answer))

\* Why the server refused what it read.
RefusedOk ==
  /\ refused = "frame" /\ request # None =>
       \/ grants = None /\ chain # None
       \/ \E v \in Versions \ {PROTOCOL_VERSION} :
            frame(write_request(v, request)) \in {up, Tail(up)}
  /\ refused = "client" =>
       grants # None /\ (request # None => request.source.id \notin Owners(Head(chain)))

\* What dispatch returned.
ResultOk ==
  result \notin {None, Error} =>
    /\ request # None /\ server = "closed" /\ Entitled /\ result = answer
    /\ result.request_id = request.request_id

IInv ==
  /\ SetupOk /\ ClientOk /\ UpOk /\ ArrivalOk /\ ServerOk /\ DownOk /\ RefusedOk /\ ResultOk

\* The client hello, and the frame of a payload.
LEMMA Streams ==
  /\ Hello \in String /\ Hello # <<>> /\ Len(Hello) = 1 /\ Head(Hello) = MaxFrame + 1
  /\ \A p \in String : /\ frame(p) \in String /\ frame(p) # <<>>
                       /\ Len(frame(p)) = Len(p) + 1 /\ Head(frame(p)) = Len(p)
<1>1. Hello \in String /\ Hello # <<>> /\ Len(Hello) = 1 /\ Head(Hello) = MaxFrame + 1
  BY FrameAssumption DEF Hello, String
<1>2. ASSUME NEW p \in String
      PROVE  /\ frame(p) \in String /\ frame(p) # <<>>
             /\ Len(frame(p)) = Len(p) + 1 /\ Head(frame(p)) = Len(p)
  <2>1. Len(p) \in Nat /\ <<Len(p)>> \in Seq(Nat) /\ p \in Seq(Nat)
    BY DEF String
  <2>2. frame(p) \in Seq(Nat) /\ Len(frame(p)) = Len(p) + 1
    BY <2>1, ConcatProperties DEF frame
  <2>3. frame(p)[1] = Len(p)
    BY <2>1, ConcatProperties DEF frame
  <2>4. frame(p) # <<>>
    BY <2>1, <2>2
  <2>5. QED
    BY <2>1, <2>2, <2>3, <2>4 DEF String
<1>3. QED
  BY <1>1, <1>2

\* What arrives behind one number.
LEMMA BehindOne ==
  ASSUME NEW f \in String, NEW h \in String, Len(h) = 1
  PROVE  /\ h \o f \in String /\ Len(h \o f) = Len(f) + 1
         /\ Head(h \o f) = h[1] /\ Tail(h \o f) = f
         /\ \A n \in 1..(Len(f) + 1) : Tail(Arrived(h \o f, n)) = Arrived(f, n - 1)
<1>1. f \in Seq(Nat) /\ Len(f) \in Nat /\ h \in Seq(Nat) /\ Len(h) = 1
  BY DEF String
<1>2. PICK s : s = h \o f
  OBVIOUS
<1>3. /\ s \in Seq(Nat) /\ Len(s) = Len(f) + 1
      /\ s[1] = h[1] /\ \A i \in 1..Len(f) : s[i + 1] = f[i]
  <2>1. /\ h \o f \in Seq(Nat) /\ Len(h \o f) = Len(h) + Len(f)
        /\ \A i \in 1..(Len(h) + Len(f)) :
             (h \o f)[i] = IF i <= Len(h) THEN h[i] ELSE f[i - Len(h)]
    BY ConcatProperties DEF String
  <2>2. s \in Seq(Nat) /\ Len(s) = Len(f) + 1
    BY <1>1, <1>2, <2>1
  <2>3. s[1] = h[1]
    BY <1>1, <1>2, <2>1
  <2>4. \A i \in 1..Len(f) : s[i + 1] = f[i]
    BY <1>1, <1>2, <2>1
  <2>5. QED
    BY <2>2, <2>3, <2>4
<1>4. s # <<>>
  BY <1>1, <1>3
<1>5. Head(s) = h[1]
  BY <1>3, <1>4
<1>6. Tail(s) = f
  <2>1. /\ Tail(s) \in Seq(Nat) /\ Len(Tail(s)) = Len(f)
        /\ \A i \in 1..Len(f) : Tail(s)[i] = f[i]
    BY <1>1, <1>3, <1>4, HeadTailProperties
  <2>2. QED
    BY <1>1, <2>1, SeqEqual
<1>7. ASSUME NEW n \in 1..(Len(f) + 1)
      PROVE  Tail(Arrived(s, n)) = Arrived(f, n - 1)
  <2>1. Tail(SubSeq(s, 1, n)) = SubSeq(s, 2, n)
    <3>1. 1 \in 1..Len(s) /\ n \in 1..Len(s)
      BY <1>1, <1>3
    <3>2. QED
      BY <1>3, <3>1, HeadTailOfSubSeq
  <2>2. \A i \in 2..n : s[i] \in Nat
    BY <1>1, <1>3
  <2>3. /\ SubSeq(s, 2, n) \in Seq(Nat) /\ Len(SubSeq(s, 2, n)) = n - 1
        /\ \A i \in 1..(n - 1) : SubSeq(s, 2, n)[i] = s[i + 1]
    BY <1>1, <2>2, SubSeqProperties
  <2>4. \A i \in 1..(n - 1) : f[i] \in Nat
    BY <1>1
  <2>5. /\ SubSeq(f, 1, n - 1) \in Seq(Nat) /\ Len(SubSeq(f, 1, n - 1)) = n - 1
        /\ \A i \in 1..(n - 1) : SubSeq(f, 1, n - 1)[i] = f[i]
    BY <1>1, <2>4, SubSeqProperties
  <2>6. \A i \in 1..(n - 1) : s[i + 1] = f[i]
    BY <1>1, <1>3
  <2>7. SubSeq(s, 2, n) = SubSeq(f, 1, n - 1)
    BY <2>3, <2>5, <2>6, SeqEqual
  <2>8. QED
    BY <2>1, <2>7 DEF Arrived
<1>8. QED
  BY <1>2, <1>3, <1>5, <1>6, <1>7 DEF String

\* What arrives behind the client hello.
LEMMA BehindHello ==
  ASSUME NEW f \in String
  PROVE  /\ Hello \o f \in String /\ Len(Hello \o f) = Len(f) + 1
         /\ Head(Hello \o f) = MaxFrame + 1 /\ Tail(Hello \o f) = f
         /\ \A n \in 1..(Len(f) + 1) : Tail(Arrived(Hello \o f, n)) = Arrived(f, n - 1)
<1>1. PICK h : h = Hello
  OBVIOUS
<1>2. h \in String /\ Len(h) = 1 /\ h[1] = MaxFrame + 1
  BY <1>1, Streams DEF Hello
<1>3. /\ h \o f \in String /\ Len(h \o f) = Len(f) + 1
      /\ Head(h \o f) = h[1] /\ Tail(h \o f) = f
      /\ \A n \in 1..(Len(f) + 1) : Tail(Arrived(h \o f, n)) = Arrived(f, n - 1)
  BY <1>2, BehindOne
<1>4. QED
  BY <1>1, <1>2, <1>3

\* The invariant is preserved by binding for plain TCP.
LEMMA BindStep ==
  ASSUME IInv, Bind
  PROVE  IInv'
<1>1. SetupOk'
  BY DEF IInv, SetupOk, Owners, Bind, setup, calling, streams, handling
<1>2. ClientOk'
  BY DEF IInv, ClientOk, Bind, setup, calling, streams, handling
<1>3. UpOk'
  BY DEF IInv, UpOk, Plain, Behind, Bind, setup, calling, streams, handling
<1>4. ArrivalOk'
  BY DEF IInv, ArrivalOk, Bind, setup, calling, streams, handling
<1>5. ServerOk'
  BY DEF IInv, ServerOk, Entitled, Plain, Behind, authorized, Bind, setup, calling, streams, handling
<1>6. DownOk'
  BY DEF IInv, DownOk, Entitled, Plain, Behind, authorized, Bind, setup, calling, streams, handling
<1>7. RefusedOk'
  BY DEF IInv, RefusedOk, Owners, Bind, setup, calling, streams, handling
<1>8. ResultOk'
  BY DEF IInv, ResultOk, Entitled, Plain, Behind, authorized, Bind, setup, calling, streams, handling
<1>9. QED
  BY <1>1, <1>2, <1>3, <1>4, <1>5, <1>6, <1>7, <1>8 DEF IInv


\* The invariant is preserved by a delivery.
LEMMA NetworkStep ==
  ASSUME IInv, Network
  PROVE  IInv'
<1>1. SetupOk'
  BY DEF IInv, SetupOk, Owners, Network, Deliver, setup, calling, streams, handling
<1>2. ClientOk'
  BY DEF IInv, ClientOk, Network, Deliver, setup, calling, streams, handling
<1>3. UpOk'
  BY DEF IInv, UpOk, Plain, Behind, Network, Deliver, setup, calling, streams, handling
<1>4. ArrivalOk'
  BY DEF IInv, ArrivalOk, Network, Deliver, setup, calling, streams, handling
<1>5. ServerOk'
  <2>1. seen > 0 => seen' > 0
    BY DEF IInv, ArrivalOk, Network, Deliver
  <2>2. UNCHANGED <<grants, allowlist, chain, request, client, server, up, down, handled,
                    answer, refused, result>>
    BY DEF Network, setup, calling, handling
  <2>3. QED
    BY <2>1, <2>2 DEF IInv, ServerOk, Entitled, Plain, Behind, authorized
<1>6. DownOk'
  BY DEF IInv, DownOk, Entitled, Plain, Behind, authorized, Network, Deliver, setup, calling, streams, handling
<1>7. RefusedOk'
  BY DEF IInv, RefusedOk, Owners, Network, Deliver, setup, calling, streams, handling
<1>8. ResultOk'
  BY DEF IInv, ResultOk, Entitled, Plain, Behind, authorized, Network, Deliver, setup, calling, streams, handling
<1>9. QED
  BY <1>1, <1>2, <1>3, <1>4, <1>5, <1>6, <1>7, <1>8 DEF IInv


\* The invariant is preserved by accepting a connection.
LEMMA AcceptStep ==
  ASSUME IInv, Accept
  PROVE  IInv'
<1>1. SetupOk'
  BY DEF IInv, SetupOk, Owners, Accept, setup, calling, streams, handling
<1>2. ClientOk'
  BY DEF IInv, ClientOk, Accept, setup, calling, streams, handling
<1>3. UpOk'
  BY DEF IInv, UpOk, Plain, Behind, Accept, setup, calling, streams, handling
<1>4. ArrivalOk'
  BY DEF IInv, ArrivalOk, Accept, setup, calling, streams, handling
<1>5. ServerOk'
  BY DEF IInv, ServerOk, Entitled, Plain, Behind, authorized, Accept, setup, calling, streams, handling
<1>6. DownOk'
  BY DEF IInv, DownOk, Entitled, Plain, Behind, authorized, Accept, setup, calling, streams, handling
<1>7. RefusedOk'
  BY DEF IInv, RefusedOk, Owners, Accept, setup, calling, streams, handling
<1>8. ResultOk'
  BY DEF IInv, ResultOk, Entitled, Plain, Behind, authorized, Accept, setup, calling, streams, handling
<1>9. QED
  BY <1>1, <1>2, <1>3, <1>4, <1>5, <1>6, <1>7, <1>8 DEF IInv


\* The invariant is preserved by a failure of the client.
LEMMA ClientFailsStep ==
  ASSUME IInv, ClientFails
  PROVE  IInv'
<1>1. SetupOk'
  BY DEF IInv, SetupOk, Owners, ClientFails, Return, setup, calling, streams, handling
<1>2. ClientOk'
  BY DEF IInv, ClientOk, ClientFails, Return, setup, calling, streams, handling
<1>3. UpOk'
  BY DEF IInv, UpOk, Plain, Behind, ClientFails, Return, setup, calling, streams, handling
<1>4. ArrivalOk'
  BY DEF IInv, ArrivalOk, ClientFails, Return, setup, calling, streams, handling
<1>5. ServerOk'
  BY DEF IInv, ServerOk, Entitled, Plain, Behind, authorized, ClientFails, Return, setup, calling, streams, handling
<1>6. DownOk'
  BY DEF IInv, DownOk, Entitled, Plain, Behind, authorized, ClientFails, Return, setup, calling, streams, handling
<1>7. RefusedOk'
  BY DEF IInv, RefusedOk, Owners, ClientFails, Return, setup, calling, streams, handling
<1>8. ResultOk'
  BY DEF IInv, ResultOk, Entitled, Plain, Behind, authorized, ClientFails, Return, setup, calling, streams, handling
<1>9. QED
  BY <1>1, <1>2, <1>3, <1>4, <1>5, <1>6, <1>7, <1>8 DEF IInv


\* The invariant is preserved by a failure of the server.
LEMMA ServerFailsStep ==
  ASSUME IInv, ServerFails
  PROVE  IInv'
<1>1. SetupOk'
  BY DEF IInv, SetupOk, Owners, ServerFails, setup, calling, streams, handling
<1>2. ClientOk'
  BY DEF IInv, ClientOk, ServerFails, setup, calling, streams, handling
<1>3. UpOk'
  BY DEF IInv, UpOk, Plain, Behind, ServerFails, setup, calling, streams, handling
<1>4. ArrivalOk'
  BY DEF IInv, ArrivalOk, ServerFails, setup, calling, streams, handling
<1>5. ServerOk'
  BY DEF IInv, ServerOk, Entitled, Plain, Behind, authorized, ServerFails, setup, calling, streams, handling
<1>6. DownOk'
  BY DEF IInv, DownOk, Entitled, Plain, Behind, authorized, ServerFails, setup, calling, streams, handling
<1>7. RefusedOk'
  BY DEF IInv, RefusedOk, Owners, ServerFails, setup, calling, streams, handling
<1>8. ResultOk'
  BY DEF IInv, ResultOk, Entitled, Plain, Behind, authorized, ServerFails, setup, calling, streams, handling
<1>9. QED
  BY <1>1, <1>2, <1>3, <1>4, <1>5, <1>6, <1>7, <1>8 DEF IInv


\* The invariant is preserved by a panic of the handler.
LEMMA HandlerPanicsStep ==
  ASSUME IInv, HandlerPanics
  PROVE  IInv'
<1>1. SetupOk'
  BY DEF IInv, SetupOk, Owners, HandlerPanics, setup, calling, streams, handling
<1>2. ClientOk'
  BY DEF IInv, ClientOk, HandlerPanics, setup, calling, streams, handling
<1>3. UpOk'
  BY DEF IInv, UpOk, Plain, Behind, HandlerPanics, setup, calling, streams, handling
<1>4. ArrivalOk'
  BY DEF IInv, ArrivalOk, HandlerPanics, setup, calling, streams, handling
<1>5. ServerOk'
  BY DEF IInv, ServerOk, Entitled, Plain, Behind, authorized, HandlerPanics, setup, calling, streams, handling
<1>6. DownOk'
  BY DEF IInv, DownOk, Entitled, Plain, Behind, authorized, HandlerPanics, setup, calling, streams, handling
<1>7. RefusedOk'
  BY DEF IInv, RefusedOk, Owners, HandlerPanics, setup, calling, streams, handling
<1>8. ResultOk'
  BY DEF IInv, ResultOk, Entitled, Plain, Behind, authorized, HandlerPanics, setup, calling, streams, handling
<1>9. QED
  BY <1>1, <1>2, <1>3, <1>4, <1>5, <1>6, <1>7, <1>8 DEF IInv

\* What None is not.
LEMMA Nones ==
  None # "frame" /\ None # "client" /\ \A list \in GrantLists : list # None
<1>1. None # "frame" /\ None # "client"
  BY GrantsAssumption
<1>2. ASSUME NEW list \in GrantLists
      PROVE  list # None
  <2>1. PICK n \in 0..MaxGrants : list \in [1..n -> {g \in Grants : loads(g.pem)}]
    BY DEF GrantLists
  <2>2. list \in [1..n -> Grants]
    BY <2>1
  <2>3. list \in UNION {[1..m -> Grants] : m \in 0..MaxGrants}
    BY <2>2
  <2>4. QED
    BY <2>3, GrantsAssumption
<1>3. QED
  BY <1>1, <1>2

\* The allow list says exactly what was granted.
LEMMA AllowlistOk ==
  ASSUME NEW list \in GrantLists,
         grantable([i \in DOMAIN list |-> from_pem(list[i])])
  PROVE  LET allowed == build_client_allowlist([i \in DOMAIN list |-> from_pem(list[i])])
         IN  /\ \A id : id \in DOMAIN allowed <=> \E i \in DOMAIN list : list[i].id = id
             /\ \A id \in DOMAIN allowed : \A leaf :
                  leaf \in allowed[id] <=>
                    id \in {list[i].id : i \in {j \in DOMAIN list : Head(list[j].pem) = leaf}}
             /\ \A i, j \in DOMAIN list : Head(list[i].pem) = Head(list[j].pem) => i = j
<1>1. PICK granted : granted = [i \in DOMAIN list |-> from_pem(list[i])]
  OBVIOUS
<1>2. /\ DOMAIN granted = DOMAIN list
      /\ \A i \in DOMAIN list : /\ granted[i].participant_id = list[i].id
                                /\ granted[i].certificate = Head(list[i].pem)
  BY <1>1 DEF from_pem
<1>3. \A i, j \in DOMAIN list : Head(list[i].pem) = Head(list[j].pem) => i = j
  BY <1>1, <1>2 DEF grantable
<1>4. PICK allowed : allowed = build_client_allowlist(granted)
  OBVIOUS
<1>5. /\ DOMAIN allowed = {granted[i].participant_id : i \in DOMAIN granted}
      /\ \A id \in DOMAIN allowed :
           allowed[id] = {granted[i].certificate :
                            i \in {j \in DOMAIN granted : granted[j].participant_id = id}}
  BY <1>4 DEF build_client_allowlist
<1>6. \A id : id \in DOMAIN allowed <=> \E i \in DOMAIN list : list[i].id = id
  BY <1>2, <1>5
<1>7. ASSUME NEW id \in DOMAIN allowed, NEW leaf
      PROVE  leaf \in allowed[id] <=>
               id \in {list[i].id : i \in {j \in DOMAIN list : Head(list[j].pem) = leaf}}
  <2>1. leaf \in allowed[id] <=>
          \E i \in DOMAIN list : granted[i].participant_id = id /\ granted[i].certificate = leaf
    BY <1>2, <1>5
  <2>2. QED
    BY <1>2, <2>1
<1>8. QED
  BY <1>1, <1>3, <1>4, <1>6, <1>7

\* The invariant is preserved by binding for mutual TLS.
LEMMA BindMtlsStep ==
  ASSUME IInv, NEW list \in GrantLists, BindMtls(list)
  PROVE  IInv'
<1>1. list # None
  BY Nones
<1>2. /\ server = "unbound" /\ server' = "accept" /\ grants' = list
      /\ grantable([i \in DOMAIN list |-> from_pem(list[i])])
      /\ allowlist' = build_client_allowlist([i \in DOMAIN list |-> from_pem(list[i])])
      /\ UNCHANGED <<chain, request, client, up, down, seen, got, handled, answer, refused, result>>
  BY DEF BindMtls, calling, streams, handling
<1>3. SetupOk'
  BY <1>1, <1>2, AllowlistOk DEF SetupOk, Owners
<1>4. client = "idle" /\ up = <<>> /\ result = None /\ down = <<>> /\ refused = None /\ handled = None
  BY <1>2 DEF IInv, ClientOk, ServerOk
<1>5. ClientOk' /\ UpOk' /\ DownOk'
  BY <1>2, <1>4 DEF IInv, ClientOk, UpOk, DownOk
<1>6. ArrivalOk' /\ ServerOk' /\ ResultOk'
  BY <1>2, <1>4 DEF IInv, ArrivalOk, ServerOk, ResultOk
<1>7. RefusedOk'
  BY <1>2, <1>4, Nones DEF RefusedOk
<1>8. QED
  BY <1>3, <1>5, <1>6, <1>7 DEF IInv

\* What a request that may be sent is written as, for a client of any version.
LEMMA Writable ==
  ASSUME NEW q \in Requests, NEW pem, sendable(q, pem), NEW v \in Versions
  PROVE  /\ validate_transport_request(q) /\ write_request(v, q) \in String
         /\ v = PROTOCOL_VERSION => read_request(write_request(v, q)) = {q}
         /\ v # PROTOCOL_VERSION => read_request(write_request(v, q)) = {}
         /\ ~ panics(write_request(v, q))
<1>1. q \in ExecutionRequest /\ v \in Nat /\ validate_transport_request(q)
  BY MessagesAssumption DEF sendable
<1>2. QED
  BY <1>1, RequestRead

\* The invariant is preserved by the start of a dispatch.
LEMMA DispatchStep ==
  ASSUME IInv, NEW q \in Requests, NEW pem \in Transports, NEW v \in Versions,
         Dispatch(q, pem, v)
  PROVE  IInv'
<1>1. /\ client = "idle" /\ server = "accept" /\ chain' = pem /\ request' = q
      /\ UNCHANGED <<grants, allowlist, server, down, seen, got, handled, answer, refused>>
  BY DEF Dispatch, setup, handling
<1>2. /\ up = <<>> /\ result = None /\ down = <<>> /\ refused = None /\ handled = None
      /\ seen = 0 /\ got = 0
  <2>1. up = <<>> /\ result = None /\ down = <<>> /\ refused = None /\ handled = None
    BY <1>1 DEF IInv, ClientOk, ServerOk
  <2>2. seen \in 0..0 /\ got \in 0..0
    BY <2>1 DEF IInv, ArrivalOk
  <2>3. QED
    BY <2>1, <2>2
<1>3. \/ client' = "done" /\ result' = Error /\ up' = <<>>
      \/ /\ sendable(q, pem) /\ pem = None /\ client' = "reading" /\ result' = None
         /\ fits(write_request(v, q)) /\ up' = frame(write_request(v, q))
      \/ /\ sendable(q, pem) /\ pem # None /\ client' = "handshake" /\ result' = None
         /\ up' = Hello
  <2>1. CASE ~ sendable(q, pem)
    BY <1>2, <2>1 DEF Dispatch, Return
  <2>2. CASE sendable(q, pem) /\ pem = None
    <3>1. WriteRequest(v, q)
      BY <2>2 DEF Dispatch
    <3>2. write_request(v, q) \in String
      BY <2>2, Writable
    <3>3. <<>> \o frame(write_request(v, q)) = frame(write_request(v, q))
      BY <3>2, Streams, ConcatEmptySeq DEF String
    <3>4. \/ client' = "done" /\ result' = Error /\ up' = up
          \/ /\ client' = "reading" /\ result' = result
             /\ fits(write_request(v, q)) /\ up' = up \o frame(write_request(v, q))
      BY <3>1 DEF WriteRequest, Return
    <3>5. QED
      BY <1>2, <2>2, <3>3, <3>4
  <2>3. CASE sendable(q, pem) /\ pem # None
    BY <1>2, <2>3 DEF Dispatch
  <2>4. QED
    BY <2>1, <2>2, <2>3
<1>4. Len(up') \in Nat /\ q # None
  <2>1. Len(up') \in Nat
    BY <1>3, Writable, Streams DEF String
  <2>2. QED
    BY <2>1, MessagesAssumption
<1>5. SetupOk' /\ DownOk' /\ RefusedOk'
  BY <1>1, <1>2, Nones DEF IInv, SetupOk, Owners, DownOk, RefusedOk
<1>6. ClientOk'
  BY <1>1, <1>2, <1>3, <1>4 DEF IInv, ClientOk
<1>7. UpOk'
  BY <1>1, <1>3, <1>4 DEF UpOk, Plain
<1>8. ArrivalOk'
  BY <1>1, <1>2, <1>4 DEF ArrivalOk
<1>9. ServerOk'
  BY <1>1, <1>2 DEF IInv, ServerOk
<1>10. ResultOk'
  BY <1>3 DEF ResultOk
<1>11. QED
  BY <1>5, <1>6, <1>7, <1>8, <1>9, <1>10 DEF IInv

\* The invariant is preserved by a connection of another program.
LEMMA ConnectStep ==
  ASSUME IInv, NEW pem \in Transports, NEW bytes \in Foreign, Connect(pem, bytes)
  PROVE  IInv'
<1>1. /\ client = "idle" /\ server = "accept" /\ client' = "foreign" /\ chain' = pem
      /\ up' = IF pem = None THEN bytes ELSE Hello \o bytes
      /\ UNCHANGED <<grants, allowlist, request, server, down, seen, got, handled, answer,
                     refused, result>>
  BY DEF Connect, setup, handling
<1>2. /\ up = <<>> /\ result = None /\ down = <<>> /\ refused = None /\ handled = None
      /\ request = None
  BY <1>1 DEF IInv, ClientOk, ServerOk
<1>3. seen = 0 /\ got = 0
  <2>1. seen \in 0..0 /\ got \in 0..0
    BY <1>2 DEF IInv, ArrivalOk
  <2>2. QED
    BY <2>1
<1>4. Len(up') \in Nat
  <2>1. bytes \in String /\ Hello \o bytes \in String
    BY MessagesAssumption, BehindHello
  <2>2. QED
    BY <1>1, <2>1 DEF String
<1>5. SetupOk' /\ DownOk' /\ RefusedOk'
  BY <1>1, <1>2, Nones DEF IInv, SetupOk, Owners, DownOk, RefusedOk
<1>6. ClientOk' /\ UpOk'
  BY <1>1, <1>2 DEF IInv, ClientOk, UpOk
<1>7. ArrivalOk'
  BY <1>1, <1>2, <1>3, <1>4 DEF ArrivalOk
<1>8. ServerOk' /\ ResultOk'
  BY <1>1, <1>2 DEF IInv, ServerOk, ResultOk
<1>9. QED
  BY <1>5, <1>6, <1>7, <1>8 DEF IInv

\* The invariant is preserved by the end of the client's handshake.
LEMMA ClientHandshakeStep ==
  ASSUME IInv, NEW v \in Versions, ClientHandshake(v)
  PROVE  IInv'
<1>1. /\ client = "handshake" /\ server = "handshake" /\ up = Hello
      /\ server_name(request.endpoint.locator) \in ServerHosts
      /\ UNCHANGED <<grants, allowlist, chain, request, server, down, seen, got, handled,
                     answer, refused>>
  BY DEF ClientHandshake, HostVerified, setup, calling, handling
<1>2. /\ chain # None /\ grants # None /\ request # None /\ request \in Requests
      /\ sendable(request, chain) /\ result = None /\ down = <<>> /\ refused = None /\ handled = None
  BY <1>1 DEF IInv, ClientOk, ServerOk
<1>3. \/ client' = "done" /\ result' = Error /\ up' = up
      \/ /\ client' = "reading" /\ result' = result /\ fits(write_request(v, request))
         /\ up' = Hello \o frame(write_request(v, request))
  BY <1>1 DEF ClientHandshake, WriteRequest, Return
<1>4. write_request(v, request) \in String
  BY <1>2, Writable
<1>5. PICK f : f = frame(write_request(v, request))
  OBVIOUS
<1>6. f \in String /\ Len(f) \in Nat
  BY <1>4, <1>5, Streams DEF String
<1>7. Len(Hello) = 1 /\ Len(Hello \o f) = Len(f) + 1
  BY <1>6, Streams, BehindHello
<1>8. SetupOk' /\ DownOk' /\ RefusedOk'
  BY <1>1, <1>2, Nones DEF IInv, SetupOk, Owners, DownOk, RefusedOk
<1>9. ClientOk'
  BY <1>1, <1>2, <1>3 DEF IInv, ClientOk
<1>10. UpOk'
  <2>1. CASE client' = "done" /\ up' = up
    BY <1>1, <1>2, <2>1 DEF UpOk
  <2>2. CASE client' = "reading" /\ up' = Hello \o frame(write_request(v, request))
    <3>1. Behind'
      BY <1>1, <1>2, <1>3, <2>2 DEF Behind
    <3>2. QED
      BY <1>1, <1>2, <3>1 DEF UpOk
  <2>3. QED
    BY <1>3, <2>1, <2>2
<1>11. ArrivalOk'
  <2>1. seen \in 0..Len(Hello) /\ got \in 0..Len(down)
    BY <1>1 DEF IInv, ArrivalOk
  <2>2. Len(up') = Len(Hello) \/ Len(up') = Len(f) + 1
    BY <1>1, <1>3, <1>5, <1>7
  <2>3. QED
    BY <1>1, <1>6, <1>7, <2>1, <2>2 DEF ArrivalOk
<1>12. ServerOk'
  BY <1>1, <1>2, <1>3 DEF IInv, ServerOk
<1>13. ResultOk'
  BY <1>2, <1>3 DEF ResultOk
<1>14. QED
  BY <1>8, <1>9, <1>10, <1>11, <1>12, <1>13 DEF IInv

\* The invariant is preserved by the end of the server's handshake.
LEMMA ServerHandshakeStep ==
  ASSUME IInv, ServerHandshake
  PROVE  IInv'
<1>1. /\ server = "handshake" /\ server' = "reading"
      /\ client = "foreign" \/ up # Hello
      /\ seen > 0 /\ Head(up) = MaxFrame + 1 /\ chain \in Verified
      /\ UNCHANGED <<grants, allowlist, chain, request, client, up, down, seen, got, handled,
                     answer, refused, result>>
  BY Streams DEF ServerHandshake, client_verified, setup, calling, streams, handling
<1>2. client # "idle" /\ (request # None => sendable(request, chain)) /\ grants # None
  BY <1>1 DEF IInv, ServerOk
<1>3. ASSUME request # None
      PROVE  Behind
  <2>1. up # <<>> /\ up # Hello /\ request \in Requests
    BY <1>1, <1>3 DEF IInv, ArrivalOk, ClientOk
  <2>2. ASSUME NEW v \in Versions, fits(write_request(v, request)),
               up = frame(write_request(v, request))
        PROVE  FALSE
    <3>1. write_request(v, request) \in String
      BY <1>2, <1>3, <2>1, Writable
    <3>2. Head(up) = Len(write_request(v, request))
      BY <2>2, <3>1, Streams
    <3>3. QED
      BY <1>1, <2>2, <3>2, FrameAssumption DEF fits
  <2>3. QED
    BY <1>3, <2>1, <2>2 DEF IInv, UpOk, Plain
<1>4. request # None => Behind'
  BY <1>1, <1>3 DEF Behind
<1>5. SetupOk' /\ ClientOk' /\ ArrivalOk' /\ RefusedOk'
  BY <1>1 DEF IInv, SetupOk, Owners, ClientOk, ArrivalOk, RefusedOk
<1>6. UpOk'
  BY <1>1 DEF IInv, UpOk, Plain, Behind
<1>7. ServerOk'
  BY <1>1, <1>2, <1>4 DEF IInv, ServerOk
<1>8. DownOk' /\ ResultOk'
  BY <1>1 DEF IInv, DownOk, ResultOk, ServerOk
<1>9. QED
  BY <1>5, <1>6, <1>7, <1>8 DEF IInv

\* The invariant is preserved by the return of the handler.
LEMMA HandlerReturnsStep ==
  ASSUME IInv, NEW a \in Answers, HandlerReturns(a)
  PROVE  IInv'
<1>1. /\ server = "handling" /\ server' = "closed" /\ answer' = a
      /\ down' = IF fits(write_response(a)) THEN frame(write_response(a)) ELSE <<>>
      /\ UNCHANGED <<grants, allowlist, chain, request, client, up, seen, got, handled,
                     refused, result>>
  BY DEF HandlerReturns, setup, calling
<1>2. Entitled /\ down = <<>> /\ refused = None
  BY <1>1 DEF IInv, ServerOk
<1>3. Entitled'
  BY <1>1, <1>2 DEF Entitled, Plain, Behind, authorized
<1>4. SetupOk' /\ ClientOk' /\ RefusedOk'
  BY <1>1 DEF IInv, SetupOk, Owners, ClientOk, RefusedOk
<1>5. UpOk'
  BY <1>1 DEF IInv, UpOk, Plain, Behind
<1>6. DownOk'
  BY <1>1, <1>3 DEF DownOk
<1>7. ArrivalOk'
  <2>1. got \in 0..0
    BY <1>2 DEF IInv, ArrivalOk
  <2>2. a \in ExecutionResponse
    BY MessagesAssumption
  <2>3. frame(write_response(a)) \in String
    BY <2>2, ResponseRead, Streams
  <2>4. Len(down') \in Nat
    BY <1>1, <2>3 DEF String
  <2>5. QED
    BY <1>1, <2>1, <2>4 DEF IInv, ArrivalOk
<1>8. ServerOk'
  BY <1>1, <1>3 DEF IInv, ServerOk
<1>9. ResultOk'
  BY <1>1 DEF IInv, ResultOk
<1>10. QED
  BY <1>4, <1>5, <1>6, <1>7, <1>8, <1>9 DEF IInv

\* The invariant is preserved by the arrival of the whole response.
LEMMA ReadResponseStep ==
  ASSUME IInv, ReadResponse
  PROVE  IInv'
<1>1. /\ client = "reading" /\ client' = "done" /\ whole_frame(Arrived(down, got))
      /\ UNCHANGED <<grants, allowlist, chain, request, server, up, down, seen, got, handled,
                     answer, refused>>
  BY DEF ReadResponse, Return, setup, calling, streams, handling
<1>2. PICK read :
        /\ read = UNION {read_response(p) : p \in read_frame(Arrived(down, got))}
        /\ result' = Error \/ \E a \in read : answers(a, request) /\ result' = a
  BY DEF ReadResponse, Return
<1>3. down # <<>>
  <2>1. SUFFICES ASSUME down = <<>> PROVE FALSE
    OBVIOUS
  <2>2. got \in 0..0
    BY <2>1 DEF IInv, ArrivalOk
  <2>3. Arrived(down, got) = <<>>
    BY <2>1, <2>2 DEF Arrived
  <2>4. QED
    BY <1>1, <2>3 DEF whole_frame
<1>4. /\ Entitled /\ answer \in Answers /\ server = "closed"
      /\ fits(write_response(answer)) /\ down = frame(write_response(answer))
  BY <1>3 DEF IInv, DownOk, ServerOk
<1>5. /\ answer \in ExecutionResponse /\ write_response(answer) \in String
      /\ read_response(write_response(answer)) = {answer}
  BY <1>4, MessagesAssumption, ResponseRead
<1>6. read_frame(Arrived(down, got)) = {write_response(answer)}
  <2>1. got \in 0..Len(frame(write_response(answer)))
    BY <1>4 DEF IInv, ArrivalOk
  <2>2. QED
    BY <1>1, <1>4, <1>5, <2>1, FrameArrives
<1>7. read = {answer}
  BY <1>2, <1>5, <1>6
<1>8. result' = Error \/ (result' = answer /\ answer.request_id = request.request_id)
  BY <1>2, <1>7 DEF answers
<1>9. Entitled'
  BY <1>1, <1>4 DEF Entitled, Plain, Behind, authorized
<1>10. SetupOk' /\ ArrivalOk' /\ RefusedOk'
  BY <1>1 DEF IInv, SetupOk, Owners, ArrivalOk, RefusedOk
<1>11. ClientOk'
  BY <1>1 DEF IInv, ClientOk
<1>12. UpOk'
  BY <1>1 DEF IInv, UpOk, Plain, Behind
<1>13. ServerOk'
  BY <1>1, <1>4, <1>9 DEF IInv, ServerOk
<1>14. DownOk'
  BY <1>1, <1>4, <1>9 DEF DownOk
<1>15. ResultOk'
  <2>1. request # None
    BY <1>1 DEF IInv, UpOk
  <2>2. QED
    BY <1>1, <1>4, <1>8, <1>9, <2>1 DEF ResultOk
<1>16. QED
  BY <1>10, <1>11, <1>12, <1>13, <1>14, <1>15 DEF IInv

\* What the server finds when it can read what a client of this crate wrote: a hello that is no frame, or the
\* request as the client wrote it.
LEMMA RequestArrives ==
  ASSUME IInv, request # None, server = "reading", FrameRead(Readable)
  PROVE  \/ grants = None /\ chain # None /\ read_frame(Readable) = {}
         \/ /\ chain # None => Behind
            /\ \E v \in Versions :
                 /\ read_frame(Readable) = {write_request(v, request)}
                 /\ frame(write_request(v, request)) \in {up, Tail(up)}
<1>1. request \in Requests /\ sendable(request, chain) /\ seen \in 0..Len(up)
  BY DEF IInv, ServerOk, ClientOk, ArrivalOk
<1>2. ASSUME NEW v \in Versions, NEW n \in 0..Len(frame(write_request(v, request))),
             fits(write_request(v, request)),
             Readable = Arrived(frame(write_request(v, request)), n)
      PROVE  read_frame(Readable) = {write_request(v, request)}
  <2>1. PICK p \in String : p = write_request(v, request)
    BY <1>1, Writable
  <2>2. PICK s : s = Arrived(frame(p), n)
    OBVIOUS
  <2>3. /\ n # 0 => acceptable_length(Head(s))
        /\ n = 0 => s = <<>>
        /\ whole_frame(s) => read_frame(s) = {p}
    BY <1>2, <2>1, <2>2, FrameArrives
  <2>4. Readable = s
    BY <1>2, <2>1, <2>2
  <2>5. s # <<>> /\ (acceptable_length(Head(s)) => whole_frame(s))
    BY <2>4 DEF FrameRead
  <2>6. QED
    BY <2>1, <2>3, <2>4, <2>5
<1>3. CASE grants = None
  <2>1. Readable = Arrived(up, seen)
    BY <1>3 DEF Readable
  <2>2. up # <<>>
    <3>1. SUFFICES ASSUME up = <<>> PROVE FALSE
      OBVIOUS
    <3>2. Arrived(up, seen) = <<>>
      BY <1>1, <3>1 DEF Arrived
    <3>3. QED
      BY <2>1, <3>2 DEF FrameRead
  <2>3. CASE chain # None /\ up = Hello
    <3>1. seen = 0 \/ seen = 1
      BY <1>1, <2>3, Streams
    <3>2. seen = 0 => Arrived(up, seen) = <<>>
      BY DEF Arrived
    <3>3. seen = 1
      BY <2>1, <3>1, <3>2 DEF FrameRead
    <3>4. SubSeq(Hello, 1, 1) = Hello
      BY Streams, SubSeqFull DEF String
    <3>5. Readable = Hello
      BY <2>1, <2>3, <3>3, <3>4 DEF Arrived
    <3>6. ~ acceptable_length(Head(Hello))
      BY Streams, FrameAssumption DEF acceptable_length
    <3>7. QED
      BY <1>3, <2>3, <3>5, <3>6 DEF read_frame
  <2>4. CASE Plain
    <3>1. PICK v \in Versions :
            fits(write_request(v, request)) /\ up = frame(write_request(v, request))
      BY <2>4 DEF Plain
    <3>2. read_frame(Readable) = {write_request(v, request)}
      BY <1>1, <1>2, <2>1, <3>1
    <3>3. QED
      BY <2>4, <3>1, <3>2 DEF Plain
  <2>5. ~ Behind
    BY <1>3 DEF Plain, Behind
  <2>6. QED
    BY <2>2, <2>3, <2>4, <2>5 DEF IInv, UpOk
<1>4. CASE grants # None
  <2>1. Behind /\ seen > 0
    BY <1>4 DEF IInv, ServerOk
  <2>2. PICK v \in Versions :
          fits(write_request(v, request)) /\ up = Hello \o frame(write_request(v, request))
    BY <2>1 DEF Plain, Behind
  <2>3. PICK f : f = frame(write_request(v, request))
    OBVIOUS
  <2>4. f \in String /\ Len(f) \in Nat
    <3>1. f \in String
      BY <1>1, <2>3, Writable, Streams
    <3>2. QED
      BY <3>1 DEF String
  <2>5. Len(up) = Len(f) + 1 /\ Tail(up) = f /\ seen \in 1..(Len(f) + 1)
    <3>1. Len(Hello \o f) = Len(f) + 1 /\ Tail(Hello \o f) = f
      BY <2>4, BehindHello
    <3>2. Len(up) = Len(f) + 1 /\ Tail(up) = f
      BY <2>2, <2>3, <3>1
    <3>3. QED
      BY <1>1, <2>1, <2>4, <3>2
  <2>6. Readable = Arrived(f, seen - 1)
    <3>1. Tail(Arrived(Hello \o f, seen)) = Arrived(f, seen - 1)
      BY <2>4, <2>5, BehindHello
    <3>2. QED
      BY <1>4, <2>2, <2>3, <3>1 DEF Readable
  <2>7. seen - 1 \in 0..Len(f)
    BY <2>4, <2>5
  <2>8. read_frame(Readable) = {write_request(v, request)}
    BY <1>2, <2>2, <2>3, <2>6, <2>7
  <2>9. QED
    BY <2>1, <2>3, <2>5, <2>8
<1>5. QED
  BY <1>3, <1>4

\* A request is authorized exactly when the certificate of the client was granted to
\* its source.
LEMMA AuthorizedIs ==
  ASSUME IInv, grants # None, NEW q, q.source # None
  PROVE  authorized(q) <=> q.source.id \in Owners(Head(chain))
<1>1. PICK id : id = q.source.id
  OBVIOUS
<1>2. authorized(q) <=> id \in DOMAIN allowlist /\ Head(chain) \in allowlist[id]
  BY <1>1 DEF authorized
<1>3. id \in DOMAIN allowlist <=> \E i \in DOMAIN grants : grants[i].id = id
  BY DEF IInv, SetupOk
<1>4. id \in DOMAIN allowlist => (Head(chain) \in allowlist[id] <=> id \in Owners(Head(chain)))
  BY DEF IInv, SetupOk
<1>5. id \in Owners(Head(chain)) => id \in DOMAIN allowlist
  BY <1>3 DEF Owners
<1>6. QED
  BY <1>1, <1>2, <1>4, <1>5

\* No request of a client of this crate makes the reader panic.
LEMMA NoReaderPanic ==
  ASSUME IInv, request # None, server = "reading", FrameRead(Readable)
  PROVE  ~ ReaderPanics
<1>1. request \in Requests /\ sendable(request, chain)
  BY DEF IInv, ServerOk, ClientOk
<1>2. \/ read_frame(Readable) = {}
      \/ \E v \in Versions : read_frame(Readable) = {write_request(v, request)}
  BY RequestArrives
<1>3. QED
  BY <1>1, <1>2, Writable DEF ReaderPanics

\* The invariant is preserved by a panic of the reader.
LEMMA ReadPanicsStep ==
  ASSUME IInv, ReadPanics
  PROVE  IInv'
<1>1. /\ server = "reading" /\ server' = "panicked" /\ FrameRead(Readable) /\ ReaderPanics
      /\ UNCHANGED <<grants, allowlist, chain, request, client, up, down, seen, got, handled,
                     answer, refused, result>>
  BY DEF ReadPanics, setup, calling, streams, handling
<1>2. /\ request = None /\ client # "idle" /\ handled = None /\ refused = None
      /\ down = <<>>
  BY <1>1, NoReaderPanic DEF IInv, ServerOk
<1>3. SetupOk' /\ ClientOk' /\ ArrivalOk' /\ RefusedOk'
  BY <1>1, <1>2 DEF IInv, SetupOk, Owners, ClientOk, ArrivalOk, RefusedOk
<1>4. UpOk' /\ ServerOk' /\ DownOk'
  BY <1>1, <1>2 DEF IInv, UpOk, ServerOk, DownOk
<1>5. ResultOk'
  BY <1>1, <1>2 DEF IInv, ResultOk
<1>6. QED
  BY <1>3, <1>4, <1>5 DEF IInv

\* The invariant is preserved by reading a request.
LEMMA ReadRequestStep ==
  ASSUME IInv, ReadRequest
  PROVE  IInv'
<1>1. /\ server = "reading" /\ FrameRead(Readable)
      /\ UNCHANGED <<grants, allowlist, chain, request, client, up, down, seen, got, answer, result>>
  BY DEF ReadRequest, setup, calling, streams
<1>2. /\ client # "idle" /\ handled = None /\ refused = None /\ down = <<>>
      /\ request # None => request \in Requests /\ sendable(request, chain)
      /\ grants # None => chain \in Verified /\ (request # None => Behind)
  BY <1>1 DEF IInv, ServerOk, ClientOk
<1>3. PICK read : read = UNION {read_request(p) : p \in read_frame(Readable)}
  OBVIOUS
<1>4. \/ \E q \in read : /\ authorized(q) /\ server' = "handling" /\ handled' = q
                         /\ refused' = refused
      \/ /\ \A q \in read : ~ authorized(q)
         /\ server' = "closed" /\ refused' = (IF read = {} THEN "frame" ELSE "client")
         /\ handled' = handled
  BY <1>3 DEF ReadRequest
<1>5. SetupOk' /\ ClientOk' /\ ArrivalOk'
  BY <1>1, <1>2, <1>4 DEF IInv, SetupOk, Owners, ClientOk, ArrivalOk
<1>6. UpOk'
  BY <1>1 DEF IInv, UpOk, Plain, Behind
<1>7. DownOk'
  BY <1>1, <1>2 DEF DownOk
<1>8. ResultOk'
  BY <1>1 DEF IInv, ResultOk
<1>9. ASSUME request # None, read = {},
             \/ grants = None /\ chain # None
             \/ \E v \in Versions \ {PROTOCOL_VERSION} :
                  frame(write_request(v, request)) \in {up, Tail(up)}
      PROVE  ServerOk' /\ RefusedOk'
  <2>1. server' = "closed" /\ refused' = "frame" /\ handled' = None
    BY <1>2, <1>4, <1>9
  <2>2. ServerOk'
    BY <1>1, <1>2, <2>1 DEF ServerOk
  <2>3. RefusedOk'
    BY <1>1, <1>9, <2>1 DEF RefusedOk
  <2>4. QED
    BY <2>2, <2>3
<1>10. ASSUME request # None, read = {request}, chain # None => Behind
       PROVE  ServerOk' /\ RefusedOk'
  <2>1. CASE authorized(request)
    <3>1. server' = "handling" /\ handled' = request /\ refused' = None
      BY <1>2, <1>4, <1>10, <2>1
    <3>2. Entitled'
      BY <1>1, <1>2, <1>10, <2>1, <3>1 DEF Entitled, Plain, Behind, authorized
    <3>3. ServerOk'
      BY <1>1, <1>2, <3>1, <3>2 DEF ServerOk
    <3>4. RefusedOk'
      BY <3>1, Nones DEF RefusedOk
    <3>5. QED
      BY <3>3, <3>4
  <2>2. CASE ~ authorized(request)
    <3>1. server' = "closed" /\ handled' = None /\ refused' = "client"
      BY <1>2, <1>4, <1>10, <2>2
    <3>2. grants # None
      BY <2>2 DEF authorized
    <3>3. request.source # None
      BY <1>2, <1>10, <3>2 DEF Behind, sendable
    <3>4. request.source.id \notin Owners(Head(chain))
      BY <2>2, <3>2, <3>3, AuthorizedIs
    <3>5. Owners(Head(chain))' = Owners(Head(chain))
      BY <1>1 DEF Owners
    <3>6. RefusedOk'
      BY <1>1, <3>1, <3>2, <3>4, <3>5 DEF RefusedOk
    <3>7. ServerOk'
      BY <1>1, <1>2, <3>1 DEF ServerOk
    <3>8. QED
      BY <3>6, <3>7
  <2>3. QED
    BY <2>1, <2>2
<1>11. ASSUME request = None
       PROVE  ServerOk' /\ RefusedOk'
  <2>1. CASE \E q \in read : /\ authorized(q) /\ server' = "handling" /\ handled' = q
                             /\ refused' = refused
    <3>1. PICK q : authorized(q) /\ server' = "handling" /\ handled' = q /\ refused' = None
      BY <1>2, <2>1
    <3>2. Entitled'
      BY <1>1, <1>2, <1>11, <3>1 DEF Entitled, authorized
    <3>3. ServerOk'
      BY <1>1, <1>2, <1>11, <3>1, <3>2 DEF ServerOk
    <3>4. RefusedOk'
      BY <3>1, Nones DEF RefusedOk
    <3>5. QED
      BY <3>3, <3>4
  <2>2. CASE /\ \A q \in read : ~ authorized(q)
             /\ server' = "closed" /\ refused' = (IF read = {} THEN "frame" ELSE "client")
             /\ handled' = handled
    <3>1. read # {} => grants # None
      BY <2>2 DEF authorized
    <3>2. RefusedOk'
      BY <1>1, <1>11, <2>2, <3>1 DEF RefusedOk
    <3>3. ServerOk'
      BY <1>1, <1>2, <1>11, <2>2 DEF ServerOk
    <3>4. QED
      BY <3>2, <3>3
  <2>3. QED
    BY <1>4, <2>1, <2>2
<1>12. ASSUME request # None
       PROVE  ServerOk' /\ RefusedOk'
  <2>1. CASE grants = None /\ chain # None /\ read_frame(Readable) = {}
    BY <1>3, <1>9, <1>12, <2>1
  <2>2. CASE /\ chain # None => Behind
             /\ \E v \in Versions :
                  /\ read_frame(Readable) = {write_request(v, request)}
                  /\ frame(write_request(v, request)) \in {up, Tail(up)}
    <3>1. PICK v \in Versions :
            /\ read_frame(Readable) = {write_request(v, request)}
            /\ frame(write_request(v, request)) \in {up, Tail(up)}
      BY <2>2
    <3>2. read = read_request(write_request(v, request))
      BY <1>3, <3>1
    <3>3. CASE v = PROTOCOL_VERSION
      BY <1>2, <1>10, <1>12, <2>2, <3>2, <3>3, Writable
    <3>4. CASE v # PROTOCOL_VERSION
      <4>1. read = {}
        BY <1>2, <1>12, <3>2, <3>4, Writable
      <4>2. QED
        BY <1>9, <1>12, <3>1, <3>4, <4>1
    <3>5. QED
      BY <3>3, <3>4
  <2>3. QED
    BY <1>1, <1>12, <2>1, <2>2, RequestArrives
<1>13. QED
  BY <1>5, <1>6, <1>7, <1>8, <1>11, <1>12 DEF IInv

-----------------------------------------------------------------------------
\* The theorems.

\* The invariant holds of a connection with any requests, answers, grants and
\* versions, and whatever other programs write.
THEOREM InvHolds == Spec => []IInv
<1>1. Init => IInv
  <2> SUFFICES ASSUME Init PROVE IInv
    OBVIOUS
  <2>1. SetupOk /\ ClientOk /\ UpOk
    BY DEF Init, SetupOk, ClientOk, UpOk
  <2>2. ArrivalOk /\ ServerOk /\ DownOk
    BY DEF Init, ArrivalOk, ServerOk, DownOk
  <2>3. RefusedOk /\ ResultOk
    BY Nones DEF Init, RefusedOk, ResultOk
  <2>4. QED
    BY <2>1, <2>2, <2>3 DEF IInv
<1>2. ASSUME IInv, [Next]_vars
      PROVE  IInv'
  <2>1. CASE UNCHANGED vars
    <3>1. UNCHANGED <<grants, allowlist, chain, request, client, server, up, down, seen, got,
                      handled, answer, refused, result>>
      BY <2>1 DEF vars, setup, calling, streams, handling
    <3>2. SetupOk' /\ ClientOk' /\ ArrivalOk' /\ RefusedOk'
      BY <1>2, <3>1 DEF IInv, SetupOk, Owners, ClientOk, ArrivalOk, RefusedOk
    <3>3. UpOk'
      BY <1>2, <3>1 DEF IInv, UpOk, Plain, Behind
    <3>4. Entitled' <=> Entitled
      BY <3>1 DEF Entitled, Plain, Behind, authorized
    <3>5. ServerOk' /\ DownOk' /\ ResultOk'
      BY <1>2, <3>1, <3>4 DEF IInv, ServerOk, DownOk, ResultOk, Plain, Behind
    <3>6. QED
      BY <3>2, <3>3, <3>5 DEF IInv
  <2>2. CASE Bind \/ \E list \in GrantLists : BindMtls(list)
    BY <1>2, <2>2, BindStep, BindMtlsStep
  <2>3. CASE \E q \in Requests, pem \in Transports, v \in Versions : Dispatch(q, pem, v)
    BY <1>2, <2>3, DispatchStep
  <2>8. CASE \E pem \in Transports, bytes \in Foreign : Connect(pem, bytes)
    BY <1>2, <2>8, ConnectStep
  <2>4. CASE Network \/ Accept
    BY <1>2, <2>4, NetworkStep, AcceptStep
  <2>5. CASE Client
    BY <1>2, <2>5, ClientFailsStep, ReadResponseStep, ClientHandshakeStep DEF Client
  <2>6. CASE Server
    BY <1>2, <2>6, ServerHandshakeStep, ReadRequestStep, ReadPanicsStep, ServerFailsStep,
       HandlerPanicsStep DEF Server, Serve
  <2>7. CASE \E a \in Answers : HandlerReturns(a)
    BY <1>2, <2>7, HandlerReturnsStep
  <2>9. QED
    BY <1>2, <2>1, <2>2, <2>3, <2>4, <2>5, <2>6, <2>7, <2>8 DEF Next
<1>3. QED
  BY <1>1, <1>2, PTL DEF Spec

\* The handler is called with exactly what the client dispatched, and a whole
\* request of the same version is never refused for its encoding nor makes the
\* reader panic, for requests of any size up to the largest frame and lifetimes up
\* to the longest (transport.rs:709-998).
THEOREM RequestsAreReadAsSent == Spec => []ReadAsSent
<1>1. IInv => ReadAsSent
  BY DEF IInv, ServerOk, Entitled, RefusedOk, ReadAsSent
<1>2. QED
  BY <1>1, InvHolds, PTL

\* Nobody is served under the id of another: with any list of grants, the leaf of
\* a verified chain belongs to the source of the request and to nobody else, whatever
\* the client writes, and nobody who is granted his id is turned away (transport.rs:450-465, 475-501).
THEOREM IdentitiesAreNotBorrowed == Spec => []NoBorrowedIdentity
<1>1. ASSUME IInv
      PROVE  NoBorrowedIdentity
  <2>1. PICK owners : owners = Owners(Head(chain))
    OBVIOUS
  <2>2. refused = "client" =>
          grants # None /\ (request # None => request.source.id \notin owners)
    BY <1>1, <2>1 DEF IInv, RefusedOk
  <2>3. ASSUME handled # None, grants # None
        PROVE  chain \in Verified /\ owners = {handled.source.id}
    <3>1. chain \in Verified /\ authorized(handled) /\ handled.source # None
      BY <1>1, <2>3 DEF IInv, ServerOk, Entitled, authorized
    <3>2. handled.source.id \in owners
      BY <1>1, <2>1, <2>3, <3>1, AuthorizedIs
    <3>3. \A i, j \in DOMAIN grants : Head(grants[i].pem) = Head(grants[j].pem) => i = j
      BY <1>1, <2>3 DEF IInv, SetupOk
    <3>4. \A x, y \in owners : x = y
      BY <2>1, <3>3 DEF Owners
    <3>5. owners = {handled.source.id}
      BY <3>2, <3>4
    <3>6. QED
      BY <3>1, <3>5
  <2>4. QED
    BY <2>1, <2>2, <2>3 DEF NoBorrowedIdentity, Owners
<1>2. QED
  BY <1>1, InvHolds, PTL

\* What dispatch returns is the answer of the handler to this very request, from
\* the server the locator names when TLS was asked for
\* (transport.rs:519-531, 564-590).
THEOREM AnswersAreOwn == Spec => []AnsweredOwn
<1>1. IInv => AnsweredOwn
  BY DEF IInv, ResultOk, Entitled, Plain, Behind, AnsweredOwn
<1>2. QED
  BY <1>1, InvHolds, PTL

\* Neither end waits for what the other does not send, for requests, responses and
\* grants of any size: when all that was written has arrived, the server has the
\* whole request and the client the whole response (transport.rs:721-847).
THEOREM NobodyWaitsInVain == Spec => []NoStandoff
<1>1. ASSUME IInv, client = "reading", server = "reading", seen = Len(up)
      PROVE  FrameRead(Readable)
  <2>1. request \in Requests /\ sendable(request, chain) /\ (Plain \/ Behind)
    BY <1>1 DEF IInv, ClientOk, ServerOk, UpOk
  <2>2. ASSUME NEW v \in Versions, fits(write_request(v, request)),
               Readable = Arrived(frame(write_request(v, request)),
                                  Len(frame(write_request(v, request))))
        PROVE  FrameRead(Readable)
    <3>1. PICK p \in String : p = write_request(v, request)
      BY <2>1, Writable
    <3>2. Len(frame(p)) \in Nat \ {0}
      <4>1. Len(p) \in Nat
        BY DEF String
      <4>2. QED
        BY <4>1, Streams
    <3>3. Readable = Arrived(frame(p), Len(frame(p)))
      BY <2>2, <3>1
    <3>4. PICK s : s = Arrived(frame(p), Len(frame(p)))
      OBVIOUS
    <3>5. s # <<>> /\ whole_frame(s)
      BY <2>2, <3>1, <3>2, <3>4, FrameArrives
    <3>6. QED
      BY <3>3, <3>4, <3>5 DEF FrameRead
  <2>3. CASE grants = None
    <3>1. Plain /\ Readable = Arrived(up, seen)
      BY <2>1, <2>3 DEF Behind, Readable
    <3>2. PICK v \in Versions :
            fits(write_request(v, request)) /\ up = frame(write_request(v, request))
      BY <3>1 DEF Plain
    <3>3. QED
      BY <1>1, <2>2, <3>1, <3>2
  <2>4. CASE grants # None
    <3>1. Behind
      BY <1>1, <2>4 DEF IInv, ServerOk, UpOk
    <3>2. PICK v \in Versions :
            fits(write_request(v, request)) /\ up = Hello \o frame(write_request(v, request))
      BY <3>1 DEF Behind
    <3>3. PICK f \in String : f = frame(write_request(v, request))
      BY <2>1, Writable, Streams
    <3>4. Len(f) \in Nat
      BY DEF String
    <3>5. Len(Hello \o f) = Len(f) + 1 /\ Tail(Arrived(Hello \o f, Len(f) + 1)) = Arrived(f, Len(f))
      BY <3>4, BehindHello
    <3>6. Readable = Arrived(f, Len(f))
      BY <1>1, <2>4, <3>2, <3>3, <3>5 DEF Readable
    <3>7. QED
      BY <2>2, <3>2, <3>3, <3>6
  <2>5. QED
    BY <2>3, <2>4
<1>2. ASSUME IInv, down # <<>>, got = Len(down)
      PROVE  whole_frame(Arrived(down, got))
  <2>1. /\ answer \in Answers /\ fits(write_response(answer))
        /\ down = frame(write_response(answer))
    BY <1>2 DEF IInv, DownOk
  <2>2. PICK p \in String : p = write_response(answer)
    BY <2>1, MessagesAssumption, ResponseRead
  <2>3. Len(frame(p)) \in Nat
    <3>1. Len(p) \in Nat
      BY DEF String
    <3>2. QED
      BY <3>1, Streams
  <2>4. whole_frame(Arrived(frame(p), Len(frame(p))))
    BY <2>1, <2>2, <2>3, FrameArrives
  <2>5. QED
    BY <1>2, <2>1, <2>2, <2>4
<1>3. IInv => NoStandoff
  BY <1>1, <1>2 DEF NoStandoff
<1>4. QED
  BY <1>3, InvHolds, PTL
=============================================================================
