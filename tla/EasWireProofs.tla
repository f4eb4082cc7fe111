---------------------------- MODULE EasWireProofs -----------------------------
(***************************************************************************)
(* Theorems about EasWire.                                                 *)
(***************************************************************************)
EXTENDS EasWire, RecursionLemmas, SequenceTheorems, FiniteSetTheorems

-------------------------------------------------------------------------------
(* obscure_password                                                        *)

Digit(n, p) == (n \div p) % 2

\* A byte is made of its digits, so two bytes with the same digits are the same.
LEMMA SameDigits ==
  ASSUME NEW m \in Int, NEW n \in Int,
         \A p \in {1, 2, 4, 8, 16, 32, 64, 128} : Digit(m, p) = Digit(n, p)
  PROVE  m % 256 = n % 256
PROOF
<1>1. m % 2 = Digit(m, 1) /\ n % 2 = Digit(n, 1)
      BY DEF Digit
<1>2. m % 4 = (m % 2) + 2 * Digit(m, 2) /\ n % 4 = (n % 2) + 2 * Digit(n, 2)
      BY DEF Digit
<1>3. m % 8 = (m % 4) + 4 * Digit(m, 4) /\ n % 8 = (n % 4) + 4 * Digit(n, 4)
      BY DEF Digit
<1>4. m % 16 = (m % 8) + 8 * Digit(m, 8) /\ n % 16 = (n % 8) + 8 * Digit(n, 8)
      BY DEF Digit
<1>5. m % 32 = (m % 16) + 16 * Digit(m, 16) /\ n % 32 = (n % 16) + 16 * Digit(n, 16)
      BY DEF Digit
<1>6. m % 64 = (m % 32) + 32 * Digit(m, 32) /\ n % 64 = (n % 32) + 32 * Digit(n, 32)
      BY DEF Digit
<1>7. m % 128 = (m % 64) + 64 * Digit(m, 64) /\ n % 128 = (n % 64) + 64 * Digit(n, 64)
      BY DEF Digit
<1>8. m % 256 = (m % 128) + 128 * Digit(m, 128) /\ n % 256 = (n % 128) + 128 * Digit(n, 128)
      BY DEF Digit
<1>9. m % 2 = n % 2
  <2>1. Digit(m, 1) = Digit(n, 1)
        OBVIOUS
  <2> QED BY <1>1, <2>1, Zenon
<1>10. m % 4 = n % 4
  <2>1. Digit(m, 2) = Digit(n, 2)
        OBVIOUS
  <2> QED BY <1>2, <1>9, <2>1, Zenon
<1>11. m % 8 = n % 8
  <2>1. Digit(m, 4) = Digit(n, 4)
        OBVIOUS
  <2> QED BY <1>3, <1>10, <2>1, Zenon
<1>12. m % 16 = n % 16
  <2>1. Digit(m, 8) = Digit(n, 8)
        OBVIOUS
  <2> QED BY <1>4, <1>11, <2>1, Zenon
<1>13. m % 32 = n % 32
  <2>1. Digit(m, 16) = Digit(n, 16)
        OBVIOUS
  <2> QED BY <1>5, <1>12, <2>1, Zenon
<1>14. m % 64 = n % 64
  <2>1. Digit(m, 32) = Digit(n, 32)
        OBVIOUS
  <2> QED BY <1>6, <1>13, <2>1, Zenon
<1>15. m % 128 = n % 128
  <2>1. Digit(m, 64) = Digit(n, 64)
        OBVIOUS
  <2> QED BY <1>7, <1>14, <2>1, Zenon
<1>16. m % 256 = n % 256
  <2>1. Digit(m, 128) = Digit(n, 128)
        OBVIOUS
  <2> QED BY <1>8, <1>15, <2>1
<1> QED BY <1>16

\* Bytes that are the same modulo 256 are the same.
LEMMA ByteIs ==
  ASSUME NEW x \in Int, NEW y \in Int, 0 <= x, x <= 255, 0 <= y, y <= 255, x % 256 = y % 256
  PROVE  x = y
OBVIOUS

\* A multiple of 256 has no digits.
LEMMA DigitsOfLow ==
  ASSUME NEW x \in Int, NEW c \in Int, NEW p \in {1, 2, 4, 8, 16, 32, 64, 128}
  PROVE  Digit(x - 256 * c, p) = Digit(x, p)
BY DEF Digit

\* A byte is masked with 0xFF.
LEMMA XorIsByte ==
  ASSUME NEW m \in Int, NEW n \in Int
  PROVE  Xor(m, n) \in 0..255
BY SMTT(60) DEF Xor

\* A digit of m ^ n is 1 where those of m and n differ.
LEMMA XorDigits ==
  ASSUME NEW m \in Int, NEW n \in Int, NEW p \in {1, 2, 4, 8, 16, 32, 64, 128}
  PROVE  Digit(Xor(m, n), p) = (Digit(m, p) + Digit(n, p)) % 2
BY SMTT(60) DEF Xor, Digit

\* Applied twice, it gives back the low byte; a multiple of 256 makes no difference.
LEMMA XorTwice ==
  ASSUME NEW m \in Int, NEW n \in Int, NEW y \in Int, NEW c \in {0, 1},
         y = Xor(m, n) - 256 * c
  PROVE  Xor(y, n) = m % 256
PROOF
<1> DEFINE Ps == {1, 2, 4, 8, 16, 32, 64, 128}
<1>1. \A p \in Ps : Digit(y, p) = Digit(Xor(m, n), p)
  <2>1. Xor(m, n) \in 0..255
        BY XorIsByte
  <2>2. Xor(m, n) \in Int /\ c \in Int
        BY <2>1
  <2> QED BY <2>2, DigitsOfLow
<1>2. \A p \in Ps : Digit(y, p) = (Digit(m, p) + Digit(n, p)) % 2
      BY <1>1, XorDigits
<1>3. /\ Xor(y, n) \in 0..255
      /\ \A p \in Ps : Digit(Xor(y, n), p) = (Digit(y, p) + Digit(n, p)) % 2
      BY XorIsByte, XorDigits
<1>4. \A p \in Ps : Digit(m, p) \in {0, 1} /\ Digit(n, p) \in {0, 1}
      BY DEF Digit
<1>5. \A p \in Ps : Digit(Xor(y, n), p) = Digit(m, p)
  <2> TAKE p \in Ps
  <2> HIDE DEF Ps
  <2>1. Digit(Xor(y, n), p) = (((Digit(m, p) + Digit(n, p)) % 2) + Digit(n, p)) % 2
        BY <1>2, <1>3
  <2>2. Digit(m, p) \in {0, 1} /\ Digit(n, p) \in {0, 1}
        BY <1>4
  <2> QED BY <2>1, <2>2
<1>6. Xor(y, n) % 256 = m % 256
  <2>1. Xor(y, n) \in Int
        BY <1>3
  <2> HIDE DEF Ps
  <2> QED BY <1>5, <2>1, SameDigits DEF Ps
<1> QED BY <1>3, <1>6

\* Of two numbers below 128 it makes one below 128.
LEMMA XorIsSevenBits ==
  ASSUME NEW m \in 0..127, NEW n \in 0..127
  PROVE  Xor(m, n) \in 0..127
PROOF
<1>1. Digit(m, 128) = 0 /\ Digit(n, 128) = 0
      BY DEF Digit
<1>2. Xor(m, n) \in 0..255 /\ Digit(Xor(m, n), 128) = 0
      BY <1>1, XorIsByte, XorDigits
<1> QED BY <1>2 DEF Digit

\* What is sent is a byte, the character is read from it, and it is no
\* control character when the character is printable and the key has 7 bits.
LEMMA ScrambledIs ==
  ASSUME NEW c \in Nat, NEW k \in Nat
  PROVE  /\ Scrambled(c, k) \in 0..255
         /\ Reads(Scrambled(c, k), LowByte(k)) = LowByte(c)
         /\ c \in 32..126 /\ k \in 0..127 => Scrambled(c, k) \notin 0..31
PROOF
<1> DEFINE x == Xor(c - 32, k)
           sent == Scrambled(c, k)
<1>1. x \in 0..255 /\ c - 32 \in Int /\ k \in Int
  <2>1. c - 32 \in Int /\ k \in Int
        OBVIOUS
  <2> QED BY <2>1, XorIsByte
<1>2. sent = (x + 32) % 256
      BY DEF Scrambled
<1> HIDE DEF x, sent
<1>3. sent \in 0..255 /\ (sent - 32 = x \/ sent - 32 = x - 256)
      BY <1>1, <1>2
<1>4. Xor(sent - 32, k) = (c - 32) % 256
  <2>1. sent - 32 \in Int /\ c - 32 \in Int /\ k \in Int
        BY <1>3
  <2>2. PICK u \in {0, 1} : sent - 32 = x - 256 * u
        BY <1>1, <1>3
  <2> QED BY <2>1, <2>2, XorTwice DEF x
<1>5. Xor(sent - 32, k % 256) = Xor(sent - 32, k)
  <2> DEFINE y == sent - 32
             low == k % 256
  <2>1. y \in Int /\ low \in Int
        BY <1>3
  <2>2. \A p \in {1, 2, 4, 8, 16, 32, 64, 128} : Digit(low, p) = Digit(k, p)
        BY DEF Digit
  <2> HIDE DEF y, low
  <2>3. \A p \in {1, 2, 4, 8, 16, 32, 64, 128} : Digit(Xor(y, low), p) = Digit(Xor(y, k), p)
        BY <1>1, <2>1, <2>2, XorDigits
  <2>4. Xor(y, low) \in 0..255 /\ Xor(y, k) \in 0..255
        BY <1>1, <2>1, XorIsByte
  <2>7. Xor(y, low) \in Int /\ Xor(y, k) \in Int
        BY <2>4
  <2>8. 0 <= Xor(y, low) /\ Xor(y, low) <= 255 /\ 0 <= Xor(y, k) /\ Xor(y, k) <= 255
        BY <2>4
  <2>5. Xor(y, low) % 256 = Xor(y, k) % 256
        BY <2>3, <2>7, SameDigits
  <2>6. Xor(y, low) = Xor(y, k)
        BY <2>5, <2>7, <2>8, ByteIs
  <2> QED BY <2>6 DEF y, low
<1>6. (((c - 32) % 256) + 32) % 256 = c % 256
      OBVIOUS
<1>7. ASSUME c \in 32..126, k \in 0..127 PROVE sent \notin 0..31
  <2>1. c - 32 \in 0..127
        BY <1>7
  <2>2. x \in 0..127
        BY <1>7, <2>1, XorIsSevenBits DEF x
  <2> QED BY <1>2, <2>2
<1>8. Reads(sent, LowByte(k)) = LowByte(c)
  <2>1. Reads(sent, LowByte(k)) = (((c - 32) % 256) + 32) % 256
        BY <1>4, <1>5 DEF Reads, LowByte
  <2> QED BY <1>6, <2>1 DEF LowByte
<1> QED BY <1>3, <1>7, <1>8 DEF sent

-------------------------------------------------------------------------------
(* ObscuringLosesNothing                                                   *)

\* The password and the key are sequences of code points.
LEMMA PasswordCalls ==
  ASSUME call \in Calls, call.name = "obscure_password"
  PROVE  call.password \in Seq(Nat) /\ call.key \in Seq(Nat)
PROOF
<1>1. call.password \in Passwords /\ call.key \in HashKeys
      BY DEF Calls
<1> QED BY <1>1, PasswordsAssumption

\* The byte of the key for a character.
LEMMA KeyByteIs ==
  ASSUME NEW key \in Seq(Nat), key # << >>, NEW i \in Nat, i # 0
  PROVE  /\ KeyByte(key, i - 1) \in ToSet(key) /\ KeyByte(key, i - 1) \in Nat
         /\ i <= Len(key) => KeyByte(key, i - 1) = key[i]
PROOF
<1> DEFINE n == Len(key)
<1>1. n \in Nat /\ n # 0 /\ DOMAIN key = 1..n
      OBVIOUS
<1> HIDE DEF n
<1>2. (i - 1) % n \in 0..n-1 /\ (i <= n => (i - 1) % n = i - 1)
      BY <1>1
<1> DEFINE j == ((i - 1) % n) + 1
<1>5. KeyByte(key, i - 1) = key[j]
      BY DEF KeyByte, n
<1>6. j \in 1..n /\ (i <= n => j = i)
      BY <1>1, <1>2
<1> HIDE DEF j
<1>3. j \in DOMAIN key /\ (i <= n => j = i) /\ KeyByte(key, i - 1) = key[j]
      BY <1>1, <1>5, <1>6
<1>4. key[j] \in Nat /\ key[j] \in ToSet(key)
      BY <1>1, <1>3 DEF ToSet
<1> QED BY <1>3, <1>4 DEF n

\* What is sent for a character, and how it is read.
LEMMA SentIsRead ==
  ASSUME NEW word \in Seq(Nat), NEW key \in Seq(Nat), key # << >>, NEW i \in DOMAIN word
  PROVE  /\ Obscured(word, key)[i] = Scrambled(word[i], KeyByte(key, i - 1))
         /\ Reads(Obscured(word, key)[i], LowByte(KeyByte(key, i - 1))) = LowByte(word[i])
         /\ i \in Nat /\ i # 0 /\ word[i] \in Nat /\ KeyByte(key, i - 1) \in Nat
PROOF
<1>1. i \in Nat /\ i # 0 /\ word[i] \in Nat
      OBVIOUS
<1>2. KeyByte(key, i - 1) \in Nat
      BY <1>1, KeyByteIs
<1>3. Obscured(word, key)[i] = Scrambled(word[i], KeyByte(key, i - 1))
      BY DEF Obscured
<1>4. Reads(Scrambled(word[i], KeyByte(key, i - 1)), LowByte(KeyByte(key, i - 1)))
      = LowByte(word[i])
      BY <1>1, <1>2, ScrambledIs
<1> QED BY <1>1, <1>2, <1>3, <1>4, Zenon

\* Two passwords with the same text sent are the same, up to the low bytes.
LEMMA SentIsOfOne ==
  ASSUME NEW word \in Seq(Nat), NEW other \in Seq(Nat), NEW key \in Seq(Nat), key # << >>,
         Obscured(other, key) = Obscured(word, key)
  PROVE  Len(other) = Len(word) /\ \A i \in DOMAIN other : LowByte(other[i]) = LowByte(word[i])
PROOF
<1>1. DOMAIN Obscured(other, key) = DOMAIN other /\ DOMAIN Obscured(word, key) = DOMAIN word
      BY DEF Obscured
<1>2. DOMAIN other = DOMAIN word
      BY <1>1
<1>3. Len(other) = Len(word)
  <2> DEFINE m == Len(other)
             n == Len(word)
  <2>1. DOMAIN other = 1..m /\ DOMAIN word = 1..n /\ m \in Nat /\ n \in Nat
        OBVIOUS
  <2> HIDE DEF m, n
  <2>2. 1..m = 1..n
        BY <1>2, <2>1
  <2>3. m <= n /\ n <= m
    <3>1. (m \in 1..m <=> m >= 1) /\ (n \in 1..n <=> n >= 1)
          BY <2>1
    <3>2. (m \in 1..n <=> m >= 1) /\ (n \in 1..m <=> n >= 1)
          BY <2>2, <3>1
    <3> QED BY <2>1, <3>2
  <2>4. m = n
        BY <2>1, <2>3
  <2> QED BY <2>4 DEF m, n
<1>4. ASSUME NEW i \in DOMAIN other PROVE LowByte(other[i]) = LowByte(word[i])
  <2> DEFINE low == LowByte(KeyByte(key, i - 1))
  <2>1. Reads(Obscured(other, key)[i], low) = LowByte(other[i])
        BY SentIsRead
  <2>2. i \in DOMAIN word
        BY <1>2
  <2>3. Reads(Obscured(word, key)[i], low) = LowByte(word[i])
        BY <2>2, SentIsRead
  <2> QED BY <2>1, <2>3
<1> QED BY <1>3, <1>4

\* A printable password and a 7-bit key.
LEMMA SentIsPrintable ==
  ASSUME NEW word \in Seq(Nat), NEW key \in Seq(Nat), key # << >>,
         ToSet(word) \subseteq 32..126, ToSet(key) \subseteq 0..127
  PROVE  ToSet(Obscured(word, key)) \cap 0..31 = {}
PROOF
<1>1. ASSUME NEW i \in DOMAIN word PROVE Obscured(word, key)[i] \notin 0..31
  <2>1. /\ Obscured(word, key)[i] = Scrambled(word[i], KeyByte(key, i - 1))
        /\ i \in Nat /\ i # 0 /\ word[i] \in Nat /\ KeyByte(key, i - 1) \in Nat
        BY SentIsRead
  <2>2. word[i] \in 32..126
        BY DEF ToSet
  <2>3. KeyByte(key, i - 1) \in 0..127
        BY <2>1, KeyByteIs
  <2>4. Scrambled(word[i], KeyByte(key, i - 1)) \notin 0..31
        BY <2>1, <2>2, <2>3, ScrambledIs
  <2> QED BY <2>1, <2>4, Zenon
<1>2. DOMAIN Obscured(word, key) = DOMAIN word
      BY DEF Obscured
<1> QED BY <1>1, <1>2 DEF ToSet

\* What ObscuringLosesNothing says, of what is sent for a password.
Lossless(password, key, sent) ==
  /\ Len(sent) = Len(password)
  /\ Len(password) <= Len(key) =>
       \A i \in DOMAIN password : Reads(sent[i], LowByte(key[i])) = LowByte(password[i])
  /\ \A other \in Passwords :
       Obscured(other, key) = sent =>
         /\ Len(other) = Len(password)
         /\ \A i \in DOMAIN other : LowByte(other[i]) = LowByte(password[i])
  /\ ToSet(password) \subseteq 32..126 /\ ToSet(key) \subseteq 0..127
       => ToSet(sent) \cap 0..31 = {}

LEMMA ObscuredIsLossless ==
  ASSUME NEW word \in Seq(Nat), NEW key \in Seq(Nat), key # << >>
  PROVE  Lossless(word, key, Obscured(word, key))
PROOF
<1> DEFINE sent == Obscured(word, key)
<1>1. Len(sent) = Len(word)
      BY DEF Obscured
<1>2. ASSUME Len(word) <= Len(key), NEW i \in DOMAIN word
      PROVE  Reads(sent[i], LowByte(key[i])) = LowByte(word[i])
  <2>1. /\ Reads(sent[i], LowByte(KeyByte(key, i - 1))) = LowByte(word[i])
        /\ i \in Nat /\ i # 0
        BY SentIsRead
  <2>2. i <= Len(key)
        BY <1>2
  <2>3. KeyByte(key, i - 1) = key[i]
        BY <2>1, <2>2, KeyByteIs
  <2> QED BY <2>1, <2>3
<1>3. ASSUME NEW other \in Passwords, Obscured(other, key) = sent
      PROVE  /\ Len(other) = Len(word)
             /\ \A i \in DOMAIN other : LowByte(other[i]) = LowByte(word[i])
  <2>1. other \in Seq(Nat)
        BY PasswordsAssumption
  <2> QED BY <1>3, <2>1, SentIsOfOne
<1>4. ToSet(word) \subseteq 32..126 /\ ToSet(key) \subseteq 0..127 => ToSet(sent) \cap 0..31 = {}
      BY SentIsPrintable
<1> HIDE DEF sent
<1>5. Lossless(word, key, sent)
      BY <1>1, <1>2, <1>3, <1>4 DEF Lossless
<1> QED BY <1>5 DEF sent

\* What obscure_password has returned is what the A line needs.
LEMMA ObscureStep ==
  ASSUME call \in Calls, ObscurePassword
  PROVE  ObscuringLosesNothing'
PROOF
<1>1. call.name = "obscure_password" /\ call' = call
      BY DEF ObscurePassword
<1>2. call.password \in Seq(Nat) /\ call.key \in Seq(Nat)
      BY <1>1, PasswordCalls
<1>3. result' = IF call.key = << >> THEN Raised ELSE Returned(Obscured(call.password, call.key))
      BY DEF ObscurePassword
<1>4. CASE call.key = << >>
      BY <1>3, <1>4 DEF ObscuringLosesNothing, IsOf, Raised
<1>5. CASE call.key # << >>
  <2>1. result'.value = Obscured(call.password, call.key)
        BY <1>3, <1>5 DEF Returned
  <2>2. Lossless(call.password, call.key, Obscured(call.password, call.key))
        BY <1>2, <1>5, ObscuredIsLossless
  <2>3. Lossless(call'.password, call'.key, result'.value)
        BY <1>1, <2>1, <2>2
  <2>4. ObscuringLosesNothing' =
          (IsOf("obscure_password")' => Lossless(call'.password, call'.key, result'.value))
        BY DEF ObscuringLosesNothing, Lossless, Obscured, Reads, LowByte, IsOf
  <2> QED BY <2>3, <2>4
<1> QED BY <1>4, <1>5

-------------------------------------------------------------------------------
(* CutListIsPrefix                                                         *)

\* A reply is its first fields and then, in turn, both parts of each entry.
ReplyIs(reply, head, list, n) ==
  /\ Len(reply) = Len(head) + 2 * n
  /\ \A j \in 1..Len(head) : reply[j] = head[j]
  /\ \A i \in 1..n : /\ reply[Len(head) + 2 * i - 1] = list[i][1]
                     /\ reply[Len(head) + 2 * i] = list[i][2]

\* A pair behind a sequence.
LEMMA TwoMore ==
  ASSUME NEW V, NEW s \in Seq(V), NEW t \in Seq(V), Len(t) = 2
  PROVE  /\ Len(s \o t) = Len(s) + 2
         /\ \A j \in 1..Len(s) : (s \o t)[j] = s[j]
         /\ (s \o t)[Len(s) + 1] = t[1] /\ (s \o t)[Len(s) + 2] = t[2]
PROOF
<1>1. /\ Len(s \o t) = Len(s) + Len(t)
      /\ \A i \in 1..Len(s) + Len(t) :
           (s \o t)[i] = IF i <= Len(s) THEN s[i] ELSE t[i - Len(s)]
      BY ConcatProperties
<1>2. Len(s) \in Nat
      OBVIOUS
<1> QED BY <1>1, <1>2

\* The fields of a list reply are its head and the entries, two by two.
LEMMA FlatList ==
  ASSUME NEW V, NEW head \in Seq(V), NEW list \in Seq(V \X V)
  PROVE  /\ FlattenSeq(<<head>> \o list) \in Seq(V)
         /\ ReplyIs(FlattenSeq(<<head>> \o list), head, list, Len(list))
PROOF
<1> DEFINE n == Len(list)
           items == <<head>> \o list
           h == Len(head)
<1>1. n \in Nat /\ h \in Nat /\ list \in [1..n -> V \X V]
      OBVIOUS
<1>2. /\ items[1] = head
      /\ \A k \in 1..n : items[k+1] = list[k]
      /\ Len(items) = n + 1
  <2>1. Len(<<head>>) = 1 /\ <<head>>[1] = head /\ <<head>> \in Seq(Seq(V))
        OBVIOUS
  <2> QED BY <1>1, <2>1
<1>3. \A e \in V \X V : e \in Seq(V) /\ Len(e) = 2
  <2> TAKE e \in V \X V
  <2>1. PICK a \in V, b \in V : e = <<a, b>>
        OBVIOUS
  <2>2. <<a, b>> \in Seq(V) /\ Len(<<a, b>>) = 2
        OBVIOUS
  <2> QED BY <2>1, <2>2
<1>4. items \in [1..n+1 -> Seq(V)]
  <2>1. <<head>> \in Seq(Seq(V)) /\ list \in Seq(Seq(V))
    <3>1. \A k \in 1..n : list[k] \in Seq(V)
          BY <1>1, <1>3
    <3> QED BY <1>1, <3>1
  <2>2. items \in Seq(Seq(V))
        BY <2>1
  <2> HIDE DEF items
  <2>3. items \in [1..Len(items) -> Seq(V)]
        BY <2>2
  <2> QED BY <1>2, <2>3
<1> HIDE DEF items, n, h
<1>5. n + 1 \in Nat
      BY <1>1
<1>6. PICK f \in [0..n+1 -> Seq(V)] :
        /\ FlattenSeq(items) = f[n+1]
        /\ f[0] = << >>
        /\ \A i \in 1..n+1 : f[i] = f[i-1] \o items[i]
  <2>1. \A m \in Nat : \A it \in [1..m -> Seq(V)] : \E f \in [0..m -> Seq(V)] :
          /\ FlattenSeq(it) = f[m]
          /\ f[0] = << >>
          /\ \A i \in 1..m : f[i] = f[i-1] \o it[i]
        BY FlatSteps
  <2> QED BY <1>4, <1>5, <2>1
<1> DEFINE Right == {k \in 0..n : ReplyIs(f[k+1], head, list, k)}
<1>7. 0 \in Right
  <2>1. f[1] = << >> \o head
    <3>1. 1 \in 1..n+1 /\ 1 - 1 = 0
          BY <1>1
    <3> QED BY <1>2, <1>6, <3>1
  <2>2. f[1] = head
        BY <2>1
  <2>3. f[0+1] = head
        BY <2>2
  <2>4. ReplyIs(head, head, list, 0)
        BY <1>1 DEF ReplyIs
  <2> QED BY <1>1, <2>3, <2>4
<1>8. ASSUME NEW k \in 0..n, k \in Right, k < n PROVE k + 1 \in Right
  <2>1. k \in Nat /\ k + 1 \in 1..n /\ (k + 1) + 1 \in 1..n+1 /\ ((k + 1) + 1) - 1 = k + 1 /\ k + 1 \in 0..n
        BY <1>1, <1>8
  <2> DEFINE old == f[k+1]
             new == f[(k+1)+1]
             e   == list[k+1]
  <2>2. new = old \o e
        BY <1>2, <1>6, <2>1
  <2>3. old \in Seq(V) /\ e \in Seq(V) /\ Len(e) = 2
    <3>1. k + 1 \in 0..n+1
          BY <1>1, <2>1
    <3> QED BY <1>1, <1>3, <1>6, <2>1, <3>1
  <2>4. ReplyIs(old, head, list, k)
        BY <1>8
  <2> HIDE DEF old, new, e
  <2>5. /\ Len(new) = h + 2 * k + 2
        /\ \A j \in 1..h + 2 * k : new[j] = old[j]
        /\ new[h + 2 * k + 1] = e[1] /\ new[h + 2 * k + 2] = e[2]
    <3>1. Len(old) = h + 2 * k /\ Len(old) \in Nat
          BY <2>3, <2>4 DEF ReplyIs, h
    <3>2. /\ Len(new) = Len(old) + 2
          /\ \A j \in 1..Len(old) : new[j] = old[j]
          /\ new[Len(old) + 1] = e[1] /\ new[Len(old) + 2] = e[2]
          BY <2>2, <2>3, TwoMore
    <3> QED BY <1>1, <2>1, <3>1, <3>2
  <2>6. \A j \in 1..h : new[j] = head[j]
    <3>1. \A j \in 1..h : j \in 1..h + 2 * k
          BY <1>1, <2>1
    <3> QED BY <2>4, <2>5, <3>1 DEF ReplyIs, h
  <2>7. ASSUME NEW i \in 1..k+1
        PROVE  new[h + 2 * i - 1] = list[i][1] /\ new[h + 2 * i] = list[i][2]
    <3>1. CASE i = k + 1
      <4>1. h + 2 * i - 1 = h + 2 * k + 1 /\ h + 2 * i = h + 2 * k + 2
            BY <1>1, <2>1, <3>1
      <4> QED BY <2>5, <3>1, <4>1 DEF e
    <3>2. CASE i # k + 1
      <4>1. i \in 1..k /\ h + 2 * i - 1 \in 1..h + 2 * k /\ h + 2 * i \in 1..h + 2 * k
            BY <1>1, <2>1, <3>2
      <4> QED BY <2>4, <2>5, <4>1 DEF ReplyIs, h
    <3> QED BY <3>1, <3>2
  <2>8. Len(new) = h + 2 * (k + 1)
        BY <1>1, <2>1, <2>5
  <2>9. ReplyIs(new, head, list, k + 1)
        BY <2>6, <2>7, <2>8 DEF ReplyIs, h
  <2> QED BY <2>1, <2>9 DEF new
<1>9. n \in Right
  <2> HIDE DEF Right
  <2>1. 0..n \subseteq Right
        BY <1>1, <1>7, <1>8, Counting
  <2> QED BY <1>1, <2>1
<1>10. f[n+1] \in Seq(V)
  <2>1. n + 1 \in 0..n+1
        BY <1>1
  <2> QED BY <1>6, <2>1
<1> QED BY <1>6, <1>9, <1>10 DEF items, n

\* What one recv() gets of a reply is its first fields, the last perhaps cut.
LEMMA ReceivedIs ==
  ASSUME NEW V, NEW reply \in Seq(V), NEW fields \in Received(reply)
  PROVE  /\ fields \in Seq(V \cup {Piece}) /\ Len(fields) <= Len(reply)
         /\ \A j \in 1..Len(fields) : \/ fields[j] = reply[j]
                                      \/ j = Len(fields) /\ fields[j] = Piece
PROOF
<1> DEFINE W == V \cup {Piece}
<1>1. reply \in Seq(W) /\ Len(reply) \in Nat
      OBVIOUS
<1>2. ASSUME NEW n \in 0..Len(reply)
      PROVE  /\ SubSeq(reply, 1, n) \in Seq(W) /\ Len(SubSeq(reply, 1, n)) = n /\ n \in Nat
             /\ \A j \in 1..n : SubSeq(reply, 1, n)[j] = reply[j]
      BY <1>1, <1>2
<1>3. CASE fields = reply
      BY <1>1, <1>3
<1>4. ASSUME NEW n \in 0..Len(reply), fields = SubSeq(reply, 1, n)
      PROVE  /\ fields \in Seq(W) /\ Len(fields) <= Len(reply)
             /\ \A j \in 1..Len(fields) : fields[j] = reply[j]
      BY <1>1, <1>2, <1>4
<1>5. ASSUME NEW n \in 0..Len(reply)-1, fields = Append(SubSeq(reply, 1, n), Piece)
      PROVE  /\ fields \in Seq(W) /\ Len(fields) <= Len(reply)
             /\ \A j \in 1..Len(fields) : \/ fields[j] = reply[j]
                                          \/ j = Len(fields) /\ fields[j] = Piece
  <2> DEFINE kept == SubSeq(reply, 1, n)
  <2>1. /\ kept \in Seq(W) /\ Len(kept) = n /\ n \in Nat /\ n < Len(reply)
        /\ \A j \in 1..n : kept[j] = reply[j]
        BY <1>1, <1>2
  <2>2. fields = Append(kept, Piece) /\ Piece \in W
        BY <1>5
  <2> HIDE DEF kept, W
  <2>3. /\ fields \in Seq(W) /\ Len(fields) = n + 1
        /\ \A j \in 1..n : fields[j] = kept[j]
        /\ fields[n+1] = Piece
        BY <2>1, <2>2, AppendProperties
  <2> QED BY <1>1, <2>1, <2>3
<1>6. \/ fields = reply
      \/ \E n \in 0..Len(reply) : fields = SubSeq(reply, 1, n)
      \/ \E n \in 0..Len(reply)-1 : fields = Append(SubSeq(reply, 1, n), Piece)
      BY DEF Received
<1> QED BY <1>3, <1>4, <1>5, <1>6

\* zip() of what is behind the head gives the first entries.
CutTo(read, list) ==
  /\ Len(read) <= Len(list)
  /\ \A i \in DOMAIN read : \/ read[i] = list[i]
                            \/ i = Len(read) /\ read[i] = <<list[i][1], Piece>>

\* The pairs made of the first fields of a reply, the last of which may be cut,
\* are the first entries of the list.
LEMMA PairsArePrefix ==
  ASSUME NEW V, NEW head \in Seq(V), NEW list \in Seq(V \X V), NEW fields \in Seq(V \cup {Piece}),
         NEW reply \in Seq(V), ReplyIs(reply, head, list, Len(list)),
         Len(fields) <= Len(reply),
         \A j \in 1..Len(fields) : \/ fields[j] = reply[j]
                                   \/ j = Len(fields) /\ fields[j] = Piece
  PROVE  CutTo(Pairs(SubSeq(fields, Len(head) + 1, Len(fields))), list)
PROOF
<1> DEFINE h == Len(head)
           rest == SubSeq(fields, h + 1, Len(fields))
           read == Pairs(rest)
           m == Len(rest) \div 2
<1>1. h \in Nat /\ Len(fields) \in Nat /\ Len(list) \in Nat
      OBVIOUS
<1>2. /\ Len(rest) = IF h + 1 <= Len(fields) THEN Len(fields) - h ELSE 0
      /\ \A i \in 1..Len(fields) - h : rest[i] = fields[h + i]
  <2>1. \A i \in h+1..Len(fields) : fields[i] \in V \cup {Piece}
        BY <1>1
  <2>2. h + 1 \in Int /\ Len(fields) \in Int
        BY <1>1
  <2>3. /\ Len(rest) = IF h + 1 <= Len(fields) THEN Len(fields) - (h + 1) + 1 ELSE 0
        /\ \A i \in 1..Len(fields) - (h + 1) + 1 : rest[i] = fields[(h + 1) + i - 1]
        BY <2>1, <2>2, SubSeqProperties
  <2> HIDE DEF rest
  <2>4. Len(fields) - (h + 1) + 1 = Len(fields) - h
        BY <1>1
  <2>5. \A i \in 1..Len(fields) - h : (h + 1) + i - 1 = h + i
        BY <1>1
  <2> QED BY <2>3, <2>4, <2>5
<1> HIDE DEF rest
<1>3. Len(rest) \in Nat /\ m \in Nat /\ 2 * m <= Len(rest)
  <2>1. Len(rest) \in Nat
        BY <1>1, <1>2
  <2>2. \A n \in Nat : n \div 2 \in Nat /\ 2 * (n \div 2) <= n
        OBVIOUS
  <2> QED BY <2>1, <2>2
<1>4. Len(read) = m /\ DOMAIN read = 1..m
      BY <1>3 DEF Pairs
<1>5. \A i \in 1..m : read[i] = <<rest[2 * i - 1], rest[2 * i]>>
      BY DEF Pairs
<1> HIDE DEF m, read, h
<1>6. Len(reply) = h + 2 * Len(list)
      BY DEF ReplyIs, h
<1>7. m <= Len(list)
      BY <1>1, <1>2, <1>3, <1>6
<1>8. ASSUME NEW i \in 1..m
      PROVE  \/ read[i] = list[i]
             \/ i = Len(read) /\ read[i] = <<list[i][1], Piece>>
  <2>1. /\ 2 * i - 1 \in 1..Len(fields) - h /\ 2 * i \in 1..Len(fields) - h
        /\ h + (2 * i - 1) \in 1..Len(fields) /\ h + (2 * i - 1) # Len(fields)
        /\ h + 2 * i \in 1..Len(fields)
        /\ h + 2 * i - 1 = h + (2 * i - 1)
        /\ (h + 2 * i = Len(fields) => i = m)
        /\ i \in 1..Len(list)
        BY <1>1, <1>2, <1>3, <1>7
  <2>2. read[i] = <<fields[h + (2 * i - 1)], fields[h + 2 * i]>>
        BY <1>2, <1>5, <2>1
  <2>3. reply[h + (2 * i - 1)] = list[i][1] /\ reply[h + 2 * i] = list[i][2]
        BY <2>1 DEF ReplyIs, h
  <2>4. fields[h + (2 * i - 1)] = list[i][1]
        BY <2>1, <2>3
  <2>5. \/ fields[h + 2 * i] = list[i][2]
        \/ i = m /\ fields[h + 2 * i] = Piece
        BY <2>1, <2>3
  <2>6. list[i] = <<list[i][1], list[i][2]>>
    <3>1. list[i] \in V \X V
          BY <2>1
    <3> QED BY <3>1
  <2> QED BY <1>4, <2>2, <2>4, <2>5, <2>6
<1> QED BY <1>4, <1>7, <1>8 DEF CutTo, read, rest, h

\* A list reply has entries of a code and a name.
LEMMA ListCalls ==
  ASSUME call \in Calls, call.name \in {"parse_game_list", "parse_char_list"}
  PROVE  call.list \in Seq(STRING \X STRING)
PROOF
<1>1. call.list \in Lists
      BY DEF Calls
<1> QED BY <1>1, ListsAssumption

\* What parse_game_list and parse_char_list have returned is the first entries.
LEMMA ParseStep ==
  ASSUME call \in Calls, ParseList
  PROVE  CutListIsPrefix'
PROOF
<1>1. call.name \in {"parse_game_list", "parse_char_list"} /\ call' = call
      BY DEF ParseList
<1>2. PICK fields \in Received(ListReply) :
        result' = IF fields = << >> \/ fields[1] # ListReply[1] THEN Raised
                  ELSE Returned(IF call.name = "parse_game_list" THEN Pairs(Tail(fields))
                                ELSE CharPairs(fields))
      BY DEF ParseList
<1>3. CASE fields = << >> \/ fields[1] # ListReply[1]
      BY <1>1, <1>2, <1>3 DEF CutListIsPrefix, Raised
<1>4. CASE ~(fields = << >> \/ fields[1] # ListReply[1])
  <2> DEFINE head == IF call.name = "parse_game_list" THEN <<"M">>
                     ELSE <<"C", "1", "2", "3", "4">>
             list == call.list
             V == STRING \cup {"M", "C", "1", "2", "3", "4"}
  <2>1. head \in Seq(V) /\ list \in Seq(V \X V)
    <3>1. list \in Seq(STRING \X STRING)
          BY <1>1, ListCalls
    <3>2. STRING \X STRING \subseteq V \X V
          OBVIOUS
    <3>3. list \in Seq(V \X V)
      <4> HIDE DEF list, V
      <4> QED BY <3>1, <3>2
    <3>4. <<"M">> \in Seq(V) /\ <<"C", "1", "2", "3", "4">> \in Seq(V)
          OBVIOUS
    <3> QED BY <3>3, <3>4
  <2>2. ListReply = FlattenSeq(<<head>> \o list)
        BY DEF ListReply
  <2> HIDE DEF V, head, list
  <2>3. ListReply \in Seq(V) /\ ReplyIs(ListReply, head, list, Len(list))
        BY <2>1, <2>2, FlatList
  <2>4. /\ fields \in Seq(V \cup {Piece}) /\ Len(fields) <= Len(ListReply)
        /\ \A j \in 1..Len(fields) : \/ fields[j] = ListReply[j]
                                     \/ j = Len(fields) /\ fields[j] = Piece
        BY <2>3, ReceivedIs
  <2>5. CutTo(Pairs(SubSeq(fields, Len(head) + 1, Len(fields))), list)
        BY <2>1, <2>3, <2>4, PairsArePrefix
  <2>6. result'.value = Pairs(SubSeq(fields, Len(head) + 1, Len(fields)))
    <3>1. CASE call.name = "parse_game_list"
      <4>1. Len(head) + 1 = 2
            BY <3>1 DEF head
      <4>2. Tail(fields) = SubSeq(fields, 2, Len(fields))
            BY <1>4, <2>4, TailIsSubSeq
      <4> QED BY <1>2, <1>4, <3>1, <4>1, <4>2 DEF Returned
    <3>2. CASE call.name = "parse_char_list"
      <4>1. Len(head) + 1 = 6
            BY <3>2 DEF head
      <4> QED BY <1>2, <1>4, <3>2, <4>1 DEF Returned, CharPairs
    <3> QED BY <1>1, <3>1, <3>2
  <2> QED BY <1>1, <2>5, <2>6 DEF CutListIsPrefix, CutTo, list
<1> QED BY <1>3, <1>4

-------------------------------------------------------------------------------
(* shlex.split                                                             *)

\* The atoms of a command line, and the states of its scanner.
Atom  == STRING \cup Quotes \cup {Blank, Backslash, SalPath, "w"}
State == [within : {"plain", "escape"} \cup Quotes, back : {"plain"} \cup Quotes,
          token : Seq(Atom), quoted : BOOLEAN, args : Seq(Seq(Atom))]
Start == [within |-> "plain", back |-> "plain", token |-> << >>, quoted |-> FALSE,
          args |-> << >>]

\* The scan starts in a state.
LEMMA StartIsState == Start \in State
BY DEF Start, State

\* A token is ended in a state.
LEMMA EndTokenIsState ==
  ASSUME NEW s \in State
  PROVE  EndToken(s) \in State
PROOF
<1>1. s.token \in Seq(Atom) /\ s.args \in Seq(Seq(Atom))
      BY DEF State
<1>2. Append(s.args, s.token) \in Seq(Seq(Atom)) /\ << >> \in Seq(Atom)
      BY <1>1
<1>3. [s EXCEPT !.args = Append(@, s.token), !.token = << >>, !.quoted = FALSE] \in State
      BY <1>1, <1>2 DEF State
<1> QED BY <1>3 DEF EndToken

\* The scan stays in a state.
LEMMA ScanIsState ==
  ASSUME NEW s \in State, NEW c \in Atom
  PROVE  Scan(s, c) \in State
PROOF
<1>1. s.token \in Seq(Atom) /\ <<Backslash, c>> \in Seq(Atom) /\ <<c>> \in Seq(Atom)
      BY DEF State, Atom
<1>2. /\ \A t \in Seq(Atom) : s.token \o t \in Seq(Atom)
      /\ Append(s.token, c) \in Seq(Atom)
      BY <1>1
<1>3. CASE s.within = "escape"
      BY <1>1, <1>2, <1>3 DEF Scan, State, Quotes
<1>4. CASE s.within \in Quotes /\ c = s.within
      BY <1>4 DEF Scan, State, Quotes
<1>5. CASE c = Backslash /\ s.within \in {"plain", "\""}
  <2>1. Scan(s, c) = [s EXCEPT !.within = "escape", !.back = s.within]
        BY <1>5 DEF Scan, Quotes, Backslash, Blank
  <2>2. [s EXCEPT !.within = "escape", !.back = s.within] \in State
        BY <1>5 DEF State
  <2> QED BY <2>1, <2>2
<1>6. CASE s.within = "plain" /\ c = Blank
      BY <1>6, EndTokenIsState DEF Scan, Blank, Backslash, Quotes
<1>7. CASE s.within = "plain" /\ c \in Quotes
      BY <1>7 DEF Scan, State, Quotes, Blank, Backslash
<1>8. CASE ~ \/ s.within = "escape"
             \/ s.within \in Quotes /\ c = s.within
             \/ c = Backslash /\ s.within \in {"plain", "\""}
             \/ s.within = "plain" /\ c = Blank
             \/ s.within = "plain" /\ c \in Quotes
      BY <1>2, <1>8 DEF Scan, State
<1> QED BY <1>3, <1>4, <1>5, <1>6, <1>7, <1>8

\* One character, case by case.
Yes == TRUE
No  == FALSE

\* The character after a backslash, which quotes keep before an ordinary one.
LEMMA ScanEscaped ==
  ASSUME NEW s \in State, NEW c, s.within = "escape"
  PROVE  /\ Scan(s, c).within = s.back /\ Scan(s, c).back = s.back
         /\ Scan(s, c).token = s.token \o IF s.back \in Quotes /\ c \notin {Backslash, s.back}
                                          THEN <<Backslash, c>> ELSE <<c>>
         /\ Scan(s, c).args = s.args
BY DEF Scan, Quotes, State

\* The quote that ends quotes.
LEMMA ScanQuoteEnd ==
  ASSUME NEW s \in State, NEW c, s.within \in Quotes, c = s.within
  PROVE  /\ Scan(s, c).within = "plain" /\ Scan(s, c).back = s.back
         /\ Scan(s, c).token = s.token /\ Scan(s, c).args = s.args
         /\ Scan(s, c).quoted = s.quoted
BY DEF Scan, Quotes, Backslash, State

\* A backslash outside single quotes.
LEMMA ScanBackslash ==
  ASSUME NEW s \in State, NEW c, c = Backslash, s.within \in {"plain", "\""}
  PROVE  /\ Scan(s, c).within = "escape" /\ Scan(s, c).back = s.within
         /\ Scan(s, c).token = s.token /\ Scan(s, c).args = s.args
         /\ Scan(s, c).quoted = s.quoted
BY DEF Scan, Quotes, Backslash, Blank, State

\* A blank that ends an argument.
LEMMA ScanBlankEnds ==
  ASSUME NEW s \in State, s.within = "plain", s.token # << >> \/ s.quoted
  PROVE  /\ Scan(s, Blank).within = "plain" /\ Scan(s, Blank).back = s.back
         /\ Scan(s, Blank).token = << >> /\ Scan(s, Blank).quoted = No
         /\ Scan(s, Blank).args = Append(s.args, s.token)
PROOF
<1> DEFINE e == [s EXCEPT !.args = Append(@, s.token), !.token = << >>, !.quoted = FALSE]
<1>1. Scan(s, Blank) = EndToken(s)
      BY DEF Scan, Quotes, Backslash, Blank
<1>2. EndToken(s) = e
      BY Zenon DEF EndToken
<1>3. /\ e.within = s.within /\ e.back = s.back /\ e.token = << >>
      /\ e.args = Append(s.args, s.token) /\ e.quoted = No
      BY DEF State, No
<1> HIDE DEF e
<1> QED BY <1>1, <1>2, <1>3

\* A blank between arguments.
LEMMA ScanBlankSkips ==
  ASSUME NEW s \in State, s.within = "plain", s.token = << >>, ~s.quoted
  PROVE  Scan(s, Blank) = s
PROOF
<1>1. Scan(s, Blank) = EndToken(s)
      BY DEF Scan, Quotes, Backslash, Blank
<1>2. EndToken(s) = s
      BY Zenon DEF EndToken
<1> QED BY <1>1, <1>2

\* A quote that begins quotes.
LEMMA ScanQuote ==
  ASSUME NEW s \in State, NEW c \in Quotes, s.within = "plain"
  PROVE  /\ Scan(s, c).within = c /\ Scan(s, c).back = s.back
         /\ Scan(s, c).token = s.token /\ Scan(s, c).args = s.args
         /\ Scan(s, c).quoted = Yes
BY DEF Scan, Quotes, Backslash, Blank, Yes, State

\* An ordinary character.
LEMMA ScanOther ==
  ASSUME NEW s \in State, NEW c,
         \/ s.within = "plain" /\ c \notin Quotes \cup {Blank, Backslash}
         \/ s.within = "'" /\ c # "'"
         \/ s.within = "\"" /\ c \notin {"\"", Backslash}
  PROVE  /\ Scan(s, c).within = s.within /\ Scan(s, c).back = s.back
         /\ Scan(s, c).token = Append(s.token, c) /\ Scan(s, c).args = s.args
         /\ Scan(s, c).quoted = s.quoted
BY DEF Scan, Quotes, Backslash, Blank, State

\* Scanned is its recursive definition.
LEMMA ScannedSteps ==
  ASSUME NEW line \in Seq(Atom)
  PROVE  \E f \in [0..Len(line) -> State] :
           /\ Scanned(line) = f[Len(line)]
           /\ f[0] = Start
           /\ \A i \in 1..Len(line) : f[i] = Scan(f[i-1], line[i])
PROOF
<1> DEFINE n == Len(line)
           step == [x \in (1..n) \X State |-> Scan(x[2], line[x[1]])]
<1>1. n \in Nat /\ \A i \in 1..n : line[i] \in Atom
      OBVIOUS
<1> HIDE DEF n
<1>2. step \in [(1..n) \X State -> State]
      BY <1>1, ScanIsState
<1>3. \A i \in 1..n, t \in State : step[<<i, t>>] = Scan(t, line[i])
      OBVIOUS
<1> HIDE DEF step
<1>4. PICK f \in [0..n -> State] : Built(f, Start, step, n)
      BY <1>1, <1>2, StartIsState, Recursion
<1>5. \A i \in 1..n : i - 1 \in 0..n /\ f[i] = Scan(f[i-1], line[i])
  <2> TAKE i \in 1..n
  <2>1. i - 1 \in 0..n
        BY <1>1
  <2>2. f[i-1] \in State
        BY <2>1
  <2> QED BY <1>3, <1>4, <2>1, <2>2 DEF Built
<1> DEFINE Def(g) == [i \in 0..n |-> IF i = 0 THEN Start ELSE Scan(g[i-1], line[i])]
           after == CHOOSE g : g = Def(g)
<1>6. f = Def(f)
      BY <1>4, <1>5 DEF Built
<1>7. after = Def(after)
  <2> HIDE DEF Def
  <2> QED BY <1>6
<1>8. Scanned(line) = after[n]
      BY DEF Scanned, n, Start
<1> HIDE DEF after
<1>9. after[0] = Start /\ \A i \in 1..n : after[i] = Scan(after[i-1], line[i])
      BY <1>1, <1>7
<1> DEFINE Same == {i \in 0..n : after[i] = f[i]}
<1>10. 0 \in Same
       BY <1>1, <1>4, <1>9 DEF Built
<1>11. ASSUME NEW i \in 0..n, i \in Same, i < n PROVE i + 1 \in Same
  <2>1. i + 1 \in 1..n /\ i + 1 \in 0..n /\ (i + 1) - 1 = i
        BY <1>1, <1>11
  <2>2. after[i+1] = Scan(after[i], line[i+1]) /\ f[i+1] = Scan(f[i], line[i+1])
        BY <1>5, <1>9, <2>1
  <2> QED BY <1>11, <2>1, <2>2
<1>12. after[n] = f[n]
  <2> HIDE DEF Same
  <2>1. 0..n \subseteq Same
        BY <1>1, <1>10, <1>11, Counting
  <2> QED BY <1>1, <2>1 DEF Same
<1> QED BY <1>4, <1>5, <1>8, <1>12 DEF Built, n

\* Nothing is scanned.
LEMMA ScannedNothing == Scanned(<< >>) = Start
PROOF
<1>1. << >> \in Seq(Atom) /\ Len(<< >>) = 0
      OBVIOUS
<1> QED BY <1>1, ScannedSteps

\* One character more is scanned.
LEMMA ScannedAppend ==
  ASSUME NEW line \in Seq(Atom), NEW c \in Atom
  PROVE  /\ Scanned(line) \in State
         /\ Scanned(Append(line, c)) = Scan(Scanned(line), c)
PROOF
<1> DEFINE n == Len(line)
           more == Append(line, c)
<1>1. n \in Nat /\ more \in Seq(Atom) /\ Len(more) = n + 1 /\ more[n+1] = c
      /\ \A i \in 1..n : more[i] = line[i]
      BY AppendProperties
<1> HIDE DEF n, more
<1>2. PICK f \in [0..n -> State] : /\ Scanned(line) = f[n]
                                   /\ f[0] = Start
                                   /\ \A i \in 1..n : f[i] = Scan(f[i-1], line[i])
      BY ScannedSteps DEF n
<1>3. PICK g \in [0..n+1 -> State] : /\ Scanned(more) = g[n+1]
                                     /\ g[0] = Start
                                     /\ \A i \in 1..n+1 : g[i] = Scan(g[i-1], more[i])
  <2>1. \E g \in [0..Len(more) -> State] :
          /\ Scanned(more) = g[Len(more)]
          /\ g[0] = Start
          /\ \A i \in 1..Len(more) : g[i] = Scan(g[i-1], more[i])
        BY <1>1, ScannedSteps
  <2> QED BY <1>1, <2>1
<1> DEFINE Same == {i \in 0..n : g[i] = f[i]}
<1>4. 0 \in Same
      BY <1>1, <1>2, <1>3
<1>5. ASSUME NEW i \in 0..n, i \in Same, i < n PROVE i + 1 \in Same
  <2>1. i + 1 \in 1..n /\ i + 1 \in 1..n+1 /\ i + 1 \in 0..n /\ (i + 1) - 1 = i
        BY <1>1, <1>5
  <2>2. f[i+1] = Scan(f[i], line[i+1]) /\ g[i+1] = Scan(g[i], line[i+1])
        BY <1>1, <1>2, <1>3, <2>1
  <2> QED BY <1>5, <2>1, <2>2
<1>6. g[n] = f[n]
  <2> HIDE DEF Same
  <2>1. 0..n \subseteq Same
        BY <1>1, <1>4, <1>5, Counting
  <2> QED BY <1>1, <2>1 DEF Same
<1>7. n + 1 \in 1..n+1 /\ (n + 1) - 1 = n /\ n \in 0..n
      BY <1>1
<1>8. g[n+1] = Scan(g[n], c)
      BY <1>1, <1>3, <1>7
<1> QED BY <1>2, <1>3, <1>6, <1>7, <1>8 DEF more

\* What is put behind the second of two texts is put behind both.
LEMMA ConcatAppend ==
  ASSUME NEW t \in Seq(Atom), NEW u \in Seq(Atom), NEW c \in Atom
  PROVE  /\ t \o Append(u, c) = Append(t \o u, c)
         /\ t \o u \in Seq(Atom) /\ t \o << >> = t /\ t \o <<c>> = Append(t, c)
         /\ Append(t, c) \in Seq(Atom)
OBVIOUS

\* The scan of a line has come to w and token t, from a state s it shares the
\* rest with.
Reached(line, w, t, s) ==
  LET e == Scanned(line)
  IN line \in Seq(Atom) /\ e \in State /\ e.within = w /\ e.token = t
     /\ e.back = s.back /\ e.args = s.args

\* An ordinary character gets into the token.
LEMMA ReachedOther ==
  ASSUME NEW line, NEW w, NEW t, NEW s, Reached(line, w, t, s), NEW c \in Atom,
         \/ w = "plain" /\ c \notin Quotes \cup {Blank, Backslash}
         \/ w = "'" /\ c # "'"
         \/ w = "\"" /\ c \notin {"\"", Backslash}
  PROVE  Reached(Append(line, c), w, Append(t, c), s)
PROOF
<1> DEFINE e == Scanned(line)
<1>1. line \in Seq(Atom) /\ e \in State /\ e.within = w /\ e.token = t
      /\ e.back = s.back /\ e.args = s.args /\ c \in Atom
      BY DEF Reached
<1>2. Scanned(Append(line, c)) = Scan(e, c) /\ Append(line, c) \in Seq(Atom)
  <2>1. Scanned(Append(line, c)) = Scan(Scanned(line), c)
        BY <1>1, ScannedAppend
  <2>2. Append(line, c) \in Seq(Atom)
        BY <1>1, ConcatAppend
  <2> QED BY <2>1, <2>2
<1> HIDE DEF e
<1>3. Scan(e, c) \in State
      BY <1>1, ScanIsState
<1>4. /\ Scan(e, c).within = e.within /\ Scan(e, c).back = e.back
      /\ Scan(e, c).token = Append(e.token, c) /\ Scan(e, c).args = e.args
      BY <1>1, ScanOther
<1> QED BY <1>1, <1>2, <1>3, <1>4 DEF Reached

\* Quotes begin and add nothing to the token.
LEMMA ReachedQuote ==
  ASSUME NEW line, NEW t, NEW s, NEW c \in Quotes, Reached(line, "plain", t, s)
  PROVE  Reached(Append(line, c), c, t, s)
PROOF
<1> DEFINE e == Scanned(line)
<1>1. line \in Seq(Atom) /\ e \in State /\ e.within = "plain" /\ e.token = t
      /\ e.back = s.back /\ e.args = s.args /\ c \in Atom
      BY DEF Reached, Atom
<1>2. Scanned(Append(line, c)) = Scan(e, c) /\ Append(line, c) \in Seq(Atom)
  <2>1. Scanned(Append(line, c)) = Scan(Scanned(line), c)
        BY <1>1, ScannedAppend
  <2>2. Append(line, c) \in Seq(Atom)
        BY <1>1, ConcatAppend
  <2> QED BY <2>1, <2>2
<1> HIDE DEF e
<1>3. Scan(e, c) \in State
      BY <1>1, ScanIsState
<1>4. /\ Scan(e, c).within = c /\ Scan(e, c).back = e.back
      /\ Scan(e, c).token = e.token /\ Scan(e, c).args = e.args
      BY <1>1, ScanQuote
<1> QED BY <1>1, <1>2, <1>3, <1>4 DEF Reached

\* Quotes end and add nothing to the token.
LEMMA ReachedEnd ==
  ASSUME NEW line, NEW t, NEW s, NEW c \in Quotes, Reached(line, c, t, s)
  PROVE  Reached(Append(line, c), "plain", t, s)
PROOF
<1> DEFINE e == Scanned(line)
<1>1. line \in Seq(Atom) /\ e \in State /\ e.within = c /\ e.token = t
      /\ e.back = s.back /\ e.args = s.args /\ c \in Atom
      BY DEF Reached, Atom
<1>2. Scanned(Append(line, c)) = Scan(e, c) /\ Append(line, c) \in Seq(Atom)
  <2>1. Scanned(Append(line, c)) = Scan(Scanned(line), c)
        BY <1>1, ScannedAppend
  <2>2. Append(line, c) \in Seq(Atom)
        BY <1>1, ConcatAppend
  <2> QED BY <2>1, <2>2
<1> HIDE DEF e
<1>3. Scan(e, c) \in State
      BY <1>1, ScanIsState
<1>4. /\ Scan(e, c).within = "plain" /\ Scan(e, c).back = e.back
      /\ Scan(e, c).token = e.token /\ Scan(e, c).args = e.args
      BY <1>1, ScanQuoteEnd
<1> QED BY <1>1, <1>2, <1>3, <1>4 DEF Reached

\* A path in which there is nothing to quote, in quotes or outside.
LEMMA PlainPath ==
  ASSUME NEW line \in Seq(Atom), NEW path \in Seq(Atom), NEW s \in State, s = Scanned(line),
         s.within # "escape", ToSet(path) \cap (Quotes \cup {Blank, Backslash}) = {}
  PROVE  Reached(line \o path, s.within, s.token \o path, s)
PROOF
<1> DEFINE n == Len(path)
           tok == s.token
           w == s.within
           Read(i) == SubSeq(path, 1, i)
           Good == {i \in 0..n : Reached(line \o Read(i), w, tok \o Read(i), s)}
<1>1. n \in Nat /\ tok \in Seq(Atom) /\ w \in {"plain"} \cup Quotes
      BY DEF State
<1>2. /\ Read(0) = << >> /\ Read(n) = path
      /\ \A i \in 0..n : Read(i) \in Seq(Atom)
      /\ \A i \in 0..n : i < n => path[i+1] \in Atom /\ Read(i+1) = Append(Read(i), path[i+1])
      BY OneByOne
<1>3. \A i \in 0..n : i < n => path[i+1] \notin Quotes \cup {Blank, Backslash}
  <2> SUFFICES ASSUME NEW i \in 0..n, i < n
               PROVE  path[i+1] \notin Quotes \cup {Blank, Backslash}
      OBVIOUS
  <2>1. path[i+1] \in ToSet(path)
        BY DEF ToSet
  <2> QED BY <2>1
<1> HIDE DEF n, Read, tok, w
<1>4. 0 \in Good
  <2>1. line \o Read(0) = line /\ tok \o Read(0) = tok
        BY <1>1, <1>2
  <2>2. Reached(line, w, tok, s)
        BY DEF Reached, tok, w
  <2>3. Reached(line \o Read(0), w, tok \o Read(0), s)
        BY <2>1, <2>2, Zenon
  <2> QED BY <1>1, <2>3
<1>5. ASSUME NEW i \in 0..n, i \in Good, i < n PROVE i + 1 \in Good
  <2> DEFINE c == path[i+1]
  <2>1. c \in Atom /\ Read(i) \in Seq(Atom) /\ Read(i+1) = Append(Read(i), c)
        BY <1>2, <1>5
  <2>2. c \notin Quotes \cup {Blank, Backslash}
        BY <1>3, <1>5
  <2> HIDE DEF c
  <2>3. /\ line \o Read(i+1) = Append(line \o Read(i), c)
        /\ tok \o Read(i+1) = Append(tok \o Read(i), c)
    <3> DEFINE u == Read(i)
    <3>2. u \in Seq(Atom) /\ tok \in Seq(Atom) /\ line \in Seq(Atom) /\ c \in Atom
          BY <1>1, <2>1
    <3>3. Read(i+1) = Append(u, c)
          BY <2>1
    <3> HIDE DEF u
    <3>1. line \o Append(u, c) = Append(line \o u, c)
          BY <3>2, ConcatAppend
    <3>4. tok \o Append(u, c) = Append(tok \o u, c)
          BY <3>2, ConcatAppend
    <3> QED BY <3>1, <3>3, <3>4, Zenon DEF u
  <2>4. Reached(Append(line \o Read(i), c), w, Append(tok \o Read(i), c), s)
        BY <1>1, <1>5, <2>1, <2>2, ReachedOther DEF Quotes
  <2>5. i + 1 \in 0..n
        BY <1>1, <1>5
  <2> QED BY <2>3, <2>4, <2>5
<1>6. n \in Good
  <2> HIDE DEF Good
  <2>1. 0..n \subseteq Good
        BY <1>1, <1>4, <1>5, Counting
  <2> QED BY <1>1, <2>1
<1> QED BY <1>2, <1>6 DEF tok, w

\* Five characters put behind a text.
LEMMA FiveMore ==
  ASSUME NEW S, NEW t \in Seq(S), NEW a \in S, NEW b \in S
  PROVE  /\ t \o <<a, b, a, b, a>> = Append(Append(Append(Append(Append(t, a), b), a), b), a)
         /\ <<a, b, a, b, a>> \in Seq(S)
OBVIOUS

\* Concatenation of texts is associative.
LEMMA ConcatConcat ==
  ASSUME NEW t \in Seq(Atom), NEW u \in Seq(Atom), NEW v \in Seq(Atom)
  PROVE  t \o u \in Seq(Atom) /\ (t \o u) \o v = t \o (u \o v)
PROOF
<1> DEFINE A == Atom
<1>1. t \in Seq(A) /\ u \in Seq(A) /\ v \in Seq(A)
      OBVIOUS
<1> HIDE DEF A
<1>2. t \o u \in Seq(A) /\ (t \o u) \o v = t \o (u \o v)
      BY <1>1, ConcatAssociative
<1> QED BY <1>2 DEF A

\* Texts are joined one by one.
LEMMA FlatAtoms ==
  ASSUME NEW n \in Nat, NEW items \in [1..n -> Seq(Atom)]
  PROVE  \E f \in [0..n -> Seq(Atom)] :
           /\ FlattenSeq(items) = f[n]
           /\ f[0] = << >>
           /\ \A i \in 1..n : f[i] = f[i-1] \o items[i]
PROOF
<1> DEFINE A == Atom
<1> HIDE DEF A
<1>1. \A g \in [1..n -> Seq(A)] : \E f \in [0..n -> Seq(A)] :
         /\ FlattenSeq(g) = f[n]
         /\ f[0] = << >>
         /\ \A i \in 1..n : f[i] = f[i-1] \o g[i]
      BY FlatSteps
<1> QED BY <1>1 DEF A

\* A quote in a quoted path: the quotes end, a pair of the other kind has it,
\* and they begin again.
QuoteQuoted == <<"'", "\"", "'", "\"", "'">>

\* A quote written that way gets into the token.
LEMMA QuoteInQuotes ==
  ASSUME NEW line, NEW t, NEW s, Reached(line, "'", t, s)
  PROVE  Reached(line \o QuoteQuoted, "'", Append(t, "'"), s)
PROOF
<1> DEFINE l1 == Append(line, "'")
           l2 == Append(l1, "\"")
           l3 == Append(l2, "'")
           l4 == Append(l3, "\"")
           l5 == Append(l4, "'")
<1>1. "'" \in Quotes /\ "\"" \in Quotes /\ "'" \in Atom /\ "\"" \in Atom
      /\ line \in Seq(Atom)
      BY DEF Quotes, Atom, Reached
<1>2. line \o QuoteQuoted = l5
      BY <1>1, FiveMore DEF QuoteQuoted
<1> HIDE DEF l1, l2, l3, l4, l5
<1>3. Reached(l1, "plain", t, s)
      BY <1>1, ReachedEnd DEF l1
<1>4. Reached(l2, "\"", t, s)
      BY <1>1, <1>3, ReachedQuote DEF l2
<1>5. Reached(l3, "\"", Append(t, "'"), s)
  <2>1. "'" \notin {"\"", Backslash}
        BY DEF Backslash
  <2> QED BY <1>1, <1>4, <2>1, ReachedOther DEF l3
<1>6. Reached(l4, "plain", Append(t, "'"), s)
      BY <1>1, <1>5, ReachedEnd DEF l4
<1>7. Reached(l5, "'", Append(t, "'"), s)
      BY <1>1, <1>6, ReachedQuote DEF l5
<1> QED BY <1>2, <1>7

Quoted(path) == [i \in DOMAIN path |-> IF path[i] = "'" THEN QuoteQuoted ELSE <<path[i]>>]

\* Each character of a path is written as a text.
LEMMA QuotedItems ==
  ASSUME NEW path \in Seq(Atom)
  PROVE  Quoted(path) \in [1..Len(path) -> Seq(Atom)]
PROOF
<1>1. QuoteQuoted \in Seq(Atom)
  <2>1. << >> \in Seq(Atom)
        OBVIOUS
  <2>2. "'" \in Atom /\ "\"" \in Atom
        BY DEF Atom, Quotes
  <2> QED BY <2>1, <2>2, FiveMore DEF QuoteQuoted
<1>2. \A i \in 1..Len(path) : <<path[i]>> \in Seq(Atom)
      OBVIOUS
<1> QED BY <1>1, <1>2 DEF Quoted

\* A path inside quotes gets into the token as it is.
LEMMA QuotedPath ==
  ASSUME NEW line \in Seq(Atom), NEW path \in Seq(Atom), NEW s \in State, s = Scanned(line),
         s.within = "plain"
  PROVE  Reached(line \o (<<"'">> \o FlattenSeq(Quoted(path)) \o <<"'">>), "plain",
                 s.token \o path, s)
PROOF
<1> DEFINE n == Len(path)
           tok == s.token
           Read(i) == SubSeq(path, 1, i)
           first == Append(line, "'")
           items == Quoted(path)
<1>1. /\ n \in Nat /\ tok \in Seq(Atom) /\ "'" \in Quotes /\ "'" \in Atom
      /\ line \in Seq(Atom) /\ first \in Seq(Atom)
  <2>1. "'" \in Quotes /\ "'" \in Atom
        BY DEF Quotes, Atom
  <2>2. n \in Nat /\ tok \in Seq(Atom)
        BY DEF State
  <2> QED BY <2>1, <2>2, ConcatAppend
<1>2. /\ Read(0) = << >> /\ Read(n) = path
      /\ \A i \in 0..n : Read(i) \in Seq(Atom)
      /\ \A i \in 0..n : i < n => path[i+1] \in Atom /\ Read(i+1) = Append(Read(i), path[i+1])
      BY OneByOne
<1>3. items \in [1..n -> Seq(Atom)]
      BY QuotedItems
<1>13. \A i \in 1..n : items[i] = IF path[i] = "'" THEN QuoteQuoted ELSE <<path[i]>>
       BY DEF Quoted
<1>14. Reached(first, "'", tok, s)
  <2>1. Reached(line, "plain", tok, s)
        BY DEF Reached
  <2> HIDE DEF tok
  <2> QED BY <1>1, <2>1, ReachedQuote DEF first
<1> HIDE DEF n, tok, Read, items, first
<1>4. PICK f \in [0..n -> Seq(Atom)] : /\ FlattenSeq(items) = f[n]
                                       /\ f[0] = << >>
                                       /\ \A i \in 1..n : f[i] = f[i-1] \o items[i]
      BY <1>1, <1>3, FlatAtoms
<1> DEFINE Good == {i \in 0..n : Reached(first \o f[i], "'", tok \o Read(i), s)}
<1>5. 0 \in Good
  <2>1. first \o f[0] = first /\ tok \o Read(0) = tok
        BY <1>1, <1>2, <1>4
  <2>2. Reached(first \o f[0], "'", tok \o Read(0), s)
        BY <1>14, <2>1, Zenon
  <2> QED BY <1>1, <2>2
<1>6. ASSUME NEW i \in 0..n, i \in Good, i < n PROVE i + 1 \in Good
  <2> DEFINE c == path[i+1]
             u == Read(i)
             v == f[i]
  <2>1. /\ c \in Atom /\ u \in Seq(Atom) /\ Read(i+1) = Append(u, c)
        /\ Reached(first \o v, "'", tok \o u, s)
        BY <1>2, <1>6
  <2>2. i + 1 \in 1..n /\ i + 1 \in 0..n /\ (i + 1) - 1 = i
        BY <1>1, <1>6
  <2>3. /\ items[i+1] = IF c = "'" THEN QuoteQuoted ELSE <<c>>
        /\ items[i+1] \in Seq(Atom) /\ v \in Seq(Atom)
        /\ f[i+1] = v \o items[i+1]
        BY <1>3, <1>4, <1>13, <2>2
  <2> DEFINE item == items[i+1]
  <2> HIDE DEF c, u, v, item
  <2>4. /\ first \o f[i+1] = (first \o v) \o item
        /\ tok \o Read(i+1) = Append(tok \o u, c)
    <3>3. v \in Seq(Atom) /\ item \in Seq(Atom) /\ first \in Seq(Atom)
          BY <1>1, <2>3 DEF item
    <3>1. (first \o v) \o item = first \o (v \o item)
          BY <3>3, ConcatConcat
    <3>2. tok \o Append(u, c) = Append(tok \o u, c)
          BY <1>1, <2>1, ConcatAppend
    <3> QED BY <2>1, <2>3, <3>1, <3>2, Zenon DEF item
  <2>5. Reached((first \o v) \o item, "'", Append(tok \o u, c), s)
    <3>1. CASE c = "'"
      <4>1. item = QuoteQuoted
            BY <2>3, <3>1 DEF item
      <4> QED BY <2>1, <3>1, <4>1, QuoteInQuotes
    <3>2. CASE c # "'"
      <4>1. item = <<c>>
            BY <2>3, <3>2 DEF item
      <4>2. first \o v \in Seq(Atom)
            BY <1>1, <2>3
      <4>3. (first \o v) \o item = Append(first \o v, c)
        <5> DEFINE l == first \o v
        <5>1. l \in Seq(Atom)
              BY <4>2
        <5> HIDE DEF l
        <5>2. l \o <<c>> = Append(l, c)
              BY <2>1, <5>1, ConcatAppend
        <5> QED BY <4>1, <5>2 DEF l
      <4>4. Reached(Append(first \o v, c), "'", Append(tok \o u, c), s)
            BY <2>1, <3>2, ReachedOther
      <4> QED BY <4>3, <4>4, Zenon
    <3> QED BY <3>1, <3>2
  <2>6. Reached(first \o f[i+1], "'", tok \o Read(i+1), s)
        BY <2>4, <2>5, Zenon
  <2> QED BY <2>2, <2>6
<1>7. Reached(first \o f[n], "'", tok \o path, s)
  <2> HIDE DEF Good
  <2>1. 0..n \subseteq Good
        BY <1>1, <1>5, <1>6, Counting
  <2>2. n \in Good
        BY <1>1, <2>1
  <2> QED BY <1>2, <2>2 DEF Good
<1>8. Reached(Append(first \o f[n], "'"), "plain", tok \o path, s)
      BY <1>1, <1>7, ReachedEnd
<1>9. Append(first \o f[n], "'") = line \o (<<"'">> \o f[n] \o <<"'">>)
  <2> DEFINE v == f[n]
             q == <<"'">>
  <2>1. v \in Seq(Atom) /\ q \in Seq(Atom) /\ line \in Seq(Atom)
        BY <1>1, <1>4
  <2>2. first = line \o q
        BY <1>1 DEF first
  <2> HIDE DEF v
  <2>3. Append(first \o v, "'") = (first \o v) \o q
    <3> DEFINE l == first \o v
    <3>1. l \in Seq(Atom)
          BY <1>1, <2>1
    <3> HIDE DEF l
    <3>2. Append(l, "'") = l \o q
          BY <1>1, <3>1, ConcatAppend
    <3> QED BY <3>2 DEF l
  <2> HIDE DEF q
  <2>4. (line \o q) \o v = line \o (q \o v)
        BY <2>1, ConcatConcat
  <2>5. q \o v \in Seq(Atom)
        BY <2>1
  <2>6. (line \o (q \o v)) \o q = line \o ((q \o v) \o q)
    <3> DEFINE k == q \o v
    <3> HIDE DEF k
    <3>1. k \in Seq(Atom) /\ q \in Seq(Atom) /\ line \in Seq(Atom)
          BY <2>1, <2>5 DEF k
    <3>2. (line \o k) \o q = line \o (k \o q)
          BY <3>1, ConcatConcat
    <3> QED BY <3>2 DEF k
  <2> QED BY <2>2, <2>3, <2>4, <2>6 DEF v, q
<1> QED BY <1>4, <1>8, <1>9 DEF items, tok

\* What shlex.quote makes of a path is read as the path.
LEMMA PathRead ==
  ASSUME NEW line \in Seq(Atom), NEW path \in Seq(Atom), NEW s \in State, s = Scanned(line),
         s.within = "plain"
  PROVE  Reached(line \o ShlexQuote(path), "plain", s.token \o path, s)
PROOF
<1>1. CASE ToSet(path) \cap (Quotes \cup {Blank, Backslash}) = {}
  <2>1. ShlexQuote(path) = path
        BY <1>1 DEF ShlexQuote
  <2> QED BY <1>1, <2>1, PlainPath
<1>2. CASE ToSet(path) \cap (Quotes \cup {Blank, Backslash}) # {}
  <2>1. ShlexQuote(path) = <<"'">> \o FlattenSeq(Quoted(path)) \o <<"'">>
        BY <1>2, Zenon DEF ShlexQuote, Quoted, QuoteQuoted
  <2> QED BY <2>1, QuotedPath
<1> QED BY <1>1, <1>2

\* shlex.quote returns a text.
LEMMA QuoteIsText ==
  ASSUME NEW path \in Seq(Atom)
  PROVE  ShlexQuote(path) \in Seq(Atom)
PROOF
<1>1. CASE ToSet(path) \cap (Quotes \cup {Blank, Backslash}) = {}
      BY <1>1 DEF ShlexQuote
<1>2. CASE ToSet(path) \cap (Quotes \cup {Blank, Backslash}) # {}
  <2>1. ShlexQuote(path) = <<"'">> \o FlattenSeq(Quoted(path)) \o <<"'">>
        BY <1>2, Zenon DEF ShlexQuote, Quoted, QuoteQuoted
  <2> DEFINE n == Len(path)
             q == <<"'">>
  <2>2. n \in Nat /\ Quoted(path) \in [1..n -> Seq(Atom)]
        BY QuotedItems
  <2> HIDE DEF n
  <2>3. PICK f \in [0..n -> Seq(Atom)] : FlattenSeq(Quoted(path)) = f[n]
        BY <2>2, FlatAtoms
  <2>4. "'" \in Atom
        BY DEF Atom, Quotes
  <2>5. q \in Seq(Atom) /\ f[n] \in Seq(Atom)
        BY <2>2, <2>3, <2>4
  <2> HIDE DEF q
  <2>6. q \o f[n] \o q \in Seq(Atom)
        BY <2>5
  <2> QED BY <2>1, <2>3, <2>6 DEF q
<1> QED BY <1>1, <1>2

-------------------------------------------------------------------------------
(* build_command                                                           *)

Item(c, path) == IF c = SalPath THEN path ELSE <<c>>

\* format() character by character.
LEMMA FormatNothing ==
  ASSUME NEW path \in Seq(Atom)
  PROVE  Format(<< >>, path) = << >>
PROOF
<1> DEFINE items == [i \in DOMAIN << >> |-> Item(<< >>[i], path)]
<1>1. Format(<< >>, path) = FlattenSeq(items)
      BY Zenon DEF Format, Item
<1>2. items = << >> /\ << >> \in [1..0 -> Seq(Atom)]
      OBVIOUS
<1> HIDE DEF items
<1>3. 0 \in Nat
      OBVIOUS
<1>4. FlattenSeq(<< >>) = << >>
  <2>1. PICK f \in [0..0 -> Seq(Atom)] : FlattenSeq(<< >>) = f[0] /\ f[0] = << >>
        BY <1>2, <1>3, FlatAtoms
  <2> QED BY <2>1
<1> QED BY <1>1, <1>2, <1>4

\* A template is filled in one character after the other.
LEMMA FormatAppend ==
  ASSUME NEW t \in Seq(Atom), NEW path \in Seq(Atom), NEW c \in Atom
  PROVE  /\ Format(t, path) \in Seq(Atom)
         /\ Format(Append(t, c), path) = Format(t, path) \o Item(c, path)
PROOF
<1> DEFINE Items(x) == [i \in DOMAIN x |-> Item(x[i], path)]
           more == Append(t, c)
           A == Atom
<1>1. \A x : Format(x, path) = FlattenSeq(Items(x))
      BY Zenon DEF Format, Item
<1>2. \A d \in Atom : Item(d, path) \in Seq(Atom)
      BY DEF Item
<1>3. Items(t) \in Seq(Seq(Atom))
  <2> DEFINE T == Seq(Atom)
             n == Len(t)
  <2>1. \A i \in 1..n : Item(t[i], path) \in T
        BY <1>2
  <2>2. n \in Nat /\ Items(t) = [i \in 1..n |-> Item(t[i], path)]
        OBVIOUS
  <2> HIDE DEF T, Items, n
  <2>3. Items(t) \in Seq(T)
        BY <2>1, <2>2
  <2> QED BY <2>3 DEF T
<1>4. Items(more) = Append(Items(t), Item(c, path))
  <2> DEFINE l == Items(more)
             r == Append(Items(t), Item(c, path))
  <2>1. l = [i \in 1..Len(t) + 1 |-> Item(more[i], path)]
        OBVIOUS
  <2>2. r = [i \in 1..Len(t) + 1 |-> IF i <= Len(t) THEN Item(t[i], path) ELSE Item(c, path)]
        BY <1>3
  <2>3. \A i \in 1..Len(t) + 1 : more[i] = IF i <= Len(t) THEN t[i] ELSE c
        OBVIOUS
  <2> HIDE DEF l, r, more
  <2> QED BY <2>1, <2>2, <2>3 DEF l, r
<1>5. Item(c, path) \in Seq(A) /\ Items(t) \in Seq(Seq(A))
      BY <1>2, <1>3
<1> HIDE DEF A, Items, more
<1>6. /\ FlattenSeq(Items(t)) \in Seq(A)
      /\ FlattenSeq(Append(Items(t), Item(c, path))) = FlattenSeq(Items(t)) \o Item(c, path)
      BY <1>5, FlatAppend
<1> QED BY <1>1, <1>4, <1>6 DEF A, more

\* The scan e of a text with the path in it is the scan s of the same text with
\* {sal_path} in it, with the path in place of {sal_path}.
Inserted(s, e, path) ==
  /\ s \in State /\ e \in State
  /\ e.within = s.within /\ e.back = s.back
  /\ e.token = Format(s.token, path)
  /\ s.token = << >> <=> e.token = << >>
  /\ s.token = << >> => e.quoted = s.quoted
  /\ Len(e.args) = Len(s.args)
  /\ \A i \in DOMAIN s.args : e.args[i] = Format(s.args[i], path)

\* One more character, another than {sal_path}.
LEMMA FormatMore ==
  ASSUME NEW t \in Seq(Atom), NEW path \in Seq(Atom), NEW c \in Atom, c # SalPath
  PROVE  /\ Format(Append(t, c), path) = Append(Format(t, path), c)
         /\ Append(t, c) # << >> /\ Append(Format(t, path), c) # << >>
PROOF
<1>1. /\ Format(t, path) \in Seq(Atom)
      /\ Format(Append(t, c), path) = Format(t, path) \o <<c>>
      BY FormatAppend DEF Item
<1> DEFINE u == Format(t, path)
<1>2. u \in Seq(Atom)
      BY <1>1
<1> HIDE DEF u
<1>3. u \o <<c>> = Append(u, c) /\ Append(u, c) # << >> /\ Append(t, c) # << >>
      BY <1>2
<1> QED BY <1>1, <1>3 DEF u

\* The same character gets into the tokens of both scans.
LEMMA InsertedToken ==
  ASSUME NEW path \in Seq(Atom), NEW s, NEW e, Inserted(s, e, path), NEW c \in Atom, c # SalPath,
         NEW s2 \in State, NEW e2 \in State,
         s2.token = Append(s.token, c), e2.token = Append(e.token, c),
         s2.args = s.args, e2.args = e.args,
         s2.within = e2.within, s2.back = e2.back
  PROVE  Inserted(s2, e2, path)
PROOF
<1> DEFINE t == s.token
<1>1. t \in Seq(Atom) /\ e.token = Format(t, path)
      BY DEF Inserted, State
<1>5. s2.token = Append(t, c) /\ e2.token = Append(e.token, c)
      OBVIOUS
<1> HIDE DEF t
<1>2. /\ Format(Append(t, c), path) = Append(Format(t, path), c)
      /\ Append(t, c) # << >> /\ Append(Format(t, path), c) # << >>
      BY <1>1, FormatMore
<1>3. e2.token = Format(s2.token, path) /\ s2.token # << >> /\ e2.token # << >>
      BY <1>1, <1>2, <1>5
<1>4. /\ Len(e2.args) = Len(s2.args)
      /\ \A i \in DOMAIN s2.args : e2.args[i] = Format(s2.args[i], path)
      BY DEF Inserted
<1> QED BY <1>3, <1>4 DEF Inserted

\* A character gets into neither token.
LEMMA InsertedSame ==
  ASSUME NEW path \in Seq(Atom), NEW s, NEW e, Inserted(s, e, path),
         NEW s2 \in State, NEW e2 \in State,
         s2.token = s.token, e2.token = e.token, s2.args = s.args, e2.args = e.args,
         s.token = << >> => e2.quoted = s2.quoted,
         s2.within = e2.within, s2.back = e2.back
  PROVE  Inserted(s2, e2, path)
PROOF
<1>1. /\ e2.token = Format(s2.token, path)
      /\ s2.token = << >> <=> e2.token = << >>
      /\ Len(e2.args) = Len(s2.args)
      /\ \A i \in DOMAIN s2.args : e2.args[i] = Format(s2.args[i], path)
      BY DEF Inserted
<1> QED BY <1>1 DEF Inserted

\* Both scans end an argument, or neither, at a blank.
LEMMA InsertedBlank ==
  ASSUME NEW path \in Seq(Atom), NEW s, NEW e, Inserted(s, e, path), s.within = "plain"
  PROVE  Inserted(Scan(s, Blank), Scan(e, Blank), path)
PROOF
<1>1. s \in State /\ e \in State /\ e.within = "plain" /\ Blank \in Atom
      BY DEF Inserted, Atom
<1>2. Scan(s, Blank) \in State /\ Scan(e, Blank) \in State
      BY <1>1, ScanIsState
<1>3. CASE s.token # << >> \/ s.quoted
  <2>1. e.token # << >> \/ e.quoted
        BY <1>3, Zenon DEF Inserted
  <2> DEFINE s2 == Scan(s, Blank)
             e2 == Scan(e, Blank)
  <2>2. /\ s2.within = "plain" /\ s2.back = s.back /\ s2.token = << >> /\ s2.quoted = No
        /\ s2.args = Append(s.args, s.token)
        BY <1>1, <1>3, ScanBlankEnds
  <2>3. /\ e2.within = "plain" /\ e2.back = e.back /\ e2.token = << >> /\ e2.quoted = No
        /\ e2.args = Append(e.args, e.token)
        BY <1>1, <2>1, ScanBlankEnds
  <2> HIDE DEF s2, e2
  <2>4. /\ s.args \in Seq(Seq(Atom)) /\ e.args \in Seq(Seq(Atom))
        /\ s.token \in Seq(Atom) /\ e.token \in Seq(Atom)
        BY <1>1 DEF State
  <2>5. /\ Len(e.args) = Len(s.args) /\ e.token = Format(s.token, path) /\ e.back = s.back
        /\ \A i \in DOMAIN s.args : e.args[i] = Format(s.args[i], path)
        BY DEF Inserted
  <2>6. /\ Len(e2.args) = Len(s2.args)
        /\ \A i \in DOMAIN s2.args : e2.args[i] = Format(s2.args[i], path)
    <3> DEFINE T == Seq(Atom)
               sa == s.args
               ea == e.args
               st == s.token
               et == e.token
    <3>1. sa \in Seq(T) /\ ea \in Seq(T) /\ st \in T /\ et \in T
          BY <2>4
    <3>2. s2.args = Append(sa, st) /\ e2.args = Append(ea, et)
          BY <2>2, <2>3
    <3>3. /\ Len(ea) = Len(sa) /\ et = Format(st, path)
          /\ \A i \in DOMAIN sa : ea[i] = Format(sa[i], path)
          BY <2>5
    <3> HIDE DEF T, sa, ea, st, et
    <3>4. /\ Len(Append(ea, et)) = Len(Append(sa, st))
          /\ \A i \in DOMAIN Append(sa, st) : Append(ea, et)[i] = Format(Append(sa, st)[i], path)
          BY <3>1, <3>3
    <3> QED BY <3>2, <3>4
  <2>7. e2.token = Format(s2.token, path)
        BY <2>2, <2>3, FormatNothing
  <2>8. s2 \in State /\ e2 \in State
        BY <1>2 DEF s2, e2
  <2>9. Inserted(s2, e2, path)
        BY <2>2, <2>3, <2>5, <2>6, <2>7, <2>8 DEF Inserted
  <2> QED BY <2>9 DEF s2, e2
<1>4. CASE s.token = << >> /\ ~s.quoted
  <2>1. e.token = << >> /\ ~e.quoted
        BY <1>4, Zenon DEF Inserted
  <2> QED BY <1>1, <1>4, <2>1, ScanBlankSkips
<1> QED BY <1>3, <1>4

\* Both scans read the same character after a backslash.
LEMMA InsertedEscaped ==
  ASSUME NEW path \in Seq(Atom), NEW s, NEW e, Inserted(s, e, path), s.within = "escape",
         NEW c \in Atom, c # SalPath
  PROVE  Inserted(Scan(s, c), Scan(e, c), path)
PROOF
<1> DEFINE s2 == Scan(s, c)
           e2 == Scan(e, c)
           Kept == s.back \in Quotes /\ c \notin {Backslash, s.back}
<1>1. s \in State /\ e \in State /\ e.within = "escape" /\ e.back = s.back
      BY DEF Inserted
<1>2. s2 \in State /\ e2 \in State
      BY <1>1, ScanIsState
<1>3. /\ s2.within = s.back /\ s2.back = s.back /\ s2.args = s.args
      /\ s2.token = s.token \o IF Kept THEN <<Backslash, c>> ELSE <<c>>
      BY <1>1, ScanEscaped
<1>4. /\ e2.within = s.back /\ e2.back = s.back /\ e2.args = e.args
      /\ e2.token = e.token \o IF Kept THEN <<Backslash, c>> ELSE <<c>>
      BY <1>1, ScanEscaped
<1> HIDE DEF s2, e2, Kept
<1>5. s.token \in Seq(Atom) /\ e.token \in Seq(Atom) /\ Backslash \in Atom /\ Backslash # SalPath
  <2>1. s.token \in Seq(Atom) /\ e.token \in Seq(Atom)
        BY <1>1 DEF State
  <2>2. Backslash \in Atom /\ Backslash # SalPath
        BY DEF Atom, Backslash, SalPath
  <2> QED BY <2>1, <2>2
<1>6. \A t \in Seq(Atom) : /\ t \o <<c>> = Append(t, c)
                           /\ t \o <<Backslash, c>> = Append(Append(t, Backslash), c)
                           /\ Append(t, Backslash) \in Seq(Atom)
  <2> DEFINE b == Backslash
  <2>1. b \in Atom
        BY <1>5
  <2> HIDE DEF b
  <2>2. \A t \in Seq(Atom) : /\ t \o <<c>> = Append(t, c)
                             /\ t \o <<b, c>> = Append(Append(t, b), c)
                             /\ Append(t, b) \in Seq(Atom)
        BY <2>1
  <2> QED BY <2>2 DEF b
<1>7. CASE Kept
  <2> DEFINE sm == [s EXCEPT !.token = Append(s.token, Backslash)]
             em == [e EXCEPT !.token = Append(e.token, Backslash)]
  <2>1. sm \in State /\ em \in State
        BY <1>1, <1>5, <1>6 DEF State
  <2>2. /\ sm.token = Append(s.token, Backslash) /\ em.token = Append(e.token, Backslash)
        /\ sm.args = s.args /\ em.args = e.args
        /\ sm.within = em.within /\ sm.back = em.back
        BY <1>1 DEF State
  <2>3. s2.token = Append(sm.token, c) /\ e2.token = Append(em.token, c)
    <3>1. /\ s2.token = s.token \o <<Backslash, c>>
          /\ e2.token = e.token \o <<Backslash, c>>
          BY <1>3, <1>4, <1>7
    <3>2. /\ s.token \o <<Backslash, c>> = Append(Append(s.token, Backslash), c)
          /\ e.token \o <<Backslash, c>> = Append(Append(e.token, Backslash), c)
          BY <1>5, <1>6
    <3> QED BY <2>2, <3>1, <3>2
  <2> HIDE DEF sm, em
  <2>4. Inserted(sm, em, path)
        BY <1>5, <2>1, <2>2, InsertedToken
  <2>5. s2.args = sm.args /\ e2.args = em.args /\ s2.within = e2.within /\ s2.back = e2.back
        BY <1>3, <1>4, <2>2
  <2>6. Inserted(s2, e2, path)
        BY <1>2, <2>3, <2>4, <2>5, InsertedToken
  <2> QED BY <2>6 DEF s2, e2
<1>8. CASE ~Kept
  <2>1. s2.token = Append(s.token, c) /\ e2.token = Append(e.token, c)
    <3>1. s2.token = s.token \o <<c>> /\ e2.token = e.token \o <<c>>
          BY <1>3, <1>4, <1>8
    <3>2. s.token \o <<c>> = Append(s.token, c) /\ e.token \o <<c>> = Append(e.token, c)
          BY <1>5, <1>6
    <3> QED BY <3>1, <3>2
  <2>2. s2.within = e2.within /\ s2.back = e2.back /\ s2.args = s.args /\ e2.args = e.args
        BY <1>3, <1>4
  <2>3. Inserted(s2, e2, path)
        BY <1>2, <2>1, <2>2, InsertedToken
  <2> QED BY <2>3 DEF s2, e2
<1> QED BY <1>7, <1>8

\* Both scans read a character that is not the path.
LEMMA InsertedStep ==
  ASSUME NEW path \in Seq(Atom), NEW s, NEW e, Inserted(s, e, path), NEW c \in Atom, c # SalPath
  PROVE  Inserted(Scan(s, c), Scan(e, c), path)
PROOF
<1> DEFINE s2 == Scan(s, c)
           e2 == Scan(e, c)
<1>1. /\ s \in State /\ e \in State /\ e.within = s.within /\ e.back = s.back
      BY DEF Inserted
<1>2. s2 \in State /\ e2 \in State
      BY <1>1, ScanIsState
<1>3. CASE s.within = "escape"
      BY <1>3, InsertedEscaped
<1>4. CASE s.within \in Quotes /\ c = s.within
  <2>1. /\ s2.within = "plain" /\ s2.back = s.back /\ s2.token = s.token
        /\ s2.args = s.args /\ s2.quoted = s.quoted
        BY <1>1, <1>4, ScanQuoteEnd
  <2>2. /\ e2.within = "plain" /\ e2.back = e.back /\ e2.token = e.token
        /\ e2.args = e.args /\ e2.quoted = e.quoted
        BY <1>1, <1>4, ScanQuoteEnd
  <2>4. s.token = << >> => e2.quoted = s2.quoted
        BY <2>1, <2>2 DEF Inserted
  <2>5. s2.within = e2.within /\ s2.back = e2.back
        BY <1>1, <2>1, <2>2
  <2> HIDE DEF s2, e2
  <2>3. Inserted(s2, e2, path)
        BY <1>2, <2>1, <2>2, <2>4, <2>5, InsertedSame
  <2> QED BY <2>3 DEF s2, e2
<1>5. CASE c = Backslash /\ s.within \in {"plain", "\""}
  <2>1. /\ s2.within = "escape" /\ s2.back = s.within /\ s2.token = s.token
        /\ s2.args = s.args /\ s2.quoted = s.quoted
        BY <1>1, <1>5, ScanBackslash
  <2>2. /\ e2.within = "escape" /\ e2.back = s.within /\ e2.token = e.token
        /\ e2.args = e.args /\ e2.quoted = e.quoted
        BY <1>1, <1>5, ScanBackslash
  <2>4. s.token = << >> => e2.quoted = s2.quoted
        BY <2>1, <2>2 DEF Inserted
  <2>5. s2.within = e2.within /\ s2.back = e2.back
        BY <1>1, <2>1, <2>2
  <2> HIDE DEF s2, e2
  <2>3. Inserted(s2, e2, path)
        BY <1>2, <2>1, <2>2, <2>4, <2>5, InsertedSame
  <2> QED BY <2>3 DEF s2, e2
<1>6. CASE s.within = "plain" /\ c = Blank
      BY <1>6, InsertedBlank
<1>7. CASE s.within = "plain" /\ c \in Quotes
  <2>1. /\ s2.within = c /\ s2.back = s.back /\ s2.token = s.token
        /\ s2.args = s.args /\ s2.quoted = Yes
        BY <1>1, <1>7, ScanQuote
  <2>2. /\ e2.within = c /\ e2.back = e.back /\ e2.token = e.token
        /\ e2.args = e.args /\ e2.quoted = Yes
        BY <1>1, <1>7, ScanQuote
  <2>4. s.token = << >> => e2.quoted = s2.quoted
        BY <2>1, <2>2 DEF Inserted
  <2>5. s2.within = e2.within /\ s2.back = e2.back
        BY <1>1, <2>1, <2>2
  <2> HIDE DEF s2, e2
  <2>3. Inserted(s2, e2, path)
        BY <1>2, <2>1, <2>2, <2>4, <2>5, InsertedSame
  <2> QED BY <2>3 DEF s2, e2
<1>8. CASE \/ s.within = "plain" /\ c \notin Quotes \cup {Blank, Backslash}
           \/ s.within = "'" /\ c # "'"
           \/ s.within = "\"" /\ c \notin {"\"", Backslash}
  <2>1. /\ s2.within = s.within /\ s2.back = s.back /\ s2.token = Append(s.token, c)
        /\ s2.args = s.args
        BY <1>1, <1>8, ScanOther
  <2>2. /\ e2.within = e.within /\ e2.back = e.back /\ e2.token = Append(e.token, c)
        /\ e2.args = e.args
        BY <1>1, <1>8, ScanOther
  <2> HIDE DEF s2, e2
  <2>3. Inserted(s2, e2, path)
        BY <1>1, <1>2, <2>1, <2>2, InsertedToken
  <2> QED BY <2>3 DEF s2, e2
<1>9. s.within \in {"plain", "escape", "'", "\""}
      BY <1>1 DEF State, Quotes
<1> QED BY <1>3, <1>4, <1>5, <1>6, <1>7, <1>8, <1>9 DEF Quotes

\* A text with something behind it is not empty.
LEMMA BehindIsMore ==
  ASSUME NEW t \in Seq(Atom)
  PROVE  /\ \A a \in Atom : Append(t, a) # << >>
         /\ \A u \in Seq(Atom) : u # << >> => t \o u # << >>
PROOF
<1> DEFINE A == Atom
<1>1. t \in Seq(A)
      OBVIOUS
<1> HIDE DEF A
<1>2. \A a \in A : Append(t, a) # << >>
      BY <1>1
<1>3. ASSUME NEW u \in Seq(A), u # << >> PROVE t \o u # << >>
  <2>1. Len(t \o u) = Len(t) + Len(u) /\ Len(t) \in Nat /\ Len(u) \in Nat /\ Len(u) # 0
        BY <1>1, <1>3
  <2>2. Len(t \o u) # 0
        BY <2>1
  <2> QED BY <2>2
<1> QED BY <1>2, <1>3 DEF A

\* {sal_path} itself, when what stands for it is read as the path.
LEMMA InsertedReached ==
  ASSUME NEW path \in Seq(Atom), path # << >>, NEW s, NEW line \in Seq(Atom), NEW text,
         Inserted(s, Scanned(line), path), s.within # "escape",
         Reached(line \o text, s.within, Scanned(line).token \o path, Scanned(line))
  PROVE  Inserted(Scan(s, SalPath), Scanned(line \o text), path)
PROOF
<1> DEFINE e == Scanned(line)
           s2 == Scan(s, SalPath)
           e2 == Scanned(line \o text)
<1>1. /\ s \in State /\ e \in State /\ e.within = s.within /\ e.back = s.back
      /\ s.within \in {"plain"} \cup Quotes
      /\ SalPath \in Atom /\ SalPath \notin Quotes \cup {Blank, Backslash}
  <2>1. SalPath \in Atom /\ SalPath \notin Quotes \cup {Blank, Backslash}
        BY DEF Atom, Quotes, Blank, Backslash, SalPath
  <2> QED BY <2>1 DEF Inserted, State
<1>2. /\ s2.within = s.within /\ s2.back = s.back
      /\ s2.token = Append(s.token, SalPath) /\ s2.args = s.args
      BY <1>1, ScanOther DEF Quotes
<1>3. s2 \in State
      BY <1>1, ScanIsState
<1>4. Reached(line \o text, s.within, e.token \o path, e)
      OBVIOUS
<1>5. /\ e2 \in State /\ e2.within = s.within /\ e2.token = e.token \o path
      /\ e2.back = e.back /\ e2.args = e.args
      BY <1>4 DEF Reached
<1>6. s.token \in Seq(Atom) /\ e.token \in Seq(Atom) /\ e.token = Format(s.token, path)
      BY <1>1 DEF State, Inserted
<1> DEFINE st == s.token
           et == e.token
<1>7. st \in Seq(Atom) /\ et \in Seq(Atom) /\ et = Format(st, path)
      BY <1>6
<1>8. /\ Len(e.args) = Len(s.args)
      /\ \A i \in DOMAIN s.args : e.args[i] = Format(s.args[i], path)
      BY DEF Inserted
<1>12. s2.token = Append(st, SalPath) /\ e2.token = et \o path
       BY <1>2, <1>5
<1> HIDE DEF s2, e2, e, st, et
<1>9. Format(Append(st, SalPath), path) = et \o path
      BY <1>1, <1>7, FormatAppend DEF Item
<1>10. Append(st, SalPath) # << >> /\ et \o path # << >>
       BY <1>1, <1>7, BehindIsMore
<1>11. Inserted(s2, e2, path)
       BY <1>1, <1>2, <1>3, <1>5, <1>8, <1>9, <1>10, <1>12 DEF Inserted
<1> QED BY <1>11 DEF s2, e2

\* {sal_path} outside quotes.
LEMMA InsertedPath ==
  ASSUME NEW path \in Seq(Atom), path # << >>, NEW s, NEW line \in Seq(Atom),
         Inserted(s, Scanned(line), path), s.within = "plain"
  PROVE  Inserted(Scan(s, SalPath), Scanned(line \o ShlexQuote(path)), path)
PROOF
<1> DEFINE e == Scanned(line)
<1>1. e \in State /\ e.within = "plain"
      BY DEF Inserted
<1>2. Reached(line \o ShlexQuote(path), "plain", e.token \o path, e)
      BY <1>1, PathRead
<1> HIDE DEF e
<1>3. Inserted(Scan(s, SalPath), Scanned(line \o ShlexQuote(path)), path)
      BY <1>2, InsertedReached DEF e
<1> QED BY <1>3

\* A path is its first character and the rest.
LEMMA FirstAndRest ==
  ASSUME NEW path \in Seq(Atom), path # << >>
  PROVE  \E c \in Atom : \E rest \in Seq(Atom) :
           /\ c \in ToSet(path) /\ ToSet(rest) \subseteq ToSet(path)
           /\ \A t \in Seq(Atom) : Append(t, c) \o rest = t \o path
PROOF
<1> DEFINE A == Atom
           c == path[1]
           rest == Tail(path)
           n == Len(path)
<1>1. path \in Seq(A) /\ n \in Nat /\ n >= 1 /\ n = Len(path)
      OBVIOUS
<1> HIDE DEF A, n
<1>2. c \in A /\ rest \in Seq(A) /\ Len(rest) = n - 1 /\ \A i \in 1..n-1 : rest[i] = path[i+1]
      BY <1>1
<1>3. c \in ToSet(path)
  <2>1. 1 \in DOMAIN path
        BY <1>1
  <2> QED BY <2>1 DEF ToSet
<1>4. ToSet(rest) \subseteq ToSet(path)
  <2>1. DOMAIN rest = 1..n-1 /\ DOMAIN path = 1..n
        BY <1>1, <1>2
  <2>2. ASSUME NEW i \in 1..n-1 PROVE rest[i] \in ToSet(path)
    <3>1. i + 1 \in 1..n
          BY <1>1
    <3>2. i + 1 \in DOMAIN path
          BY <2>1, <3>1
    <3> QED BY <1>2, <3>2 DEF ToSet
  <2> HIDE DEF rest
  <2> QED BY <2>1, <2>2 DEF ToSet
<1> HIDE DEF c, rest
<1>5. ASSUME NEW t \in Seq(A) PROVE Append(t, c) \o rest = t \o path
  <2> DEFINE m == Len(t)
             u == Append(t, c)
  <2>1. m \in Nat /\ m = Len(t) /\ u \in Seq(A) /\ Len(u) = m + 1 /\ u[m+1] = c
        /\ \A i \in 1..m : u[i] = t[i]
        BY <1>2
  <2> HIDE DEF m, u
  <2>2. /\ Len(u \o rest) = m + n /\ Len(t \o path) = m + n
        /\ u \o rest \in Seq(A) /\ t \o path \in Seq(A)
    <3>4. u \in Seq(A) /\ rest \in Seq(A) /\ t \in Seq(A) /\ path \in Seq(A)
          BY <1>1, <1>2, <2>1
    <3>5. Len(u \o rest) = Len(u) + Len(rest)
          BY <3>4, ConcatProperties
    <3>6. Len(t \o path) = Len(t) + Len(path)
          BY <3>4, ConcatProperties
    <3>1. Len(u \o rest) = Len(u) + Len(rest) /\ Len(t \o path) = Len(t) + Len(path)
          BY <3>5, <3>6
    <3>2. (m + 1) + (n - 1) = m + n
          BY <1>1, <2>1
    <3>3. u \o rest \in Seq(A) /\ t \o path \in Seq(A)
          BY <1>1, <1>2, <2>1
    <3> QED BY <1>1, <1>2, <2>1, <3>1, <3>2, <3>3
  <2>3. ASSUME NEW i \in 1..m+n PROVE (u \o rest)[i] = (t \o path)[i]
    <3>1. /\ (u \o rest)[i] = IF i <= m + 1 THEN u[i] ELSE rest[i - (m + 1)]
          /\ (t \o path)[i] = IF i <= m THEN t[i] ELSE path[i - m]
          BY <1>1, <1>2, <2>1
    <3>2. CASE i <= m
      <4>1. i \in 1..m /\ i <= m + 1
            BY <2>1, <3>2
      <4> QED BY <2>1, <3>1, <3>2, <4>1
    <3>3. CASE i = m + 1
      <4>1. i <= m + 1 /\ ~(i <= m) /\ i - m = 1
            BY <2>1, <3>3
      <4> QED BY <2>1, <3>1, <3>3, <4>1 DEF c
    <3>4. CASE i > m + 1
      <4>1. i - (m + 1) \in 1..n-1 /\ (i - (m + 1)) + 1 = i - m /\ ~(i <= m) /\ ~(i <= m + 1)
            BY <1>1, <2>1, <3>4
      <4> QED BY <1>2, <3>1, <4>1
    <3>5. i <= m \/ i = m + 1 \/ i > m + 1
          BY <1>1, <2>1
    <3> QED BY <3>2, <3>3, <3>4, <3>5
  <2> QED BY <2>2, <2>3 DEF u
<1> QED BY <1>2, <1>3, <1>4, <1>5 DEF A

\* One or two characters at the end of a text.
LEMMA EndsAppend ==
  ASSUME NEW t \in Seq(Atom), NEW a \in Atom, NEW b \in Atom
  PROVE  /\ t \o <<a>> = Append(t, a)
         /\ t \o <<b, a>> = Append(Append(t, b), a)
         /\ Append(t, b) \in Seq(Atom) /\ Append(t, a) # << >>
PROOF
<1> DEFINE A == Atom
<1>1. t \in Seq(A) /\ a \in A /\ b \in A
      OBVIOUS
<1> HIDE DEF A
<1>2. t \o <<a>> = Append(t, a) /\ Append(t, b) \in Seq(A) /\ Append(t, a) # << >>
      BY <1>1
<1>3. t \o <<b, a>> = Append(Append(t, b), a)
      BY <1>1
<1> QED BY <1>2, <1>3 DEF A

\* {sal_path} after a backslash, when there is nothing to quote in the path.
LEMMA InsertedPlainEscaped ==
  ASSUME NEW path \in Seq(Atom), path # << >>, NEW s, NEW line \in Seq(Atom),
         Inserted(s, Scanned(line), path), s.within = "escape",
         ToSet(path) \cap (Quotes \cup {Blank, Backslash}) = {}
  PROVE  Inserted(Scan(s, SalPath), Scanned(line \o path), path)
PROOF
<1> DEFINE e == Scanned(line)
           s2 == Scan(s, SalPath)
           e2 == Scanned(line \o path)
           Kept == s.back \in Quotes
<1>1. /\ s \in State /\ e \in State /\ e.within = "escape" /\ e.back = s.back
      /\ s.token \in Seq(Atom) /\ e.token \in Seq(Atom) /\ e.token = Format(s.token, path)
      /\ s.back \in {"plain"} \cup Quotes
      BY DEF Inserted, State
<1>2. /\ SalPath \in Atom /\ Backslash \in Atom /\ Backslash # SalPath
      /\ SalPath \notin Quotes \cup {Backslash}
      BY DEF Atom, Quotes, Backslash, SalPath
<1>3. PICK c \in Atom : \E rest \in Seq(Atom) :
             /\ c \in ToSet(path) /\ ToSet(rest) \subseteq ToSet(path)
             /\ \A t \in Seq(Atom) : Append(t, c) \o rest = t \o path
      BY FirstAndRest
<1>4. PICK rest \in Seq(Atom) :
             /\ c \in ToSet(path) /\ ToSet(rest) \subseteq ToSet(path)
             /\ \A t \in Seq(Atom) : Append(t, c) \o rest = t \o path
      BY <1>3
<1>5. c \notin Quotes \cup {Blank, Backslash} /\ ToSet(rest) \cap (Quotes \cup {Blank, Backslash}) = {}
      BY <1>4
<1> DEFINE line1 == Append(line, c)
           e1 == Scanned(line1)
<1>6. line1 \in Seq(Atom) /\ e1 = Scan(e, c) /\ e1 \in State
      BY <1>1, ScannedAppend, ConcatAppend, ScanIsState
<1>7. /\ s2 \in State /\ s2.within = s.back /\ s2.back = s.back /\ s2.args = s.args
      /\ s2.token = s.token \o IF Kept THEN <<Backslash, SalPath>> ELSE <<SalPath>>
  <2>1. s2 \in State
        BY <1>1, <1>2, ScanIsState
  <2>2. (s.back \in Quotes /\ SalPath \notin {Backslash, s.back}) <=> Kept
        BY <1>2
  <2> QED BY <1>1, <2>1, <2>2, ScanEscaped
<1>8. /\ e1.within = s.back /\ e1.back = s.back /\ e1.args = e.args
      /\ e1.token = e.token \o IF Kept THEN <<Backslash, c>> ELSE <<c>>
  <2>1. (e.back \in Quotes /\ c \notin {Backslash, e.back}) <=> Kept
        BY <1>1, <1>5
  <2>2. e \in State /\ e.within = "escape" /\ e.back = s.back /\ e1 = Scan(e, c)
        BY <1>1, <1>6
  <2> HIDE DEF e, e1, Kept
  <2>3. /\ Scan(e, c).within = e.back /\ Scan(e, c).back = e.back /\ Scan(e, c).args = e.args
        /\ Scan(e, c).token = e.token \o IF e.back \in Quotes /\ c \notin {Backslash, e.back}
                                         THEN <<Backslash, c>> ELSE <<c>>
        BY <2>2, ScanEscaped
  <2>4. e1.token = e.token \o IF Kept THEN <<Backslash, c>> ELSE <<c>>
        BY <2>1, <2>2, <2>3
  <2> QED BY <2>2, <2>3, <2>4
<1>9. Reached(line1 \o rest, e1.within, e1.token \o rest, e1)
  <2>1. e1.within # "escape"
        BY <1>1, <1>8 DEF Quotes
  <2> HIDE DEF line1
  <2> QED BY <1>5, <1>6, <2>1, PlainPath
<1>10. line1 \o rest = line \o path
       BY <1>4
<1>11. /\ e2 \in State /\ e2.within = s.back /\ e2.back = s.back /\ e2.args = e.args
       /\ e2.token = e1.token \o rest
       BY <1>8, <1>9, <1>10 DEF Reached
<1>12. /\ Len(e.args) = Len(s.args)
       /\ \A i \in DOMAIN s.args : e.args[i] = Format(s.args[i], path)
       BY DEF Inserted
<1> DEFINE st == s.token
           et == e.token
           b == Backslash
<1>13. st \in Seq(Atom) /\ et \in Seq(Atom) /\ et = Format(st, path) /\ b \in Atom /\ b # SalPath
       BY <1>1, <1>2
<1>14. /\ s2.token = st \o IF Kept THEN <<b, SalPath>> ELSE <<SalPath>>
       /\ e2.token = (et \o IF Kept THEN <<b, c>> ELSE <<c>>) \o rest
       BY <1>7, <1>8, <1>11
<1> HIDE DEF st, et, b, e, s2, e2, e1, line1, Kept
<1>15. \A t \in Seq(Atom), a \in Atom : /\ t \o <<a>> = Append(t, a)
                                       /\ t \o <<b, a>> = Append(Append(t, b), a)
                                       /\ Append(t, b) \in Seq(Atom)
                                       /\ Append(t, a) # << >>
  <2> SUFFICES ASSUME NEW t \in Seq(Atom), NEW a \in Atom
               PROVE  /\ t \o <<a>> = Append(t, a)
                      /\ t \o <<b, a>> = Append(Append(t, b), a)
                      /\ Append(t, b) \in Seq(Atom) /\ Append(t, a) # << >>
        OBVIOUS
  <2>1. b \in Atom
        BY <1>13
  <2> QED BY <2>1, EndsAppend
<1>16. \A t \in Seq(Atom) : t \o path # << >>
       BY BehindIsMore
<1>17. e2.token = Format(s2.token, path) /\ s2.token # << >> /\ e2.token # << >>
  <2>1. CASE ~Kept
    <3>1. s2.token = Append(st, SalPath) /\ e2.token = et \o path
      <4>1. st \o <<SalPath>> = Append(st, SalPath) /\ et \o <<c>> = Append(et, c)
            BY <1>2, <1>13, <1>15
      <4>2. Append(et, c) \o rest = et \o path
            BY <1>4, <1>13
      <4> QED BY <1>14, <2>1, <4>1, <4>2
    <3>2. Format(Append(st, SalPath), path) = et \o path
          BY <1>2, <1>13, FormatAppend DEF Item
    <3>3. Append(st, SalPath) # << >> /\ et \o path # << >>
          BY <1>2, <1>13, <1>15, <1>16
    <3> QED BY <3>1, <3>2, <3>3
  <2>2. CASE Kept
    <3> DEFINE stb == Append(st, b)
               etb == Append(et, b)
    <3>1. s2.token = Append(stb, SalPath) /\ e2.token = etb \o path
      <4>1. st \o <<b, SalPath>> = Append(stb, SalPath) /\ et \o <<b, c>> = Append(etb, c)
            BY <1>2, <1>13, <1>15
      <4>2. Append(etb, c) \o rest = etb \o path
            BY <1>4, <1>13, <1>15
      <4> QED BY <1>14, <2>2, <4>1, <4>2
    <3>2. stb \in Seq(Atom) /\ etb \in Seq(Atom) /\ etb = Format(stb, path)
      <4>1. st \in Seq(Atom) /\ b \in Atom /\ b # SalPath
            BY <1>13
      <4>2. Format(Append(st, b), path) = Append(Format(st, path), b)
            BY <4>1, FormatMore
      <4> QED BY <1>13, <1>15, <4>2
    <3> HIDE DEF stb, etb
    <3>3. Format(Append(stb, SalPath), path) = etb \o path
          BY <1>2, <3>2, FormatAppend DEF Item
    <3>4. Append(stb, SalPath) # << >> /\ etb \o path # << >>
          BY <1>2, <1>15, <1>16, <3>2
    <3> QED BY <3>1, <3>3, <3>4
  <2> QED BY <2>1, <2>2
<1>18. Inserted(s2, e2, path)
       BY <1>7, <1>11, <1>12, <1>17 DEF Inserted
<1> QED BY <1>18 DEF s2, e2

\* {sal_path} anywhere, when there is nothing to quote in the path.
LEMMA InsertedPlain ==
  ASSUME NEW path \in Seq(Atom), path # << >>, NEW s, NEW line \in Seq(Atom),
         Inserted(s, Scanned(line), path),
         ToSet(path) \cap (Quotes \cup {Blank, Backslash}) = {}
  PROVE  Inserted(Scan(s, SalPath), Scanned(line \o ShlexQuote(path)), path)
PROOF
<1>1. ShlexQuote(path) = path
      BY DEF ShlexQuote
<1>2. CASE s.within = "escape"
      BY <1>1, <1>2, InsertedPlainEscaped
<1>3. CASE s.within # "escape"
  <2> DEFINE e == Scanned(line)
  <2>1. e \in State /\ e.within = s.within
        BY DEF Inserted
  <2>2. Reached(line \o path, e.within, e.token \o path, e)
        BY <1>3, <2>1, PlainPath
  <2>3. Inserted(Scan(s, SalPath), Scanned(line \o path), path)
        BY <1>3, <2>1, <2>2, InsertedReached
  <2> QED BY <1>1, <2>3
<1> QED BY <1>2, <1>3

\* The scan of the template filled in has the arguments of the template, filled in.
LEMMA TemplateInserted ==
  ASSUME NEW template \in Seq(Atom), NEW path \in Seq(Atom), path # << >>,
         \/ \A i \in DOMAIN template :
              template[i] = SalPath => Scanned(SubSeq(template, 1, i - 1)).within = "plain"
         \/ ToSet(path) \cap (Quotes \cup {Blank, Backslash}) = {}
  PROVE  Inserted(Scanned(template), Scanned(Format(template, ShlexQuote(path))), path)
PROOF
<1> DEFINE n == Len(template)
           Read(i) == SubSeq(template, 1, i)
           q == ShlexQuote(path)
           NeedsNoQuotes == ToSet(path) \cap (Quotes \cup {Blank, Backslash}) = {}
           Good == {i \in 0..n : Inserted(Scanned(Read(i)), Scanned(Format(Read(i), q)), path)}
<1>1. n \in Nat /\ q \in Seq(Atom)
      BY QuoteIsText
<1>2. /\ Read(0) = << >> /\ Read(n) = template
      /\ \A i \in 0..n : Read(i) \in Seq(Atom)
      /\ \A i \in 0..n : i < n => /\ template[i+1] \in Atom
                                 /\ Read(i+1) = Append(Read(i), template[i+1])
      BY OneByOne
<1>3. \A i \in 0..n : i < n /\ template[i+1] = SalPath =>
                      NeedsNoQuotes \/ Scanned(Read(i)).within = "plain"
  <2> SUFFICES ASSUME NEW i \in 0..n, i < n, template[i+1] = SalPath, ~NeedsNoQuotes
               PROVE  Scanned(Read(i)).within = "plain"
      OBVIOUS
  <2>1. i + 1 \in DOMAIN template /\ (i + 1) - 1 = i
        OBVIOUS
  <2>2. Scanned(SubSeq(template, 1, (i + 1) - 1)).within = "plain"
        BY <2>1
  <2> QED BY <2>1, <2>2
<1> HIDE DEF n, Read, NeedsNoQuotes
<1>4. 0 \in Good
  <2>1. Format(Read(0), q) = << >> /\ Read(0) = << >>
        BY <1>1, <1>2, FormatNothing
  <2>2. Inserted(Start, Start, path)
    <3>1. Format(<< >>, path) = << >>
          BY FormatNothing
    <3>2. /\ Start.token = << >> /\ Start.args = << >>
          BY DEF Start
    <3>3. Start \in State
          BY StartIsState
    <3>4. Len(<< >>) = 0 /\ DOMAIN << >> = {}
          OBVIOUS
    <3> QED BY <3>1, <3>2, <3>3, <3>4 DEF Inserted
  <2>3. Inserted(Scanned(Read(0)), Scanned(Format(Read(0), q)), path)
        BY <2>1, <2>2, ScannedNothing, Zenon
  <2> QED BY <1>1, <2>3
<1>5. ASSUME NEW i \in 0..n, i \in Good, i < n PROVE i + 1 \in Good
  <2> DEFINE c == template[i+1]
             t == Read(i)
             l == Format(t, q)
             s == Scanned(t)
             e == Scanned(l)
  <2>1. /\ c \in Atom /\ t \in Seq(Atom) /\ Read(i+1) = Append(t, c)
        /\ Inserted(s, e, path)
        BY <1>2, <1>5
  <2>2. c = SalPath => NeedsNoQuotes \/ s.within = "plain"
        BY <1>3, <1>5
  <2> HIDE DEF c, t
  <2>3. l \in Seq(Atom) /\ Format(Append(t, c), q) = l \o Item(c, q)
        BY <1>1, <2>1, FormatAppend
  <2>4. Scanned(Append(t, c)) = Scan(s, c)
        BY <2>1, ScannedAppend
  <2> HIDE DEF l
  <2>5. Inserted(Scan(s, c), Scanned(l \o Item(c, q)), path)
    <3>1. CASE c = SalPath
      <4>1. Inserted(Scan(s, c), Scanned(l \o q), path)
        <5>1. CASE s.within = "plain"
              BY <2>1, <2>3, <3>1, <5>1, InsertedPath
        <5>2. CASE NeedsNoQuotes
              BY <2>1, <2>3, <3>1, <5>2, InsertedPlain DEF NeedsNoQuotes
        <5> QED BY <2>2, <3>1, <5>1, <5>2
      <4>2. Item(c, q) = q
            BY <3>1 DEF Item
      <4> QED BY <4>1, <4>2
    <3>2. CASE c # SalPath
      <4>1. Item(c, q) = <<c>>
            BY <3>2 DEF Item
      <4>2. l \o <<c>> = Append(l, c)
            BY <2>1, <2>3, ConcatAppend
      <4>3. Scanned(Append(l, c)) = Scan(e, c)
            BY <2>1, <2>3, ScannedAppend
      <4> HIDE DEF s, e
      <4>4. Inserted(Scan(s, c), Scan(e, c), path)
            BY <2>1, <3>2, InsertedStep
      <4> QED BY <4>1, <4>2, <4>3, <4>4
    <3> QED BY <3>1, <3>2
  <2>6. Inserted(Scanned(Read(i+1)), Scanned(Format(Read(i+1), q)), path)
        BY <2>1, <2>3, <2>4, <2>5, Zenon
  <2>7. i + 1 \in 0..n
        BY <1>1, <1>5
  <2> QED BY <2>6, <2>7
<1>6. n \in Good
  <2> HIDE DEF Good
  <2>1. 0..n \subseteq Good
        BY <1>1, <1>4, <1>5, Counting
  <2> QED BY <1>1, <2>1
<1> QED BY <1>2, <1>6

\* A template and a path are texts, and a path is not empty.
LEMMA CommandCalls ==
  ASSUME call \in Calls, call.name = "build_command"
  PROVE  /\ TemplateOf(call.template) \in Seq(Atom)
         /\ call.path \in Seq(Atom) /\ call.path # << >>
PROOF
<1>1. call.template \in Templates /\ call.path \in Paths
      BY DEF Calls
<1>2. call.template \in Seq(STRING) /\ call.path \in Seq(STRING) /\ call.path # << >>
      BY <1>1, PathsAssumption
<1>3. STRING \subseteq Atom
      BY DEF Atom
<1>4. call.template \in Seq(Atom) /\ call.path \in Seq(Atom)
      BY <1>2, <1>3, WiderSeq
<1>5. DefaultTemplate \in Seq(Atom)
  <2> DEFINE A == Atom
             b == Blank
             p == SalPath
  <2>1. "w" \in A /\ b \in A /\ p \in A
        BY DEF Atom
  <2> HIDE DEF A, b, p
  <2>2. <<"w", b, "w", b, p>> \in Seq(A)
        BY <2>1
  <2> QED BY <2>2 DEF A, b, p, DefaultTemplate
<1> QED BY <1>2, <1>4, <1>5 DEF TemplateOf

\* What the two scans come to is the same list of arguments, with the path in it.
LEMMA SplitInserted ==
  ASSUME NEW t \in Seq(Atom), NEW u \in Seq(Atom), NEW path \in Seq(Atom),
         Inserted(Scanned(t), Scanned(u), path)
  PROVE  LET written == ShlexSplit(t)
         IN ShlexSplit(u) = IF written = Raised THEN Raised
                            ELSE Returned([i \in DOMAIN written.value |->
                                             Format(written.value[i], path)])
PROOF
<1> DEFINE s == Scanned(t)
           e == Scanned(u)
           s2 == Scan(s, Blank)
           e2 == Scan(e, Blank)
<1>1. s \in State /\ e \in State /\ e.within = s.within
      BY DEF Inserted
<1>2. CASE s.within # "plain"
  <2>1. ShlexSplit(t) = Raised /\ ShlexSplit(u) = Raised
        BY <1>1, <1>2 DEF ShlexSplit
  <2> QED BY <2>1
<1>3. CASE s.within = "plain"
  <2>1. s2 = EndToken(s) /\ e2 = EndToken(e)
        BY <1>1, <1>3 DEF Scan, Quotes, Backslash, Blank
  <2>2. Inserted(s2, e2, path)
        BY <1>3, InsertedBlank
  <2>3. ShlexSplit(t) = Returned(s2.args) /\ ShlexSplit(u) = Returned(e2.args)
        BY <1>1, <1>3, <2>1, Zenon DEF ShlexSplit
  <2> DEFINE sa == s2.args
             ea == e2.args
  <2>4. /\ Len(ea) = Len(sa) /\ sa \in Seq(Seq(Atom)) /\ ea \in Seq(Seq(Atom))
        /\ \A i \in DOMAIN sa : ea[i] = Format(sa[i], path)
        BY <2>2 DEF Inserted, State
  <2> HIDE DEF s2, e2
  <2>7. ShlexSplit(t) = Returned(sa) /\ ShlexSplit(u) = Returned(ea)
        BY <2>3
  <2> HIDE DEF sa, ea
  <2>5. ea = [i \in DOMAIN sa |-> Format(sa[i], path)]
    <3> DEFINE T == Seq(Atom)
    <3> HIDE DEF T
    <3>1. sa \in Seq(T) /\ ea \in Seq(T)
          BY <2>4 DEF T
    <3>2. DOMAIN ea = DOMAIN sa /\ ea = [i \in DOMAIN ea |-> ea[i]]
          BY <2>4, <3>1
    <3> QED BY <2>4, <3>2
  <2>6. Returned(sa) # Raised /\ Returned(sa).value = sa
        BY DEF Returned, Raised
  <2> QED BY <2>5, <2>6, <2>7
<1> QED BY <1>2, <1>3

\* build_command as a whole.
LEMMA BuildStep ==
  ASSUME call \in Calls, BuildCommand
  PROVE  PathIsOneArgument'
PROOF
<1> DEFINE template == TemplateOf(call.template)
           path == call.path
           Unquoted == \A i \in DOMAIN template :
                         template[i] = SalPath =>
                           Scanned(SubSeq(template, 1, i - 1)).within = "plain"
           NeedsNoQuotes == ToSet(path) \cap (Quotes \cup {Blank, Backslash}) = {}
           written == ShlexSplit(template)
           Good(r) == Unquoted \/ NeedsNoQuotes =>
                                  r = IF written = Raised THEN Raised
                                      ELSE Returned([i \in DOMAIN written.value |->
                                                       Format(written.value[i], path)])
<1>1. /\ call.name = "build_command" /\ call' = call
      /\ result' = ShlexSplit(Format(template, ShlexQuote(path)))
      BY DEF BuildCommand
<1>2. template \in Seq(Atom) /\ path \in Seq(Atom) /\ path # << >>
      BY <1>1, CommandCalls
<1>3. Good(result')
  <2> SUFFICES ASSUME Unquoted \/ NeedsNoQuotes
               PROVE  result' = IF written = Raised THEN Raised
                                ELSE Returned([i \in DOMAIN written.value |->
                                                 Format(written.value[i], path)])
      OBVIOUS
  <2> HIDE DEF template, path
  <2>1. Format(template, ShlexQuote(path)) \in Seq(Atom)
    <3>1. ShlexQuote(path) \in Seq(Atom) /\ SalPath \in Atom
          BY <1>2, QuoteIsText DEF Atom
    <3> QED BY <1>2, <3>1, FormatAppend
  <2>2. Inserted(Scanned(template), Scanned(Format(template, ShlexQuote(path))), path)
        BY <1>2, TemplateInserted
  <2> QED BY <1>1, <1>2, <2>1, <2>2, SplitInserted
<1>4. Good(result') /\ call' = call => PathIsOneArgument'
      BY DEF PathIsOneArgument
<1> QED BY <1>1, <1>3, <1>4

-------------------------------------------------------------------------------
(* The characters of a handoff *)

\* What a handoff is written in.
Letter == DOMAIN Upper

\* What the separators and the two cases are to each other.
LEMMA CaseIs ==
  /\ Upper \in [Letter -> Letter] /\ Lower \in [Letter -> Letter]
  /\ Eq \in Letter /\ Blank \in Letter /\ Break \in Letter
  /\ Eq # Blank /\ Eq # Break /\ Blank # Break
  /\ \A a \in Letter, c \in {Eq, Blank, Break} : (Upper[a] = c <=> a = c) /\ (Lower[a] = c <=> a = c)
  /\ \A a \in Letter : Lower[Upper[Lower[a]]] = Lower[a]
BY CaseAssumption DEF Letter, Eq, Blank, Break

\* A name in upper or in lower case.
LEMMA CasesAreText ==
  ASSUME NEW s \in Seq(Letter)
  PROVE  /\ ToUpper(s) \in Seq(Letter) /\ ToLower(s) \in Seq(Letter)
         /\ Len(ToUpper(s)) = Len(s) /\ Len(ToLower(s)) = Len(s)
         /\ \A i \in 1..Len(s) : ToUpper(s)[i] = Upper[s[i]] /\ ToLower(s)[i] = Lower[s[i]]
PROOF
<1> DEFINE L == Letter
<1>1. Upper \in [L -> L] /\ Lower \in [L -> L] /\ s \in Seq(L)
      BY CaseIs
<1> HIDE DEF L
<1>2. \A i \in 1..Len(s) : Upper[s[i]] \in L /\ Lower[s[i]] \in L
      BY <1>1
<1>3. DOMAIN s = 1..Len(s)
      BY <1>1
<1>4. [i \in 1..Len(s) |-> Upper[s[i]]] \in Seq(L) /\ [i \in 1..Len(s) |-> Lower[s[i]]] \in Seq(L)
      BY <1>1, <1>2
<1> QED BY <1>1, <1>3, <1>4 DEF ToUpper, ToLower, L

-------------------------------------------------------------------------------
(* Partition *)
\* A name ends at the first =, or at the end of the field.
LEMMA NameEndIs ==
  ASSUME NEW f \in Seq(Letter)
  PROVE  /\ NameEnd(f) \in 1..Len(f)+1
         /\ \A i \in 1..NameEnd(f)-1 : f[i] # Eq
         /\ NameEnd(f) <= Len(f) => f[NameEnd(f)] = Eq
PROOF
<1> DEFINE L == Letter
           g == Append(f, Eq)
           n == Len(f)
           I == {i \in 1..Len(g) : g[i] = Eq}
<1>1. f \in Seq(L) /\ Eq \in L
      BY CaseIs
<1>2. NameEnd(f) = IF I # {} THEN Min(I) ELSE 0
      BY DEF NameEnd, SelectInSeq
<1> HIDE DEF L
<1>3. n \in Nat /\ Len(g) = n + 1 /\ g[n + 1] = Eq /\ \A i \in 1..n : g[i] = f[i]
      BY <1>1
<1> HIDE DEF g
<1>4. I \in SUBSET Nat /\ I # {} /\ I \subseteq 1..n+1
      BY <1>3
<1>5. NameEnd(f) \in I /\ \A m \in I : NameEnd(f) <= m
      BY <1>2, <1>4, MinIs
<1> DEFINE e == NameEnd(f)
<1> HIDE DEF e
<1>6. e \in 1..n+1 /\ g[e] = Eq
      BY <1>3, <1>5 DEF e
<1>7. ASSUME NEW i \in 1..e-1 PROVE f[i] # Eq
  <2>1. i \in 1..n /\ i < e
        BY <1>3, <1>6
  <2>2. i \notin I
        BY <1>5, <1>6, <2>1 DEF e
  <2> QED BY <1>3, <2>1, <2>2
<1>8. e <= n => f[e] = Eq
      BY <1>3, <1>6
<1> QED BY <1>6, <1>7, <1>8 DEF e

\* str.partition splits a field there.
LEMMA PartitionIs ==
  ASSUME NEW f \in Seq(Letter)
  PROVE  Partition(f) = <<SubSeq(f, 1, NameEnd(f) - 1), ValueOf(f)>>
PROOF
<1> DEFINE L == Letter
           n == Len(f)
           e == NameEnd(f)
           I == {i \in 1..n : f[i] = Eq}
           at == IF I # {} THEN Min(I) ELSE 0
<1>1. Partition(f) = IF at = 0 THEN <<f, << >> >> ELSE <<SubSeq(f, 1, at - 1), SubSeq(f, at + 1, n)>>
      BY DEF Partition, SelectInSeq
<1>2. /\ e \in 1..n+1 /\ n \in Nat
      /\ \A i \in 1..e-1 : f[i] # Eq
      /\ e <= n => f[e] = Eq
      BY NameEndIs
<1>3. f \in Seq(L)
      OBVIOUS
<1> HIDE DEF L, e
<1>4. CASE e = n + 1
  <2>1. I = {}
        BY <1>2, <1>4
  <2>2. SubSeq(f, 1, e - 1) = f
        BY <1>2, <1>3, <1>4
  <2>3. SubSeq(f, e + 1, n) = << >>
        BY <1>2, <1>3, <1>4
  <2> QED BY <1>1, <2>1, <2>2, <2>3 DEF ValueOf, e
<1>5. CASE e <= n
  <2>1. e \in I /\ I \in SUBSET Nat /\ \A i \in I : e <= i
        BY <1>2, <1>5
  <2> HIDE DEF I
  <2> DEFINE m == Min(I)
  <2>2. m \in I /\ m <= e
        BY <2>1, MinIs
  <2> HIDE DEF m
  <2>3. m = e /\ e # 0
        BY <1>2, <2>1, <2>2
  <2>4. at = e
        BY <2>1, <2>3 DEF m
  <2> HIDE DEF at
  <2> QED BY <1>1, <2>3, <2>4 DEF ValueOf, e
<1> QED BY <1>2, <1>4, <1>5

\* A field has a name without = and a value.
LEMMA FieldIs ==
  ASSUME NEW f \in Seq(Letter)
  PROVE  /\ SubSeq(f, 1, NameEnd(f) - 1) \in Seq(Letter) /\ ValueOf(f) \in Seq(Letter)
         /\ Name(f) \in Seq(Letter)
         /\ \A i \in 1..Len(Name(f)) : Name(f)[i] # Eq
         /\ ToLower(ToUpper(Name(f))) = Name(f)
         /\ ~Contains(f, Break) => ~Contains(Name(f), Break) /\ ~Contains(ValueOf(f), Break)
PROOF
<1> DEFINE L == Letter
           e == NameEnd(f)
           u == SubSeq(f, 1, e - 1)
           v == SubSeq(f, e + 1, Len(f))
<1>1. f \in Seq(L) /\ e \in 1..Len(f)+1 /\ \A i \in 1..e-1 : f[i] # Eq
      BY NameEndIs
<1> HIDE DEF L, e
<1>2. u \in Seq(L) /\ Len(u) = e - 1 /\ \A i \in 1..e-1 : u[i] = f[i]
      BY <1>1
<1>3. v \in Seq(L) /\ \A i \in 1..Len(v) : v[i] = f[e + i] /\ e + i \in 1..Len(f)
  <2>1. v \in Seq(L)
        BY <1>1
  <2>2. ASSUME NEW i \in 1..Len(v) PROVE v[i] = f[e + i] /\ e + i \in 1..Len(f)
        BY <1>1
  <2> QED BY <2>1, <2>2
<1> DEFINE w == ToLower(u)
<1>4. Name(f) = w /\ ValueOf(f) = v
      BY DEF Name, ValueOf, e
<1> HIDE DEF u, v
<1>5. w \in Seq(L) /\ Len(w) = e - 1 /\ \A i \in 1..e-1 : w[i] = Lower[u[i]]
      BY <1>2, CasesAreText DEF L
<1>6. \A i \in 1..e-1 : u[i] \in Letter
      BY <1>1, <1>2 DEF L
<1>7. \A i \in 1..e-1 : w[i] # Eq
      BY <1>1, <1>2, <1>5, <1>6, CaseIs
<1>8. ToLower(ToUpper(w)) = w
  <2> DEFINE up == ToUpper(w)
             low == ToLower(up)
  <2> HIDE DEF w
  <2>1. up \in Seq(L) /\ Len(up) = e - 1 /\ \A i \in 1..e-1 : up[i] = Upper[w[i]]
        BY <1>5, CasesAreText DEF L
  <2> HIDE DEF up
  <2>2. low \in Seq(L) /\ Len(low) = e - 1 /\ \A i \in 1..e-1 : low[i] = Lower[up[i]]
        BY <2>1, CasesAreText DEF L
  <2> HIDE DEF low
  <2>3. ASSUME NEW i \in 1..e-1 PROVE low[i] = w[i]
    <3>1. low[i] = Lower[Upper[Lower[u[i]]]]
          BY <1>5, <2>1, <2>2
    <3>2. low[i] = Lower[u[i]]
          BY <1>6, <3>1, CaseIs
    <3> QED BY <1>5, <3>2
  <2>4. low = w
        BY <1>5, <2>2, <2>3
  <2> QED BY <2>4 DEF low, up
<1>9. ASSUME ~Contains(f, Break) PROVE ~Contains(w, Break) /\ ~Contains(v, Break)
  <2>1. \A i \in 1..Len(f) : f[i] # Break
        BY <1>9 DEF Contains
  <2>2. \A i \in 1..e-1 : w[i] # Break
        BY <1>1, <1>2, <1>5, <1>6, <2>1, CaseIs
  <2>3. \A i \in 1..Len(v) : v[i] # Break
        BY <1>1, <1>3, <2>1
  <2> HIDE DEF w
  <2> QED BY <1>5, <2>2, <2>3 DEF Contains
<1> QED BY <1>2, <1>3, <1>4, <1>5, <1>7, <1>8, <1>9 DEF L, u, e

-------------------------------------------------------------------------------
(* parse_handoff_kv *)
\* parse_handoff_kv returns the last value of each name.
LEMMA HandoffKvIs ==
  ASSUME NEW fields \in Seq(Seq(Letter))
  PROVE  /\ DOMAIN HandoffKv(fields) = Named(fields)
         /\ \A k \in Named(fields) : HandoffKv(fields)[k] = Value(fields, k)
PROOF
<1> DEFINE n == Len(fields)
           entry(i) == LET kv == Partition(fields[i]) IN <<ToLower(kv[1]), kv[2]>>
           entries == [i \in DOMAIN fields |-> entry(i)]
<1>1. n \in Nat /\ DOMAIN fields = 1..n /\ \A i \in 1..n : fields[i] \in Seq(Letter)
      OBVIOUS
<1>2. \A i \in 1..n : entry(i) = <<Name(fields[i]), ValueOf(fields[i])>>
  <2> SUFFICES ASSUME NEW i \in 1..n PROVE entry(i) = <<Name(fields[i]), ValueOf(fields[i])>>
      OBVIOUS
  <2> DEFINE f == fields[i]
             kv == Partition(f)
  <2>1. f \in Seq(Letter)
        BY <1>1
  <2>2. entry(i) = <<ToLower(kv[1]), kv[2]>>
        OBVIOUS
  <2> HIDE DEF f, entry
  <2>3. kv = <<SubSeq(f, 1, NameEnd(f) - 1), ValueOf(f)>>
        BY <2>1, PartitionIs
  <2> HIDE DEF kv
  <2>4. kv[1] = SubSeq(f, 1, NameEnd(f) - 1) /\ kv[2] = ValueOf(f)
        BY <2>3
  <2> QED BY <2>2, <2>4 DEF Name, f
<1> HIDE DEF entry
<1>3. HandoffKv(fields) = Dict(entries)
      BY DEF HandoffKv, entry
<1>4. DOMAIN entries = 1..n /\ \A i \in 1..n : entries[i][1] = Name(fields[i]) /\ entries[i][2] = ValueOf(fields[i])
      BY <1>1, <1>2
<1> HIDE DEF entries
<1>5. {entries[i][1] : i \in DOMAIN entries} = Named(fields)
      BY <1>1, <1>4 DEF Named, ToSet
<1>6. ASSUME NEW k \in Named(fields)
      PROVE  Dict(entries)[k] = Value(fields, k)
  <2> DEFINE at == {i \in DOMAIN entries : entries[i][1] = k}
             m == Max(at)
  <2>1. at = Sent(fields, k)
        BY <1>1, <1>4 DEF Sent
  <2>2. at \in SUBSET (0..n) /\ at # {} /\ at \subseteq 1..n
    <3>1. at \subseteq 1..n
          BY <1>4
    <3>2. PICK f \in ToSet(fields) : k = Name(f)
          BY DEF Named
    <3>3. PICK i \in 1..n : f = fields[i]
          BY <1>1, <3>2 DEF ToSet
    <3>4. i \in at
          BY <1>4, <3>2, <3>3
    <3>5. 1..n \subseteq 0..n /\ 0..n \subseteq Nat
          BY <1>1
    <3> HIDE DEF at
    <3> QED BY <3>1, <3>4, <3>5
  <2>3. Dict(entries)[k] = entries[m][2]
        BY <1>5 DEF Dict
  <2> HIDE DEF at
  <2>4. m \in at
        BY <1>1, <2>2, MaxIs
  <2> HIDE DEF m
  <2>5. entries[m][2] = ValueOf(fields[m])
        BY <1>4, <2>2, <2>4
  <2> QED BY <2>1, <2>3, <2>5 DEF Value, m
<1>7. DOMAIN Dict(entries) = Named(fields)
      BY <1>5 DEF Dict
<1> QED BY <1>3, <1>6, <1>7

\* There are finitely many names.
LEMMA NamesAreFinite ==
  ASSUME NEW fields \in Seq(Seq(Letter))
  PROVE  IsFiniteSet(Named(fields))
PROOF
<1> DEFINE n == Len(fields)
           f == [i \in 1..n |-> Name(fields[i])]
           D == Named(fields)
<1>1. n \in Nat /\ DOMAIN fields = 1..n
      OBVIOUS
<1>2. D = {Name(fields[i]) : i \in 1..n}
      BY <1>1 DEF Named, ToSet
<1>3. f \in [1..n -> D]
      BY <1>2
<1>4. \A k \in D : \E i \in 1..n : f[i] = k
      BY <1>2
<1> HIDE DEF f, D
<1>5. f \in Surjection(1..n, D)
      BY <1>3, <1>4 DEF Surjection
<1>6. IsFiniteSet(1..n)
      BY <1>1, FS_Interval
<1> QED BY <1>5, <1>6, FS_Surjection DEF D

-------------------------------------------------------------------------------
(* _sal_lines *)
\* A line of the SAL file without its end.
Assigned(name, value) == name \o <<Eq>> \o value
Body(k, value) == Assigned(ToUpper(k), value)

\* A finite set is listed by SetToSeq, each element once.
LEMMA SetToSeqLists ==
  ASSUME NEW S, IsFiniteSet(S)
  PROVE  /\ Cardinality(S) \in Nat
         /\ SetToSeq(S) \in [1..Cardinality(S) -> S]
         /\ \A x \in S : \E i \in 1..Cardinality(S) : SetToSeq(S)[i] = x
PROOF
<1> DEFINE n == Cardinality(S)
           g == SetToSeq(S)
<1>1. n \in Nat /\ ExistsBijection(1..n, S)
      BY FS_CardinalityType
<1>2. \E f \in [1..n -> S] : IsInjective(f)
      BY <1>1 DEF ExistsBijection, Bijection, Injection
<1>3. g \in [1..n -> S] /\ IsInjective(g)
      BY <1>2 DEF SetToSeq
<1> HIDE DEF g
<1>4. g \in Injection(1..n, S)
      BY <1>3 DEF Injection
<1>5. Cardinality(1..n) = n
      BY <1>1, FS_Interval
<1>6. g \in Surjection(1..n, S)
      BY <1>1, <1>4, <1>5, FS_Injection
<1> QED BY <1>1, <1>3, <1>6 DEF Surjection, g

\* A text of one line for each name of W, in some order.
OneLineEach(text, kv, W) ==
  \E n \in Nat : \E name \in [1..n -> W] :
    /\ \A k \in W : \E i \in 1..n : name[i] = k
    /\ text = FlattenSeq([i \in 1..n |-> Body(name[i], kv[name[i]]) \o <<Break>>])

\* The lines of the SAL file are those of the names with a value.
LEMMA SalTextIs ==
  ASSUME NEW kv, IsFiniteSet(DOMAIN kv),
         NEW W, W = {k \in DOMAIN kv : kv[k] # << >>}
  PROVE  OneLineEach(SalText(FromKv(kv)), kv, W)
PROOF
<1> DEFINE info == FromKv(kv)
           D == DOMAIN info.known \cup DOMAIN info.extra
           all == [k \in D |-> IF k \in Known THEN info.known[k] ELSE info.extra[k]]
           V == {k \in DOMAIN all : all[k] # << >>}
<1>1. /\ DOMAIN info.known = Known /\ DOMAIN info.extra = DOMAIN kv \ Known
      /\ \A k \in Known : info.known[k] = IF k \in DOMAIN kv THEN kv[k] ELSE << >>
      /\ \A k \in DOMAIN kv \ Known : info.extra[k] = kv[k]
      BY DEF FromKv
<1> DEFINE n == Cardinality(V)
           name == SetToSeq(V)
           line(i) == LET k == name[i] IN ToUpper(k) \o <<Eq>> \o all[k] \o <<Break>>
<1>2. SalText(info) = FlattenSeq([i \in 1..n |-> line(i)])
      BY DEF SalText
<1> HIDE DEF info
<1>3. D = Known \cup DOMAIN kv
      BY <1>1
<1>4. \A k \in DOMAIN kv : all[k] = kv[k]
      BY <1>1, <1>3
<1>5. \A k \in D \ DOMAIN kv : all[k] = << >>
      BY <1>1, <1>3
<1>6. DOMAIN all = D
      OBVIOUS
<1> HIDE DEF all
<1>7. V = W
      BY <1>3, <1>4, <1>5, <1>6
<1>8. IsFiniteSet(W)
      BY FS_Subset
<1>9. /\ n \in Nat /\ name \in [1..n -> W]
      /\ \A k \in W : \E i \in 1..n : name[i] = k
      BY <1>7, <1>8, SetToSeqLists
<1> HIDE DEF n, name
<1>10. \A i \in 1..n : line(i) = Body(name[i], kv[name[i]]) \o <<Break>>
  <2> SUFFICES ASSUME NEW i \in 1..n PROVE line(i) = Body(name[i], kv[name[i]]) \o <<Break>>
      OBVIOUS
  <2> DEFINE k == name[i]
  <2>1. k \in W
        BY <1>9
  <2> HIDE DEF k
  <2>2. all[k] = kv[k]
        BY <1>4, <2>1
  <2> QED BY <2>2 DEF Body, Assigned, k
<1> HIDE DEF line
<1>11. SalText(info) = FlattenSeq([i \in 1..n |-> Body(name[i], kv[name[i]]) \o <<Break>>])
       BY <1>2, <1>10
<1> QED BY <1>9, <1>11 DEF info, OneLineEach

-------------------------------------------------------------------------------
(* splitlines *)
Breaks(t) == {i \in DOMAIN t : t[i] = Break}
LineStart(t, end) == Max({0} \cup {i \in LineEnds(t) : i < end})

\* Whole lines, one after the other.
Ended(t) == t \in Seq(Letter) /\ (t = << >> \/ t[Len(t)] = Break)

\* Two texts, one behind the other.
LEMMA Behind ==
  ASSUME NEW u \in Seq(Letter), NEW v \in Seq(Letter), NEW t, t = u \o v
  PROVE  /\ t \in Seq(Letter) /\ Len(t) = Len(u) + Len(v)
         /\ \A i \in 1..Len(u) : t[i] = u[i]
         /\ \A i \in 1..Len(v) : t[Len(u) + i] = v[i]
PROOF
<1> DEFINE L == Letter
<1>1. u \in Seq(L) /\ v \in Seq(L)
      OBVIOUS
<1> HIDE DEF L
<1>2. /\ t \in Seq(L) /\ Len(t) = Len(u) + Len(v)
      /\ \A i \in 1..Len(u) : t[i] = u[i]
      /\ \A i \in 1..Len(v) : t[Len(u) + i] = v[i]
      BY <1>1
<1> QED BY <1>2 DEF L

\* Part of a text.
LEMMA PartIs ==
  ASSUME NEW t \in Seq(Letter), NEW a \in Nat, NEW b \in Nat, 1 <= a, a <= b + 1, b <= Len(t)
  PROVE  /\ SubSeq(t, a, b) \in Seq(Letter) /\ Len(SubSeq(t, a, b)) = b - a + 1
         /\ \A i \in 1..b-a+1 : SubSeq(t, a, b)[i] = t[a + i - 1]
PROOF
<1> DEFINE L == Letter
<1>1. t \in Seq(L)
      OBVIOUS
<1> HIDE DEF L
<1>2. /\ SubSeq(t, a, b) \in Seq(L) /\ Len(SubSeq(t, a, b)) = b - a + 1
      /\ \A i \in 1..b-a+1 : SubSeq(t, a, b)[i] = t[a + i - 1]
      BY <1>1
<1> QED BY <1>2 DEF L

\* Texts with the same elements are the same.
LEMMA SameText ==
  ASSUME NEW u \in Seq(Letter), NEW v \in Seq(Letter), Len(u) = Len(v),
         \A i \in 1..Len(u) : u[i] = v[i]
  PROVE  u = v
PROOF
<1> DEFINE L == Letter
<1>1. u \in Seq(L) /\ v \in Seq(L)
      OBVIOUS
<1> HIDE DEF L
<1> QED BY <1>1

\* A text has the lines of t and then the body.
OneLineMore(more, t, body) ==
  /\ Ended(more) /\ Breaks(more) = Breaks(t) \cup {Len(more)}
  /\ \A e \in Breaks(t) : Line(more, e) = Line(t, e)
  /\ Line(more, Len(more)) = body

\* One line more behind whole lines.
LEMMA LineMore ==
  ASSUME NEW t, Ended(t), NEW body \in Seq(Letter), ~Contains(body, Break),
         NEW more, more = t \o (body \o <<Break>>)
  PROVE  OneLineMore(more, t, body)
PROOF
<1> DEFINE n == Len(t)
           m == Len(body)
           line == body \o <<Break>>
<1>1. t \in Seq(Letter) /\ <<Break>> \in Seq(Letter) /\ Len(<<Break>>) = 1 /\ <<Break>>[1] = Break
      BY CaseIs DEF Ended
<1>2. /\ line \in Seq(Letter) /\ Len(line) = m + 1
      /\ \A i \in 1..m : line[i] = body[i]
      /\ line[m + 1] = Break
      BY <1>1, Behind
<1> HIDE DEF line
<1>3. more = t \o line
      BY DEF line
<1>4. /\ more \in Seq(Letter) /\ Len(more) = n + (m + 1)
      /\ \A i \in 1..n : more[i] = t[i]
      /\ \A i \in 1..m+1 : more[n + i] = line[i]
      BY <1>1, <1>2, <1>3, Behind
<1>5. n \in Nat /\ m \in Nat /\ DOMAIN t = 1..n /\ DOMAIN more = 1..n+m+1 /\ \A i \in 1..m : body[i] # Break
      BY <1>1, <1>4 DEF Contains
<1>6. /\ \A i \in 1..n : more[i] = t[i]
      /\ \A i \in n+1..n+m : more[i] = body[i-n] /\ more[i] # Break
      /\ more[n+m+1] = Break
  <2>1. ASSUME NEW i \in n+1..n+m PROVE more[i] = body[i-n] /\ more[i] # Break
    <3>1. i - n \in 1..m /\ i - n \in 1..m+1 /\ n + (i - n) = i
          BY <1>5
    <3> QED BY <1>2, <1>4, <1>5, <3>1
  <2>2. more[n+m+1] = Break
        BY <1>2, <1>4, <1>5
  <2> QED BY <1>4, <2>1, <2>2
<1> DEFINE B == Breaks(t)
           C == Breaks(more)
<1>7. B \subseteq 1..n /\ C \subseteq 1..n+m+1 /\ C = B \cup {n+m+1}
      BY <1>5, <1>6 DEF Breaks
<1>8. n # 0 => n \in B
      BY <1>1, <1>5 DEF Ended, Breaks
<1>9. LineEnds(t) = B \cup {n + 1} /\ LineEnds(more) = C \cup {n + m + 2}
      BY <1>4, <1>5 DEF LineEnds, Breaks
<1>10. ASSUME NEW e \in B PROVE Line(more, e) = Line(t, e)
  <2> DEFINE S == {0} \cup {i \in LineEnds(t) : i < e}
             T == {0} \cup {i \in LineEnds(more) : i < e}
             a == Max(S)
  <2>1. e \in 1..n
        BY <1>7
  <2>2. S = T
        BY <1>5, <1>7, <1>9, <2>1
  <2>3. S \in SUBSET (0..n) /\ S # {}
        BY <1>5, <1>7, <1>9, <2>1
  <2>4. \A i \in S : i < e
        BY <2>1
  <2>5. Line(t, e) = SubSeq(t, a + 1, e - 1) /\ Line(more, e) = SubSeq(more, a + 1, e - 1)
        BY <2>2 DEF Line
  <2> HIDE DEF S, T
  <2>6. a \in S
        BY <1>5, <2>3, MaxIs
  <2> HIDE DEF a
  <2>7. a \in 0..n /\ a < e
        BY <2>3, <2>4, <2>6
  <2> DEFINE u == SubSeq(t, a + 1, e - 1)
             v == SubSeq(more, a + 1, e - 1)
  <2>8. /\ a + 1 \in Nat /\ e - 1 \in Nat /\ 1 <= a + 1 /\ a + 1 <= (e - 1) + 1
        /\ e - 1 <= Len(t) /\ e - 1 <= Len(more)
        BY <1>4, <1>5, <2>1, <2>7
  <2>9. /\ u \in Seq(Letter) /\ Len(u) = (e - 1) - (a + 1) + 1
        /\ \A i \in 1..(e - 1) - (a + 1) + 1 : u[i] = t[(a + 1) + i - 1]
        BY <1>1, <2>8, PartIs
  <2>10. /\ v \in Seq(Letter) /\ Len(v) = (e - 1) - (a + 1) + 1
         /\ \A i \in 1..(e - 1) - (a + 1) + 1 : v[i] = more[(a + 1) + i - 1]
         BY <1>4, <2>8, PartIs
  <2> HIDE DEF u, v
  <2>11. \A i \in 1..Len(u) : u[i] = v[i]
    <3> SUFFICES ASSUME NEW i \in 1..Len(u) PROVE u[i] = v[i]
        OBVIOUS
    <3>1. (a + 1) + i - 1 \in 1..n /\ i \in 1..(e - 1) - (a + 1) + 1
          BY <1>5, <2>1, <2>7, <2>9
    <3> QED BY <1>6, <2>9, <2>10, <3>1
  <2>12. u = v
         BY <2>9, <2>10, <2>11, SameText
  <2> QED BY <2>5, <2>12 DEF u, v
<1>11. Line(more, n + m + 1) = body
  <2> DEFINE e == n + m + 1
             S == {0} \cup {i \in LineEnds(more) : i < e}
             a == Max(S)
             u == SubSeq(more, a + 1, e - 1)
  <2>1. S = {0} \cup B
    <3>1. LineEnds(more) = B \cup {n + m + 1, n + m + 2}
          BY <1>7, <1>9
    <3> HIDE DEF B, C, n, m
    <3>2. \A i \in B : i \in Nat /\ i < e
          BY <1>5, <1>7
    <3>3. ~(n + m + 1 < e) /\ ~(n + m + 2 < e)
          BY <1>5
    <3> HIDE DEF e
    <3> QED BY <3>1, <3>2, <3>3
  <2>2. Line(more, e) = u
        BY DEF Line
  <2> HIDE DEF S
  <2>3. S \in SUBSET (0..n) /\ S # {} /\ n \in S
        BY <1>5, <1>7, <1>8, <2>1
  <2>4. a \in S /\ n <= a
        BY <1>5, <2>3, MaxIs
  <2> HIDE DEF a
  <2>5. a = n
    <3>1. a \in 0..n
          BY <2>3, <2>4
    <3> HIDE DEF n
    <3> QED BY <1>5, <2>4, <3>1
  <2>6. n + 1 \in Nat /\ n + m \in Nat /\ 1 <= n + 1 /\ n + 1 <= (n + m) + 1 /\ n + m <= Len(more)
        BY <1>4, <1>5
  <2>7. u = SubSeq(more, n + 1, n + m)
        BY <1>5, <2>5
  <2> HIDE DEF u
  <2>8. /\ u \in Seq(Letter) /\ Len(u) = (n + m) - (n + 1) + 1
        /\ \A i \in 1..(n + m) - (n + 1) + 1 : u[i] = more[(n + 1) + i - 1]
        BY <1>4, <2>6, <2>7, PartIs
  <2>9. Len(u) = m
        BY <1>5, <2>8
  <2>10. \A i \in 1..Len(u) : u[i] = body[i]
    <3> SUFFICES ASSUME NEW i \in 1..m PROVE u[i] = body[i]
        BY <2>9
    <3>1. n + i \in n+1..n+m /\ (n + i) - n = i /\ (n + 1) + i - 1 = n + i /\ i \in 1..(n + m) - (n + 1) + 1
          BY <1>5
    <3> QED BY <1>6, <2>8, <3>1
  <2>11. u = body
         BY <2>8, <2>9, <2>10, SameText
  <2> QED BY <2>2, <2>11
<1>12. Ended(more)
       BY <1>4, <1>5, <1>6 DEF Ended
<1>13. Len(more) = n + m + 1
       BY <1>4, <1>5
<1> QED BY <1>7, <1>10, <1>11, <1>12, <1>13 DEF OneLineMore

\* A text of i lines that are the bodies.
Spells(t, bodies, i) == Ended(t) /\ {Line(t, e) : e \in Breaks(t)} = {bodies[j] : j \in 1..i}

\* splitlines() gives back the lines that were joined, and an empty one.
LEMMA LinesAre ==
  ASSUME NEW n \in Nat, NEW bodies \in [1..n -> Seq(Letter)],
         \A i \in 1..n : ~Contains(bodies[i], Break),
         NEW t, t = FlattenSeq([i \in 1..n |-> bodies[i] \o <<Break>>])
  PROVE  Spells(t, bodies, n)
PROOF
<1> DEFINE L == Letter
           items == [i \in 1..n |-> bodies[i] \o <<Break>>]
<1>1. \A i \in 1..n : bodies[i] \o <<Break>> \in Seq(L)
  <2>1. <<Break>> \in Seq(L)
        BY CaseIs
  <2> HIDE DEF L
  <2>2. \A b \in Seq(L) : b \o <<Break>> \in Seq(L)
        BY <2>1
  <2>3. bodies \in [1..n -> Seq(L)]
        BY DEF L
  <2> QED BY <2>2, <2>3
<1> DEFINE M == Seq(L)
<1>2. items \in [1..n -> Seq(L)]
  <2> HIDE DEF M
  <2>1. \A i \in 1..n : bodies[i] \o <<Break>> \in M
        BY <1>1 DEF M
  <2>2. items \in [1..n -> M]
        BY <2>1
  <2> QED BY <2>2 DEF M
<1> HIDE DEF L
<1>3. \A g \in [1..n -> Seq(L)] : \E f \in [0..n -> Seq(L)] :
        /\ FlattenSeq(g) = f[n]
        /\ f[0] = << >>
        /\ \A i \in 1..n : f[i] = f[i-1] \o g[i]
      BY FlatSteps
<1>4. \A i \in 1..n : items[i] = bodies[i] \o <<Break>>
      OBVIOUS
<1>5. t = FlattenSeq(items)
      OBVIOUS
<1> HIDE DEF items
<1>6. PICK f \in [0..n -> Seq(L)] :
        /\ FlattenSeq(items) = f[n]
        /\ f[0] = << >>
        /\ \A i \in 1..n : f[i] = f[i-1] \o items[i]
      BY <1>2, <1>3
<1> DEFINE S == {i \in 0..n : Spells(f[i], bodies, i)}
<1>7. 0 \in S
  <2>1. Ended(f[0])
        BY <1>6 DEF Ended, L
  <2>2. Breaks(f[0]) = {}
        BY <1>6 DEF Breaks
  <2>3. Spells(f[0], bodies, 0)
        BY <2>1, <2>2 DEF Spells
  <2> QED BY <2>3
<1>8. ASSUME NEW i \in 0..n, i \in S /\ i < n
      PROVE  i + 1 \in S
  <2> DEFINE old == f[i]
             body == bodies[i + 1]
             more == f[i + 1]
  <2>1. i + 1 \in 1..n /\ i + 1 \in 0..n /\ (i + 1) - 1 = i
        BY <1>8
  <2>2. Spells(old, bodies, i)
        BY <1>8
  <2>3. body \in Seq(Letter) /\ ~Contains(body, Break)
        BY <2>1
  <2>4. more = old \o (body \o <<Break>>)
        BY <1>4, <1>6, <2>1
  <2> HIDE DEF old, body, more
  <2>5. OneLineMore(more, old, body)
    <3>1. Ended(old)
          BY <2>2 DEF Spells
    <3> QED BY <2>3, <2>4, <3>1, LineMore
  <2>6. {Line(more, e) : e \in Breaks(more)} = {Line(old, e) : e \in Breaks(old)} \cup {body}
        BY <2>5 DEF OneLineMore
  <2>7. {bodies[j] : j \in 1..i+1} = {bodies[j] : j \in 1..i} \cup {body}
    <3>1. 1..i+1 = 1..i \cup {i+1}
          BY <2>1
    <3> QED BY <3>1 DEF body
  <2>8. Spells(more, bodies, i + 1)
        BY <2>2, <2>5, <2>6, <2>7 DEF Spells, OneLineMore
  <2> QED BY <2>1, <2>8 DEF more
<1> HIDE DEF S
<1>9. 0..n \subseteq S
      BY <1>7, <1>8, Counting
<1>10. n \in S
       BY <1>9
<1> QED BY <1>5, <1>6, <1>10 DEF S

\* Nothing is behind the last line.
LEMMA LastLine ==
  ASSUME NEW t, Ended(t)
  PROVE  /\ LineEnds(t) = Breaks(t) \cup {Len(t) + 1} /\ Breaks(t) \subseteq 1..Len(t)
         /\ Line(t, Len(t) + 1) = << >>
PROOF
<1> DEFINE n == Len(t)
           B == Breaks(t)
           e == n + 1
           S == {0} \cup {i \in LineEnds(t) : i < e}
           a == Max(S)
<1>1. t \in Seq(Letter) /\ n \in Nat /\ DOMAIN t = 1..n
      BY DEF Ended
<1>2. B \subseteq 1..n /\ LineEnds(t) = B \cup {n + 1}
      BY <1>1 DEF Breaks, LineEnds
<1>3. n # 0 => n \in B
      BY <1>1 DEF Ended, Breaks
<1>4. Line(t, e) = SubSeq(t, a + 1, e - 1)
      BY Zenon DEF Line
<1>5. S = {0} \cup B
  <2>1. LineEnds(t) = B \cup {e}
        BY <1>2
  <2> HIDE DEF B, n
  <2>2. \A i \in B : i < e
        BY <1>1, <1>2
  <2>3. ~(e < e)
        BY <1>1
  <2> HIDE DEF e
  <2> QED BY <2>1, <2>2, <2>3
<1> HIDE DEF S
<1>6. S \in SUBSET (0..n) /\ S # {} /\ n \in S
  <2> HIDE DEF B, n
  <2> QED BY <1>1, <1>2, <1>3, <1>5
<1>7. a \in S /\ n <= a
      BY <1>1, <1>6, MaxIs
<1> HIDE DEF a
<1>8. a = n
  <2>1. a \in 0..n
        BY <1>6, <1>7
  <2> HIDE DEF n
  <2> QED BY <1>1, <1>7, <2>1
<1>9. SubSeq(t, n + 1, e - 1) = << >>
      BY <1>1
<1> QED BY <1>2, <1>4, <1>8, <1>9

-------------------------------------------------------------------------------
(* strip *)
Inked(s) == {i \in DOMAIN s : s[i] # Blank}
Trim(s) == s = << >> \/ (s[1] # Blank /\ s[Len(s)] # Blank)

\* strip() leaves what is between the first and the last that is not a blank.
LEMMA StripIs ==
  ASSUME NEW s \in Seq(Letter), Inked(s) # {}
  PROVE  \E a, b \in Inked(s) : /\ a <= b /\ Strip(s) = SubSeq(s, a, b)
                                /\ \A i \in Inked(s) : a <= i /\ i <= b
PROOF
<1> DEFINE n == Len(s)
           I == Inked(s)
           a == Min(I)
           b == Max(I)
<1>1. n \in Nat /\ DOMAIN s = 1..n
      OBVIOUS
<1>2. Strip(s) = SubSeq(s, a, b)
      BY DEF Strip, Inked
<1>3. I \in SUBSET (0..n) /\ I \in SUBSET Nat /\ I # {}
      BY <1>1 DEF Inked
<1> HIDE DEF I
<1>4. a \in I /\ \A i \in I : a <= i
      BY <1>3, MinIs
<1>5. b \in I /\ \A i \in I : i <= b
      BY <1>1, <1>3, MaxIs
<1> HIDE DEF a, b
<1> QED BY <1>2, <1>4, <1>5 DEF I

\* Texts with the same elements that are not blanks, at the same places, are
\* stripped to the same.
LEMMA StripSame ==
  ASSUME NEW u \in Seq(Letter), NEW v \in Seq(Letter), Inked(u) = Inked(v),
         \A i \in 1..Len(u) : i <= Len(v) => u[i] = v[i]
  PROVE  Strip(u) = Strip(v)
PROOF
<1>1. CASE Inked(u) = {}
      BY <1>1 DEF Strip, Inked
<1>2. CASE Inked(u) # {}
  <2>1. Strip(u) = SubSeq(u, Min(Inked(u)), Max(Inked(u))) /\ Strip(v) = SubSeq(v, Min(Inked(u)), Max(Inked(u)))
        BY <1>2 DEF Strip, Inked
  <2> DEFINE I == Inked(u)
             a == Min(I)
             b == Max(I)
  <2>2. I \subseteq 1..Len(u) /\ I \subseteq 1..Len(v)
        BY DEF Inked
  <2> HIDE DEF I
  <2>3. a \in I /\ b \in I /\ a <= b
    <3>1. I \in SUBSET Nat /\ I \in SUBSET (0..Len(u)) /\ I # {} /\ Len(u) \in Nat
          BY <1>2, <2>2 DEF I
    <3>2. a \in I
          BY <3>1, MinIs
    <3>3. b \in I /\ \A i \in I : i <= b
          BY <3>1, MaxIs
    <3> HIDE DEF a, b
    <3> QED BY <3>2, <3>3
  <2> HIDE DEF a, b
  <2>4. a \in 1..Len(u) /\ a \in 1..Len(v) /\ b \in 1..Len(u) /\ b \in 1..Len(v) /\ a <= b
        BY <2>2, <2>3
  <2> DEFINE x == SubSeq(u, a, b)
             y == SubSeq(v, a, b)
  <2>5. a \in Nat /\ b \in Nat /\ 1 <= a /\ a <= b + 1 /\ b <= Len(u) /\ b <= Len(v)
        BY <2>4
  <2>6. x \in Seq(Letter) /\ Len(x) = b - a + 1 /\ \A i \in 1..b-a+1 : x[i] = u[a + i - 1]
        BY <2>5, PartIs
  <2>7. y \in Seq(Letter) /\ Len(y) = b - a + 1 /\ \A i \in 1..b-a+1 : y[i] = v[a + i - 1]
        BY <2>5, PartIs
  <2> HIDE DEF x, y
  <2>8. \A i \in 1..Len(x) : x[i] = y[i]
    <3> SUFFICES ASSUME NEW i \in 1..b-a+1 PROVE x[i] = y[i]
        BY <2>6
    <3>1. a + i - 1 \in 1..Len(u) /\ a + i - 1 <= Len(v)
          BY <2>4
    <3> QED BY <2>6, <2>7, <3>1
  <2>9. x = y
        BY <2>6, <2>7, <2>8, SameText
  <2> QED BY <2>1, <2>9 DEF x, y, a, b, I
<1> QED BY <1>1, <1>2

\* What strip() leaves as it is has no blanks around it.
LEMMA StripTrims ==
  ASSUME NEW s \in Seq(Letter)
  PROVE  Strip(s) = s <=> Trim(s)
PROOF
<1> DEFINE n == Len(s)
<1>1. n \in Nat /\ DOMAIN s = 1..n
      OBVIOUS
<1>2. CASE Inked(s) = {}
  <2>1. Strip(s) = << >>
        BY <1>2 DEF Strip, Inked
  <2>2. s # << >> => s[1] = Blank
        BY <1>1, <1>2 DEF Inked
  <2> QED BY <2>1, <2>2 DEF Trim
<1>3. CASE Inked(s) # {}
  <2>1. PICK a, b \in Inked(s) : /\ a <= b /\ Strip(s) = SubSeq(s, a, b)
                                 /\ \A i \in Inked(s) : a <= i /\ i <= b
        BY <1>3, StripIs
  <2>2. a \in 1..n /\ b \in 1..n /\ a <= b /\ s[a] # Blank /\ s[b] # Blank
        BY <1>1, <2>1 DEF Inked
  <2>3. Len(SubSeq(s, a, b)) = b - a + 1
        BY <2>2, PartIs
  <2>4. ASSUME Strip(s) = s PROVE Trim(s)
    <3>1. n = b - a + 1
          BY <2>1, <2>3, <2>4
    <3>2. a = 1 /\ b = n
      <4> HIDE DEF n
      <4> QED BY <1>1, <2>2, <3>1
    <3> QED BY <2>2, <3>2 DEF Trim
  <2>5. ASSUME Trim(s) PROVE Strip(s) = s
    <3>1. 1 \in Inked(s) /\ n \in Inked(s)
          BY <1>1, <2>2, <2>5 DEF Trim, Inked
    <3>2. a <= 1 /\ n <= b
          BY <2>1, <3>1
    <3>3. a = 1 /\ b = n
      <4> HIDE DEF n
      <4> QED BY <1>1, <2>2, <3>2
    <3>4. SubSeq(s, 1, n) = s
      <4> DEFINE L == Letter
      <4>1. s \in Seq(L)
            OBVIOUS
      <4> HIDE DEF L
      <4> QED BY <4>1
    <3> QED BY <2>1, <3>3, <3>4
  <2> QED BY <2>4, <2>5
<1> QED BY <1>2, <1>3

\* A line of the SAL file has a name, = and a value.
Holds(body, u, v) == /\ body \in Seq(Letter) /\ Len(body) = Len(u) + 1 + Len(v)
                     /\ \A i \in 1..Len(u) : body[i] = u[i]
                     /\ body[Len(u) + 1] = Eq
                     /\ \A i \in 1..Len(v) : body[Len(u) + 1 + i] = v[i]

\* The places of such a line.
LEMMA BodyIs ==
  ASSUME NEW u \in Seq(Letter), NEW v \in Seq(Letter)
  PROVE  Holds(Assigned(u, v), u, v)
PROOF
<1> DEFINE m == Len(u)
           n == Len(v)
           head == u \o <<Eq>>
           body == head \o v
<1>1. <<Eq>> \in Seq(Letter) /\ Len(<<Eq>>) = 1 /\ <<Eq>>[1] = Eq
      BY CaseIs
<1>2. head \in Seq(Letter) /\ Len(head) = m + 1
      BY <1>1, Behind
<1>3. /\ \A i \in 1..m : head[i] = u[i]
      /\ \A i \in 1..1 : head[m + i] = <<Eq>>[i]
      BY <1>1, Behind
<1> HIDE DEF head
<1>4. head \in Seq(Letter)
      BY <1>2
<1>5. body \in Seq(Letter) /\ Len(body) = Len(head) + n
      BY <1>4, Behind
<1>6. /\ \A i \in 1..Len(head) : body[i] = head[i]
      /\ \A i \in 1..n : body[Len(head) + i] = v[i]
      BY <1>4, Behind
<1>7. m \in Nat /\ n \in Nat
      OBVIOUS
<1>8. Assigned(u, v) = body
      BY DEF Assigned, head
<1> HIDE DEF m, n, body
<1>9. head[m + 1] = Eq
      BY <1>1, <1>3
<1>10. \A i \in 1..m : body[i] = u[i]
  <2>1. ASSUME NEW i \in 1..m PROVE body[i] = u[i]
    <3>1. i \in 1..Len(head)
          BY <1>2, <1>7
    <3> QED BY <1>3, <1>6, <3>1
  <2> QED BY <2>1
<1>11. body[m + 1] = Eq
  <2>1. m + 1 \in 1..Len(head)
        BY <1>2, <1>7
  <2> QED BY <1>6, <1>9, <2>1
<1>12. \A i \in 1..n : body[m + 1 + i] = v[i]
       BY <1>2, <1>6
<1>13. Len(body) = m + 1 + n
       BY <1>2, <1>5
<1> QED BY <1>5, <1>8, <1>10, <1>11, <1>12, <1>13 DEF Holds, m, n

\* A line is stripped to the name, the = and the value without the blanks at its
\* end.
LEMMA StripBody ==
  ASSUME NEW u \in Seq(Letter), NEW v \in Seq(Letter), Trim(u), NEW body, body = Assigned(u, v)
  PROVE  \E w \in Seq(Letter) : Strip(body) = Assigned(u, w) /\ Strip(w) = Strip(v)
PROOF
<1> DEFINE m == Len(u)
           n == Len(v)
<1>1. /\ body \in Seq(Letter) /\ Len(body) = m + 1 + n
      /\ \A i \in 1..m : body[i] = u[i]
      /\ body[m + 1] = Eq
      /\ \A i \in 1..n : body[m + 1 + i] = v[i]
  <2>1. Holds(body, u, v)
        BY BodyIs
  <2> QED BY <2>1 DEF Holds
<1>2. m \in Nat /\ n \in Nat /\ DOMAIN body = 1..m+1+n /\ DOMAIN v = 1..n
      BY <1>1
<1>3. m + 1 \in Inked(body) /\ 1 \in Inked(body)
  <2>1. Eq # Blank
        BY CaseIs
  <2>2. m # 0 => u[1] # Blank
        BY DEF Trim
  <2>3. body[1] # Blank
    <3> HIDE DEF m
    <3>1. CASE m = 0
          BY <1>1, <2>1, <3>1
    <3>2. CASE m # 0
          BY <1>1, <1>2, <2>2, <3>2
    <3> QED BY <3>1, <3>2
  <2> QED BY <1>1, <1>2, <2>1, <2>3 DEF Inked
<1>4. PICK a, z \in Inked(body) : /\ a <= z /\ Strip(body) = SubSeq(body, a, z)
                                  /\ \A i \in Inked(body) : a <= i /\ i <= z
      BY <1>1, <1>3, StripIs
<1>5. a = 1 /\ z \in m+1..m+1+n
  <2>1. a \in 1..m+1+n /\ z \in 1..m+1+n
        BY <1>2 DEF Inked
  <2>2. a <= 1 /\ m + 1 <= z
        BY <1>3, <1>4
  <2> HIDE DEF m, n
  <2> QED BY <1>2, <2>1, <2>2
<1> DEFINE k == z - (m + 1)
           w == SubSeq(v, 1, k)
           s == SubSeq(body, 1, z)
<1> HIDE DEF m, n
<1>6. k \in 0..n /\ z = m + 1 + k
      BY <1>2, <1>5
<1> HIDE DEF k
<1>7. w \in Seq(Letter) /\ Len(w) = k /\ \A i \in 1..k : w[i] = v[i]
  <2>1. 1 \in Nat /\ k \in Nat /\ 1 <= 1 /\ 1 <= k + 1 /\ k <= Len(v)
        BY <1>2, <1>6 DEF n
  <2>2. w \in Seq(Letter) /\ Len(w) = k - 1 + 1 /\ \A i \in 1..k-1+1 : w[i] = v[1 + i - 1]
        BY <2>1, PartIs
  <2> HIDE DEF w
  <2>3. k - 1 + 1 = k /\ \A i \in 1..k : 1 + i - 1 = i
        BY <2>1
  <2> QED BY <2>2, <2>3
<1>8. s \in Seq(Letter) /\ Len(s) = z /\ \A i \in 1..z : s[i] = body[i]
  <2>1. 1 \in Nat /\ z \in Nat /\ 1 <= 1 /\ 1 <= z + 1 /\ z <= Len(body)
        BY <1>1, <1>2, <1>6
  <2>2. s \in Seq(Letter) /\ Len(s) = z - 1 + 1 /\ \A i \in 1..z-1+1 : s[i] = body[1 + i - 1]
        BY <1>1, <2>1, PartIs
  <2> HIDE DEF s
  <2>3. z - 1 + 1 = z /\ \A i \in 1..z : 1 + i - 1 = i
        BY <2>1
  <2> QED BY <2>2, <2>3
<1> HIDE DEF w, s
<1> DEFINE t == Assigned(u, w)
<1>9. /\ t \in Seq(Letter) /\ Len(t) = m + 1 + k
      /\ \A i \in 1..m : t[i] = u[i]
      /\ t[m + 1] = Eq
      /\ \A i \in 1..k : t[m + 1 + i] = w[i]
  <2>1. Holds(t, u, w)
        BY <1>7, BodyIs
  <2> HIDE DEF t
  <2> QED BY <1>7, <2>1 DEF Holds, m
<1> HIDE DEF t
<1>10. s = t
  <2>1. ASSUME NEW i \in 1..z PROVE s[i] = t[i]
    <3>1. CASE i \in 1..m
          BY <1>1, <1>8, <1>9, <3>1
    <3>2. CASE i = m + 1
          BY <1>1, <1>8, <1>9, <3>2
    <3>3. CASE i > m + 1
      <4> DEFINE j == i - (m + 1)
      <4>1. j \in 1..k /\ j \in 1..n /\ m + 1 + j = i
            BY <1>2, <1>6, <3>3
      <4> HIDE DEF j
      <4>2. s[i] = v[j]
            BY <1>1, <1>8, <4>1
      <4>3. t[i] = w[j]
            BY <1>9, <4>1
      <4> QED BY <1>7, <4>1, <4>2, <4>3
    <3> QED BY <1>2, <1>6, <3>1, <3>2, <3>3
  <2>2. Len(s) = Len(t)
        BY <1>6, <1>8, <1>9
  <2> QED BY <1>8, <1>9, <2>1, <2>2, SameText
<1>11. Inked(w) = Inked(v)
  <2>1. DOMAIN w = 1..k
        BY <1>7
  <2>2. ASSUME NEW i \in 1..n, v[i] # Blank PROVE i <= k
    <3>1. m + 1 + i \in Inked(body)
          BY <1>1, <1>2, <2>2 DEF Inked
    <3>2. m + 1 + i <= z
          BY <1>4, <3>1
    <3> QED BY <1>2, <1>6, <3>2
  <2>3. Inked(w) = {i \in 1..k : w[i] # Blank} /\ Inked(v) = {i \in 1..n : v[i] # Blank}
        BY <1>2, <2>1 DEF Inked
  <2> QED BY <1>2, <1>6, <1>7, <2>2, <2>3
<1>12. Strip(w) = Strip(v)
       BY <1>7, <1>11, StripSame
<1> QED BY <1>4, <1>5, <1>7, <1>10, <1>12 DEF s, t

\* A field whose name has no = is parted after the name.
LEMMA PartitionBody ==
  ASSUME NEW u \in Seq(Letter), NEW w \in Seq(Letter), \A i \in 1..Len(u) : u[i] # Eq
  PROVE  Partition(Assigned(u, w)) = <<u, w>>
PROOF
<1> DEFINE m == Len(u)
           n == Len(w)
           t == Assigned(u, w)
           e == NameEnd(t)
<1>1. /\ t \in Seq(Letter) /\ Len(t) = m + 1 + n
      /\ \A i \in 1..m : t[i] = u[i]
      /\ t[m + 1] = Eq
      /\ \A i \in 1..n : t[m + 1 + i] = w[i]
  <2>1. Holds(t, u, w)
        BY BodyIs
  <2> HIDE DEF t
  <2> QED BY <2>1 DEF Holds
<1>2. m \in Nat /\ n \in Nat /\ \A i \in 1..m : u[i] # Eq
      OBVIOUS
<1> HIDE DEF m, n, t
<1>3. /\ e \in 1..Len(t)+1
      /\ \A i \in 1..e-1 : t[i] # Eq
      /\ e <= Len(t) => t[e] = Eq
      BY <1>1, NameEndIs
<1>4. Partition(t) = <<SubSeq(t, 1, e - 1), SubSeq(t, e + 1, Len(t))>>
      BY <1>1, PartitionIs DEF ValueOf
<1> HIDE DEF e
<1>5. e = m + 1
  <2>1. e \in 1..m+1+n+1
        BY <1>1, <1>3
  <2>2. ~(m + 1 < e)
    <3> SUFFICES ASSUME m + 1 < e PROVE FALSE
        OBVIOUS
    <3>1. m + 1 \in 1..e-1
          BY <1>2, <2>1
    <3> QED BY <1>1, <1>3, <3>1
  <2>3. ~(e < m + 1)
    <3> SUFFICES ASSUME e < m + 1 PROVE FALSE
        OBVIOUS
    <3>1. e \in 1..m /\ e <= Len(t)
          BY <1>1, <1>2, <2>1
    <3> QED BY <1>1, <1>2, <1>3, <3>1
  <2> QED BY <1>2, <2>1, <2>2, <2>3
<1>6. SubSeq(t, 1, m) = u
  <2> DEFINE x == SubSeq(t, 1, m)
  <2>1. 1 \in Nat /\ 1 <= 1 /\ 1 <= m + 1 /\ m <= Len(t)
        BY <1>1, <1>2
  <2>2. x \in Seq(Letter) /\ Len(x) = m - 1 + 1 /\ \A i \in 1..m-1+1 : x[i] = t[1 + i - 1]
        BY <1>1, <1>2, <2>1, PartIs
  <2> HIDE DEF x
  <2>3. m - 1 + 1 = m /\ \A i \in 1..m : 1 + i - 1 = i
        BY <1>2
  <2>4. Len(x) = Len(u) /\ \A i \in 1..Len(x) : x[i] = u[i]
        BY <1>1, <2>2, <2>3 DEF m
  <2>5. x = u
        BY <2>2, <2>4, SameText
  <2> QED BY <2>5 DEF x
<1>7. SubSeq(t, m + 2, m + 1 + n) = w
  <2> DEFINE x == SubSeq(t, m + 2, m + 1 + n)
  <2>1. m + 2 \in Nat /\ m + 1 + n \in Nat /\ 1 <= m + 2 /\ m + 2 <= (m + 1 + n) + 1 /\ m + 1 + n <= Len(t)
        BY <1>1, <1>2
  <2>2. /\ x \in Seq(Letter) /\ Len(x) = (m + 1 + n) - (m + 2) + 1
        /\ \A i \in 1..(m + 1 + n) - (m + 2) + 1 : x[i] = t[(m + 2) + i - 1]
        BY <1>1, <2>1, PartIs
  <2> HIDE DEF x
  <2>3. (m + 1 + n) - (m + 2) + 1 = n /\ \A i \in 1..n : (m + 2) + i - 1 = m + 1 + i
        BY <1>2
  <2>4. Len(x) = Len(w) /\ \A i \in 1..Len(x) : x[i] = w[i]
        BY <1>1, <2>2, <2>3 DEF n
  <2>5. x = w
        BY <2>2, <2>4, SameText
  <2> QED BY <2>5 DEF x
<1>8. e - 1 = m /\ e + 1 = m + 2 /\ Len(t) = m + 1 + n
      BY <1>1, <1>2, <1>5
<1> QED BY <1>4, <1>6, <1>7, <1>8 DEF t

\* A line of the SAL file is read as the name and the value it was written from.
LEMMA LineRead ==
  ASSUME NEW k \in Seq(Letter), NEW v \in Seq(Letter),
         \A i \in 1..Len(k) : k[i] # Eq, Strip(k) = k, ToLower(ToUpper(k)) = k
  PROVE  LET kv == Partition(Strip(Body(k, v)))
         IN ToLower(Strip(kv[1])) = k /\ Strip(kv[2]) = Strip(v)
PROOF
<1> DEFINE u == ToUpper(k)
           body == Assigned(u, v)
<1>1. u \in Seq(Letter) /\ Len(u) = Len(k) /\ \A i \in 1..Len(k) : u[i] = Upper[k[i]] /\ k[i] \in Letter
      BY CasesAreText
<1>2. Trim(k)
      BY StripTrims
<1> DEFINE m == Len(k)
<1>3. m \in Nat
      OBVIOUS
<1>4. \A i \in 1..m : u[i] # Eq
      BY <1>1, CaseIs
<1>5. Trim(u)
  <2>1. CASE m = 0
        BY <1>1, <2>1 DEF Trim
  <2>2. CASE m # 0
    <3>1. k[1] # Blank /\ k[m] # Blank
          BY <1>2, <2>2 DEF Trim
    <3>2. 1 \in 1..m /\ m \in 1..m
          BY <1>3, <2>2
    <3>3. u[1] # Blank /\ u[m] # Blank
          BY <1>1, <3>1, <3>2, CaseIs
    <3> QED BY <1>1, <3>3 DEF Trim
  <2> QED BY <2>1, <2>2
<1> HIDE DEF u
<1>6. PICK w \in Seq(Letter) : Strip(body) = Assigned(u, w) /\ Strip(w) = Strip(v)
      BY <1>1, <1>5, StripBody
<1>7. Partition(Assigned(u, w)) = <<u, w>>
      BY <1>1, <1>4, PartitionBody
<1>8. Strip(u) = u
      BY <1>1, <1>5, StripTrims
<1> DEFINE kv == Partition(Strip(Body(k, v)))
<1>9. Body(k, v) = body
      BY DEF Body, u
<1> HIDE DEF body
<1>10. kv = <<u, w>>
       BY <1>6, <1>7, <1>9
<1> HIDE DEF kv
<1>11. kv[1] = u /\ kv[2] = w
       BY <1>10
<1>12. ToLower(Strip(kv[1])) = k /\ Strip(kv[2]) = Strip(v)
       BY <1>6, <1>8, <1>11 DEF u
<1> QED BY <1>12 DEF kv

-------------------------------------------------------------------------------
(* The whole way *)
\* The value of a name is that of one of its fields.
LEMMA ValueIs ==
  ASSUME NEW fields \in Seq(Seq(Letter)), NEW k \in Named(fields)
  PROVE  \E f \in ToSet(fields) : Name(f) = k /\ Value(fields, k) = ValueOf(f)
PROOF
<1> DEFINE n == Len(fields)
           S == Sent(fields, k)
           m == Max(S)
<1>1. n \in Nat /\ DOMAIN fields = 1..n
      OBVIOUS
<1>2. S \subseteq 1..n /\ \A i \in S : Name(fields[i]) = k
      BY <1>1 DEF Sent
<1>3. S # {}
  <2>1. PICK f \in ToSet(fields) : k = Name(f)
        BY DEF Named
  <2>2. PICK i \in 1..n : f = fields[i]
        BY <1>1, <2>1 DEF ToSet
  <2> QED BY <1>1, <2>1, <2>2 DEF Sent
<1> HIDE DEF S
<1>4. S \in SUBSET (0..n)
  <2>1. 1..n \subseteq 0..n
        BY <1>1
  <2> QED BY <1>2, <2>1
<1>5. m \in S
      BY <1>1, <1>3, <1>4, MaxIs
<1>6. Value(fields, k) = ValueOf(fields[m])
      BY DEF Value, S
<1> HIDE DEF m
<1>7. fields[m] \in ToSet(fields)
      BY <1>1, <1>2, <1>5 DEF ToSet
<1> QED BY <1>2, <1>5, <1>6, <1>7

\* A line has no line break in it and a =.
LEMMA BodyIsLine ==
  ASSUME NEW k \in Seq(Letter), NEW v \in Seq(Letter), ~Contains(k, Break), ~Contains(v, Break)
  PROVE  Body(k, v) \in Seq(Letter) /\ ~Contains(Body(k, v), Break) /\ Contains(Body(k, v), Eq)
PROOF
<1> DEFINE u == ToUpper(k)
           m == Len(k)
           n == Len(v)
           body == Assigned(u, v)
<1>1. u \in Seq(Letter) /\ Len(u) = m /\ \A i \in 1..m : u[i] = Upper[k[i]] /\ k[i] \in Letter
      BY CasesAreText
<1>2. m \in Nat /\ n \in Nat /\ (\A i \in 1..m : k[i] # Break) /\ \A i \in 1..n : v[i] # Break
      BY DEF Contains
<1>3. \A i \in 1..m : u[i] # Break
      BY <1>1, <1>2, CaseIs
<1> HIDE DEF u, body
<1>4. Holds(body, u, v)
      BY <1>1, BodyIs DEF body
<1>5. /\ body \in Seq(Letter) /\ Len(body) = m + 1 + n
      /\ \A i \in 1..m : body[i] = u[i]
      /\ body[m + 1] = Eq
      /\ \A i \in 1..n : body[m + 1 + i] = v[i]
      BY <1>1, <1>4 DEF Holds
<1> HIDE DEF m, n
<1>6. ASSUME NEW i \in 1..Len(body) PROVE body[i] # Break
  <2>1. CASE i \in 1..m
        BY <1>3, <1>5, <2>1
  <2>2. CASE i = m + 1
        BY <1>5, <2>2, CaseIs
  <2>3. CASE i > m + 1
    <3> DEFINE j == i - (m + 1)
    <3>1. j \in 1..n /\ m + 1 + j = i
          BY <1>2, <1>5, <2>3
    <3> HIDE DEF j
    <3>2. body[i] = v[j]
          BY <1>5, <3>1
    <3> QED BY <1>2, <3>1, <3>2
  <2> QED BY <1>2, <1>5, <2>1, <2>2, <2>3
<1>7. Contains(body, Eq)
  <2>1. m + 1 \in 1..Len(body)
        BY <1>2, <1>5
  <2> QED BY <1>5, <2>1 DEF Contains
<1>8. ~Contains(body, Break)
      BY <1>6 DEF Contains
<1>9. Body(k, v) = body
      BY DEF Body, body, u
<1> QED BY <1>5, <1>7, <1>8, <1>9

\* A dict of entries that agree with value.
LEMMA DictAgrees ==
  ASSUME NEW N \in Nat, NEW E \in SUBSET (0..N), NEW entries, DOMAIN entries = E,
         NEW W, NEW value, value = [k \in W |-> value[k]],
         \A e \in E : entries[e][1] \in W /\ entries[e][2] = value[entries[e][1]],
         \A k \in W : \E e \in E : entries[e][1] = k
  PROVE  Dict(entries) = value
PROOF
<1>1. {entries[e][1] : e \in DOMAIN entries} = W
      OBVIOUS
<1> DEFINE At(k) == {e \in DOMAIN entries : entries[e][1] = k}
<1>2. Dict(entries) = [k \in W |-> entries[Max(At(k))][2]]
      BY <1>1 DEF Dict
<1>3. ASSUME NEW k \in W PROVE entries[Max(At(k))][2] = value[k]
  <2> DEFINE S == At(k)
             m == Max(S)
  <2>1. S \in SUBSET (0..N) /\ S # {} /\ \A e \in S : e \in E /\ entries[e][1] = k
        OBVIOUS
  <2> HIDE DEF S
  <2>2. m \in S
        BY <2>1, MaxIs
  <2> HIDE DEF m
  <2>3. entries[m][2] = value[k]
        BY <2>1, <2>2
  <2> QED BY <2>3 DEF m, S
<1> HIDE DEF At
<1> QED BY <1>2, <1>3

\* The front-end reads what the server has sent.
LEMMA HandoffRead ==
  ASSUME NEW fields \in Seq(Seq(Letter)),
         \A f \in ToSet(fields) : Plain(f)
  PROVE  ReadSal(SalText(FromKv(HandoffKv(fields))))
           = [k \in {k \in Named(fields) : Value(fields, k) # << >>} |-> Strip(Value(fields, k))]
PROOF
<1> DEFINE kv == HandoffKv(fields)
           W == {k \in DOMAIN kv : kv[k] # << >>}
           text == SalText(FromKv(kv))
<1>1. DOMAIN kv = Named(fields) /\ \A k \in Named(fields) : kv[k] = Value(fields, k)
      BY HandoffKvIs
<1> HIDE DEF kv
<1>2. W = {k \in Named(fields) : Value(fields, k) # << >>} /\ W \subseteq Named(fields)
      BY <1>1
<1>3. ASSUME NEW k \in W
      PROVE  /\ k \in Seq(Letter) /\ (\A i \in 1..Len(k) : k[i] # Eq) /\ Strip(k) = k
             /\ ToLower(ToUpper(k)) = k /\ ~Contains(k, Break)
             /\ kv[k] \in Seq(Letter) /\ ~Contains(kv[k], Break)
  <2>1. k \in Named(fields) /\ kv[k] = Value(fields, k)
        BY <1>1
  <2>2. PICK f \in ToSet(fields) : Name(f) = k /\ Value(fields, k) = ValueOf(f)
        BY <2>1, ValueIs
  <2>3. f \in Seq(Letter)
        BY DEF ToSet
  <2>4. ~Contains(f, Break) /\ Strip(Name(f)) = Name(f)
        BY DEF Plain
  <2>5. /\ ValueOf(f) \in Seq(Letter) /\ Name(f) \in Seq(Letter)
        /\ \A i \in 1..Len(Name(f)) : Name(f)[i] # Eq
        /\ ToLower(ToUpper(Name(f))) = Name(f)
        /\ ~Contains(Name(f), Break) /\ ~Contains(ValueOf(f), Break)
        BY <2>3, <2>4, FieldIs
  <2> QED BY <2>1, <2>2, <2>4, <2>5
<1>4. IsFiniteSet(DOMAIN kv)
      BY <1>1, NamesAreFinite
<1>5. OneLineEach(text, kv, W)
      BY <1>4, SalTextIs
<1> HIDE DEF W, text
<1>6. PICK n \in Nat : \E name \in [1..n -> W] :
        /\ \A k \in W : \E i \in 1..n : name[i] = k
        /\ text = FlattenSeq([i \in 1..n |-> Body(name[i], kv[name[i]]) \o <<Break>>])
      BY <1>5 DEF OneLineEach
<1>7. PICK name \in [1..n -> W] :
        /\ \A k \in W : \E i \in 1..n : name[i] = k
        /\ text = FlattenSeq([i \in 1..n |-> Body(name[i], kv[name[i]]) \o <<Break>>])
      BY <1>6
<1> DEFINE M == Seq(Letter)
           bodies == [i \in 1..n |-> Body(name[i], kv[name[i]])]
<1>8. \A i \in 1..n : /\ Body(name[i], kv[name[i]]) \in Seq(Letter)
                      /\ ~Contains(Body(name[i], kv[name[i]]), Break)
                      /\ Contains(Body(name[i], kv[name[i]]), Eq)
  <2> SUFFICES ASSUME NEW k \in W
               PROVE  /\ Body(k, kv[k]) \in Seq(Letter) /\ ~Contains(Body(k, kv[k]), Break)
                      /\ Contains(Body(k, kv[k]), Eq)
      BY <1>7
  <2> QED BY <1>3, BodyIsLine
<1>9. bodies \in [1..n -> M]
  <2>1. \A i \in 1..n : Body(name[i], kv[name[i]]) \in M
        BY <1>8
  <2> HIDE DEF M
  <2> QED BY <2>1
<1>10. \A i \in 1..n : bodies[i] = Body(name[i], kv[name[i]])
       OBVIOUS
<1>11. text = FlattenSeq([i \in 1..n |-> bodies[i] \o <<Break>>])
  <2>1. [i \in 1..n |-> bodies[i] \o <<Break>>] = [i \in 1..n |-> Body(name[i], kv[name[i]]) \o <<Break>>]
        BY <1>10
  <2> QED BY <1>7, <2>1
<1>12. \A i \in 1..n : ~Contains(bodies[i], Break) /\ Contains(bodies[i], Eq)
       BY <1>8, <1>10
<1> HIDE DEF bodies
<1>13. Spells(text, bodies, n)
       BY <1>9, <1>11, <1>12, LinesAre
<1> DEFINE N == Len(text)
           B == Breaks(text)
<1>14. Ended(text) /\ {Line(text, e) : e \in B} = {bodies[j] : j \in 1..n}
       BY <1>13 DEF Spells
<1>15. LineEnds(text) = B \cup {N + 1} /\ B \subseteq 1..N /\ Line(text, N + 1) = << >>
       BY <1>14, LastLine
<1>16. N \in Nat
       BY <1>14 DEF Ended
<1>17. ASSUME NEW e \in B PROVE \E k \in W : Line(text, e) = Body(k, kv[k])
  <2>1. Line(text, e) \in {bodies[j] : j \in 1..n}
        BY <1>14
  <2>2. PICK j \in 1..n : Line(text, e) = bodies[j]
        BY <2>1
  <2> QED BY <1>7, <1>10, <2>2
<1>18. ASSUME NEW k \in W PROVE \E e \in B : Line(text, e) = Body(k, kv[k])
  <2>1. PICK j \in 1..n : name[j] = k
        BY <1>7
  <2>2. bodies[j] = Body(k, kv[k])
        BY <1>10, <2>1
  <2>3. bodies[j] \in {Line(text, e) : e \in B}
        BY <1>14
  <2> QED BY <2>2, <2>3
<1>19. \A e \in B : Contains(Line(text, e), Eq)
       BY <1>12, <1>14
<1> DEFINE ends == {e \in LineEnds(text) : Contains(Line(text, e), Eq)}
<1>20. ends = B
  <2>1. ~Contains(Line(text, N + 1), Eq)
        BY <1>15 DEF Contains
  <2> HIDE DEF N, B
  <2> QED BY <1>15, <1>19, <2>1
<1> DEFINE entry(e) == LET r == Partition(Strip(Line(text, e))) IN <<ToLower(Strip(r[1])), Strip(r[2])>>
           entries == [e \in ends |-> entry(e)]
           value == [k \in W |-> Strip(kv[k])]
<1>21. ReadSal(text) = Dict(entries)
       BY DEF ReadSal
<1> HIDE DEF N, B, ends
<1>22. ASSUME NEW k \in W, NEW e \in B, Line(text, e) = Body(k, kv[k])
       PROVE  entry(e) = <<k, Strip(kv[k])>>
  <2> DEFINE r == Partition(Strip(Body(k, kv[k])))
  <2>1. ToLower(Strip(r[1])) = k /\ Strip(r[2]) = Strip(kv[k])
        BY <1>3, LineRead
  <2>2. entry(e) = <<ToLower(Strip(r[1])), Strip(r[2])>>
        BY <1>22
  <2> HIDE DEF r, entry
  <2> QED BY <2>1, <2>2
<1> HIDE DEF entry
<1>23. DOMAIN entries = B /\ \A e \in B : entries[e] = entry(e)
       BY <1>20
<1>24. value = [k \in W |-> value[k]] /\ \A k \in W : value[k] = Strip(kv[k])
       OBVIOUS
<1> HIDE DEF entries, value
<1>25. \A e \in B : entries[e][1] \in W /\ entries[e][2] = value[entries[e][1]]
  <2> SUFFICES ASSUME NEW e \in B PROVE entries[e][1] \in W /\ entries[e][2] = value[entries[e][1]]
      OBVIOUS
  <2>1. PICK k \in W : Line(text, e) = Body(k, kv[k])
        BY <1>17
  <2>2. entries[e] = <<k, Strip(kv[k])>>
        BY <1>22, <1>23, <2>1
  <2>3. entries[e][1] = k /\ entries[e][2] = Strip(kv[k])
        BY <2>2
  <2> QED BY <1>24, <2>3
<1>26. \A k \in W : \E e \in B : entries[e][1] = k
  <2> SUFFICES ASSUME NEW k \in W PROVE \E e \in B : entries[e][1] = k
      OBVIOUS
  <2>1. PICK e \in B : Line(text, e) = Body(k, kv[k])
        BY <1>18
  <2>2. entries[e] = <<k, Strip(kv[k])>>
        BY <1>22, <1>23, <2>1
  <2> QED BY <2>2
<1>27. B \in SUBSET (0..N)
  <2>1. 1..N \subseteq 0..N
        BY <1>16
  <2> QED BY <1>15, <2>1
<1>28. Dict(entries) = value
  <2>1. DOMAIN entries = B /\ value = [k \in W |-> value[k]]
        BY <1>23, <1>24
  <2> QED BY <1>16, <1>25, <1>26, <1>27, <2>1, DictAgrees
<1>29. \A k \in W : value[k] = Strip(Value(fields, k))
       BY <1>1, <1>2, <1>24
<1>30. Dict(entries) = [k \in W |-> Strip(Value(fields, k))]
       BY <1>24, <1>28, <1>29
<1> QED BY <1>2, <1>21, <1>30 DEF text, kv

-------------------------------------------------------------------------------
(* The theorems                                                            *)

\* read_sal_file as a whole, on what the two functions before it have made of
\* the fields.
LEMMA ReadStep ==
  ASSUME call \in Calls, ReadSalFile, call.name = "parse_handoff_kv",
         result.value = SalText(FromKv(HandoffKv(call.fields)))
  PROVE  FrontEndReadsHandoff'
PROOF
<1> DEFINE fields == call.fields
           names == {k \in Named(fields) : Value(fields, k) # << >>}
           read == [k \in names |-> Strip(Value(fields, k))]
           Good(r) == (\A f \in ToSet(fields) : Plain(f)) => r.value = read
<1>1. fields \in Handoffs
      BY DEF Calls
<1>2. fields \in Seq(Seq(Letter))
      BY <1>1, HandoffsAssumption DEF Letter
<1>3. call' = call /\ result' = Returned(ReadSal(result.value))
      BY DEF ReadSalFile
<1>4. result'.value = ReadSal(SalText(FromKv(HandoffKv(fields))))
      BY <1>3 DEF Returned
<1>5. Good(result')
  <2> SUFFICES ASSUME \A f \in ToSet(fields) : Plain(f)
               PROVE  result'.value = read
      OBVIOUS
  <2> HIDE DEF fields
  <2>1. ReadSal(SalText(FromKv(HandoffKv(fields)))) = read
        BY <1>2, HandoffRead
  <2> QED BY <1>4, <2>1
<1>6. call' = call /\ Good(result') => FrontEndReadsHandoff'
      BY DEF FrontEndReadsHandoff, IsOf
<1> QED BY <1>3, <1>5, <1>6

\* What parse_handoff_kv and write_sal_file hand on is made of the fields.
Handed == /\ result.is \in {"handoff", "file"} => call.name = "parse_handoff_kv"
          /\ result.is = "handoff" => result.value = FromKv(HandoffKv(call.fields))
          /\ result.is = "file" => result.value = SalText(FromKv(HandoffKv(call.fields)))

\* What a function has handed on or returned is right.
Right == /\ call \in Calls
         /\ Handed
         /\ ObscuringLosesNothing
         /\ CutListIsPrefix
         /\ FrontEndReadsHandoff
         /\ PathIsOneArgument

\* No function has run yet.
LEMMA RightInit ==
  ASSUME Init
  PROVE  Right
<1>1. call \in Calls /\ result.is = "pending" /\ result = Pending
      BY DEF Init, Pending
<1>2. Handed
      BY <1>1 DEF Handed
<1>3. ObscuringLosesNothing
      BY <1>1 DEF ObscuringLosesNothing, IsOf
<1>4. FrontEndReadsHandoff
      BY <1>1 DEF FrontEndReadsHandoff, IsOf
<1>5. CutListIsPrefix /\ PathIsOneArgument
      BY <1>1 DEF CutListIsPrefix, PathIsOneArgument
<1> QED BY <1>1, <1>2, <1>3, <1>4, <1>5 DEF Right

\* A function says nothing of what another one returns.
LEMMA OthersHold ==
  ASSUME call' = call
  PROVE  /\ call.name # "obscure_password" => ObscuringLosesNothing'
         /\ call.name \notin {"parse_game_list", "parse_char_list"} => CutListIsPrefix'
         /\ call.name # "parse_handoff_kv" => FrontEndReadsHandoff'
         /\ call.name # "build_command" => PathIsOneArgument'
<1>1. call.name # "obscure_password" => ObscuringLosesNothing'
      BY DEF ObscuringLosesNothing, IsOf
<1>2. call.name \notin {"parse_game_list", "parse_char_list"} => CutListIsPrefix'
      BY DEF CutListIsPrefix
<1>3. call.name # "parse_handoff_kv" => FrontEndReadsHandoff'
      BY DEF FrontEndReadsHandoff, IsOf
<1>4. call.name # "build_command" => PathIsOneArgument'
      BY DEF PathIsOneArgument
<1> QED BY <1>1, <1>2, <1>3, <1>4

\* Every function hands on and returns what is right.
LEMMA RightNext ==
  ASSUME Right, [Next]_vars
  PROVE  Right'
PROOF
<1>1. call \in Calls /\ Handed
      BY DEF Right
<1>2. call' = call
      BY DEF Next, vars, ObscurePassword, ParseList, SelectCharacter, WriteSalFile, ReadSalFile,
             BuildCommand
<1>3. call' \in Calls
      BY <1>1, <1>2
<1>4. ASSUME result'.is \notin {"handoff", "file"} PROVE Handed'
      BY <1>4 DEF Handed
<1>5. CASE ObscurePassword
  <2>1. call.name = "obscure_password" /\ result'.is \notin {"handoff", "file"}
        BY <1>5 DEF ObscurePassword, Raised, Returned
  <2>2. ObscuringLosesNothing'
        BY <1>1, <1>5, ObscureStep
  <2>3. CutListIsPrefix' /\ FrontEndReadsHandoff' /\ PathIsOneArgument'
        BY <1>2, <2>1, OthersHold
  <2> QED BY <1>3, <1>4, <2>1, <2>2, <2>3 DEF Right
<1>6. CASE ParseList
  <2>1. /\ call.name \in {"parse_game_list", "parse_char_list"}
        /\ result'.is \notin {"handoff", "file"}
        BY <1>6 DEF ParseList, Raised, Returned
  <2>2. CutListIsPrefix'
        BY <1>1, <1>6, ParseStep
  <2>3. ObscuringLosesNothing' /\ FrontEndReadsHandoff' /\ PathIsOneArgument'
        BY <1>2, <2>1, OthersHold
  <2> QED BY <1>3, <1>4, <2>1, <2>2, <2>3 DEF Right
<1>7. CASE SelectCharacter
  <2>1. /\ call.name = "parse_handoff_kv"
        /\ result'.is = "handoff" /\ result'.value = FromKv(HandoffKv(call.fields))
        BY <1>7 DEF SelectCharacter
  <2>2. Handed'
        BY <1>2, <2>1 DEF Handed
  <2>3. FrontEndReadsHandoff'
        BY <2>1 DEF FrontEndReadsHandoff, IsOf
  <2>4. ObscuringLosesNothing' /\ CutListIsPrefix' /\ PathIsOneArgument'
        BY <1>2, <2>1, OthersHold
  <2> QED BY <1>3, <2>2, <2>3, <2>4 DEF Right
<1>8. CASE WriteSalFile
  <2>1. /\ result.is = "handoff"
        /\ result'.is = "file" /\ result'.value = SalText(result.value)
        BY <1>8 DEF WriteSalFile
  <2>2. call.name = "parse_handoff_kv" /\ result.value = FromKv(HandoffKv(call.fields))
        BY <1>1, <2>1 DEF Handed
  <2>3. Handed'
        BY <1>2, <2>1, <2>2 DEF Handed
  <2>4. FrontEndReadsHandoff'
        BY <2>1 DEF FrontEndReadsHandoff, IsOf
  <2>5. ObscuringLosesNothing' /\ CutListIsPrefix' /\ PathIsOneArgument'
        BY <1>2, <2>2, OthersHold
  <2> QED BY <1>3, <2>3, <2>4, <2>5 DEF Right
<1>9. CASE ReadSalFile
  <2>1. result.is = "file" /\ result'.is \notin {"handoff", "file"}
        BY <1>9 DEF ReadSalFile, Returned
  <2>2. /\ call.name = "parse_handoff_kv"
        /\ result.value = SalText(FromKv(HandoffKv(call.fields)))
        BY <1>1, <2>1 DEF Handed
  <2>3. FrontEndReadsHandoff'
        BY <1>1, <1>9, <2>2, ReadStep
  <2>4. ObscuringLosesNothing' /\ CutListIsPrefix' /\ PathIsOneArgument'
        BY <1>2, <2>2, OthersHold
  <2> QED BY <1>3, <1>4, <2>1, <2>3, <2>4 DEF Right
<1>10. CASE BuildCommand
  <2>1. call.name = "build_command" /\ result'.is \notin {"handoff", "file"}
        BY <1>10 DEF BuildCommand, ShlexSplit, Raised, Returned
  <2>2. PathIsOneArgument'
        BY <1>1, <1>10, BuildStep
  <2>3. ObscuringLosesNothing' /\ CutListIsPrefix' /\ FrontEndReadsHandoff'
        BY <1>2, <2>1, OthersHold
  <2> QED BY <1>3, <1>4, <2>1, <2>2, <2>3 DEF Right
<1>11. CASE UNCHANGED vars
  <2>1. call' = call /\ result' = result
        BY <1>11 DEF vars
  <2>2. ObscuringLosesNothing' = ObscuringLosesNothing
        BY <2>1 DEF ObscuringLosesNothing, IsOf
  <2>3. CutListIsPrefix' = CutListIsPrefix
        BY <2>1 DEF CutListIsPrefix
  <2>4. FrontEndReadsHandoff' = FrontEndReadsHandoff
        BY <2>1 DEF FrontEndReadsHandoff, IsOf
  <2>5. PathIsOneArgument' = PathIsOneArgument
        BY <2>1 DEF PathIsOneArgument
  <2>6. Handed' = Handed
        BY <2>1 DEF Handed
  <2> QED BY <1>3, <2>2, <2>3, <2>4, <2>5, <2>6 DEF Right
<1> QED BY <1>5, <1>6, <1>7, <1>8, <1>9, <1>10, <1>11 DEF Next

\* Between any two calls of the functions, what was handed on or returned is right.
THEOREM SpecRight == Spec => []Right
BY RightInit, RightNext, PTL DEF Spec

\* obscure_password loses nothing, for passwords and keys of any lengths: a password
\* no longer than the key is read back with it, what is sent for a longer one tells
\* it from every other password (whether the server can read it is not known), and
\* with a printable password and a 7-bit key no control character gets into the A line.
THEOREM ObscuringIsLossless == Spec => []ObscuringLosesNothing
<1>1. Right => ObscuringLosesNothing
      BY DEF Right
<1> QED BY <1>1, SpecRight, PTL

\* parse_game_list and parse_char_list return the first entries of the list the
\* server sent, wherever the reply was cut.
THEOREM ListIsPrefix == Spec => []CutListIsPrefix
<1>1. Right => CutListIsPrefix
      BY DEF Right
<1> QED BY <1>1, SpecRight, PTL

\* read_sal_file reads what the server has sent: the last value of every name,
\* whatever the case of its letters, without the blanks around it, though
\* parse_handoff_kv, from_kv and _sal_lines rewrite it on the way.
THEOREM HandoffIsRead == Spec => []FrontEndReadsHandoff
<1>1. Right => FrontEndReadsHandoff
      BY DEF Right
<1> QED BY <1>1, SpecRight, PTL

\* build_command hands the path of the SAL file to the front-end as one argument
\* and leaves the others as they are: whatever characters the path holds, when no
\* {sal_path} of the template is inside quotes or after a backslash, and whatever
\* the template, when the path has no blank, quote or backslash.
THEOREM PathIsArgument == Spec => []PathIsOneArgument
<1>1. Right => PathIsOneArgument
      BY DEF Right
<1> QED BY <1>1, SpecRight, PTL
===============================================================================
