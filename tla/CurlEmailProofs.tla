--------------------------- MODULE CurlEmailProofs ---------------------------
(* The callback of CurlEmail, and what arrives of the attachment, for      *)
(* attachments of any length, any size of the chunks, and any buffers that *)
(* have room for one of them.                                              *)
EXTENDS CurlEmail, SequenceTheorems, FiniteSetTheorems, TLAPS

Character == 0 .. Pad

(* Lines that every buffer has room for. *)
Line == {line \in [name : PlainNames \cup {"data"}, data : Seq(Character)] :
           \A b \in Buffers : Length(line) <= b}

LEMMA PlainFits == \A name \in PlainNames : Plain(name) \in Line
<1> SUFFICES ASSUME NEW name \in PlainNames PROVE Plain(name) \in Line
  OBVIOUS
<1>1. Plain(name) \in [name : PlainNames \cup {"data"}, data : Seq(Character)]
  BY DEF Plain
<1>2. name # "data"
  BY DEF PlainNames
<1>3. Length(Plain(name)) \in {2, PlainLength}
  BY <1>2 DEF Length, Plain
<1>4. \A b \in Buffers : Length(Plain(name)) <= b
  BY <1>3, EmailAssumption
<1>5. QED BY <1>1, <1>4 DEF Line

LEMMA ChunkFits ==
  ASSUME NEW c \in Seq(Character), Len(c) <= chunk_size
  PROVE  Data(c) \in Line
<1>1. Data(c) \in [name : PlainNames \cup {"data"}, data : Seq(Character)]
  BY DEF Data
<1>2. Length(Data(c)) = Len(c) + 2
  BY DEF Length, Data
<1>3. \A b \in Buffers : Length(Data(c)) <= b
  <2>1. \A b \in Buffers : b \in Nat /\ b >= chunk_size + 2 /\ chunk_size \in Nat
    BY EmailAssumption
  <2>2. QED BY <1>2, <2>1
<1>4. QED BY <1>1, <1>3 DEF Line

(* No character of the alphabet is "=". *)
LEMMA SextetIsBelow ==
  ASSUME NEW a \in 0 .. 255, NEW b \in 0 .. 255, NEW c \in 0 .. 255, NEW k \in 1 .. 4
  PROVE  Sextet(a, b, c, k) \in 0 .. 63
<1>1. /\ a \div 4 \in 0 .. 63 /\ (a % 4) * 16 + b \div 16 \in 0 .. 63
      /\ (b % 16) * 4 + c \div 64 \in 0 .. 63 /\ c % 64 \in 0 .. 63
  OBVIOUS
<1>2. k = 1 \/ k = 2 \/ k = 3 \/ k = 4
  OBVIOUS
<1>3. QED BY <1>1, <1>2 DEF Sextet

LEMMA SextetIsCharacter ==
  ASSUME NEW a \in 0 .. 255, NEW b \in 0 .. 255, NEW c \in 0 .. 255, NEW k \in 1 .. 4
  PROVE  Sextet(a, b, c, k) \in Character
<1>1. Sextet(a, b, c, k) \in 0 .. 63
  BY SextetIsBelow, Zenon
<1>2. 0 .. 63 \subseteq Character
  BY DEF Character, Pad
<1>3. QED BY <1>1, <1>2, Zenon

(* What is sent of the encoding are characters of base64, four for every   *)
(* three bytes or part of them.                                            *)
LEMMA EncodingIsSeq ==
  ASSUME NEW bytes \in Seq(0 .. 255)
  PROVE  /\ base64_encode(bytes) \in Seq(Character)
         /\ Len(base64_encode(bytes)) = 4 * ((Len(bytes) + 2) \div 3)
<1> DEFINE n == 4 * ((Len(bytes) + 2) \div 3)
           byte(j) == IF j <= Len(bytes) THEN bytes[j] ELSE 0
           at(k) == 3 * ((k - 1) \div 4)
           nth(k) == ((k - 1) % 4) + 1
           e(k) == IF nth(k) <= Smaller(3, Len(bytes) - at(k)) + 1
                     THEN Sextet(byte(at(k) + 1), byte(at(k) + 2), byte(at(k) + 3), nth(k))
                     ELSE Pad
<1>1. n \in Nat
  <2>1. Len(bytes) \in Nat
    OBVIOUS
  <2>2. QED BY <2>1
<1>2. ASSUME NEW k \in 1 .. n PROVE e(k) \in Character
  <2>1. at(k) \in Nat /\ nth(k) \in 1 .. 4
    BY <1>1
  <2>2. \A j \in Nat \ {0} : byte(j) \in 0 .. 255
    <3>1. TAKE j \in Nat \ {0}
    <3>2. CASE j <= Len(bytes)
      <4>1. j \in 1 .. Len(bytes)
        BY <3>2
      <4>2. bytes[j] \in 0 .. 255
        BY <4>1, ElementOfSeq, Zenon
      <4>3. QED BY <3>2, <4>2
    <3>3. CASE ~(j <= Len(bytes))
      BY <3>3
    <3>4. QED BY <3>2, <3>3
  <2>3. Sextet(byte(at(k) + 1), byte(at(k) + 2), byte(at(k) + 3), nth(k)) \in Character
    <3>1. /\ byte(at(k) + 1) \in 0 .. 255 /\ byte(at(k) + 2) \in 0 .. 255
          /\ byte(at(k) + 3) \in 0 .. 255
      BY <2>1, <2>2
    <3> HIDE DEF byte, at, nth
    <3>2. QED BY <2>1, <3>1, SextetIsCharacter, Zenon
  <2>4. Pad \in Character
    BY DEF Pad, Character
  <2>5. QED BY <2>3, <2>4
<1>3. base64_encode(bytes) = [k \in 1 .. n |-> e(k)]
  BY DEF base64_encode
<1> HIDE DEF n, e
<1>4. [k \in 1 .. n |-> e(k)] \in Seq(Character) /\ Len([k \in 1 .. n |-> e(k)]) = n
  BY <1>1, <1>2, IsASeq
<1>5. QED BY <1>3, <1>4 DEF n
-----------------------------------------------------------------------------
(* The message while it is put together. *)
MsgInv ==
  /\ file \in Files \cup {NoFile}
  /\ mail_content \in Seq(Line)
  /\ file_content \in Seq(Character)
  /\ i \in Nat
  /\ pc = "chunks" => Len(file_content) + chunk_size <= UintRange

(* The lines of a program are those of its message. *)
LEMMA LinesFit ==
  ASSUME NEW names \in Seq(PlainNames)
  PROVE  Lines(names) \in Seq(Line)
<1>1. Len(names) \in Nat /\ \A n \in 1 .. Len(names) : Plain(names[n]) \in Line
  BY PlainFits
<1>2. QED BY <1>1, IsASeq DEF Lines

LEMMA InitMsg == Init => MsgInv
<1>1. Fields \in Seq(Line) /\ payload_text \in Seq(Line)
  <2> DEFINE first == <<"To", "From", "Subject", "Date", "MIME-Version", "Content-Type", "empty",
                        "boundary", "Content-Type", "Content-Transfer-Encoding", "empty", "text",
                        "empty", "empty", "boundary", "Content-Type",
                        "Content-Transfer-Encoding", "Content-Disposition", "empty">>
             second == <<"Date", "To", "From", "Cc", "Subject", "MIME-Version", "Content-Type",
                         "Content-Transfer-Encoding", "empty", "text", "empty", "text", "text">>
  <2>1. first \in Seq(PlainNames)
    BY DEF PlainNames
  <2>2. second \in Seq(PlainNames)
    BY DEF PlainNames
  <2>3. Fields = Lines(first) /\ payload_text = Lines(second)
    BY DEF Fields, payload_text
  <2> HIDE DEF first, second
  <2>4. QED BY <2>1, <2>2, <2>3, LinesFit
<1>2. QED BY <1>1 DEF Init, MsgInv

LEMMA MsgInductive == MsgInv /\ [Next]_vars => MsgInv'
<1> SUFFICES ASSUME MsgInv, [Next]_vars PROVE MsgInv'
  OBVIOUS
<1>1. CASE ReadFile
  <2>1. CASE file = NoFile
    BY <1>1, <2>1 DEF ReadFile, MsgInv
  <2>2. CASE file # NoFile
    <3>1. file \in Files /\ file \in Seq(0 .. 255)
      BY <2>2, EmailAssumption DEF MsgInv
    <3>2. file_content' = base64_encode(file)
      BY <1>1, <2>2 DEF ReadFile
    <3>3. /\ file_content' \in Seq(Character)
          /\ Len(file_content') = 4 * ((Len(file) + 2) \div 3)
      BY <3>1, <3>2, EncodingIsSeq
    <3>4. Len(file_content') + chunk_size <= UintRange
      BY <3>1, <3>3, EmailAssumption
    <3>5. QED BY <1>1, <3>3, <3>4 DEF ReadFile, MsgInv
  <2>3. QED BY <2>1, <2>2
<1>2. CASE AddChunk
  <2>1. i' \in Nat
    BY <1>2, EmailAssumption DEF AddChunk, MsgInv
  <2>2. PICK c : mail_content' = Append(mail_content, Data(c)) /\ c \in Seq(Character)
                   /\ Len(c) <= chunk_size
    <3>1. /\ i \in Nat /\ Len(file_content) \in Nat /\ i < Len(file_content)
          /\ chunk_size \in Nat \ {0} /\ UintRange \in Nat \ {0}
          /\ Len(file_content) + chunk_size <= UintRange
      BY <1>2, EmailAssumption DEF AddChunk, MsgInv
    <3>2. (i + chunk_size) % UintRange = i + chunk_size
      <4>1. 0 <= i + chunk_size /\ i + chunk_size < UintRange
        BY <3>1
      <4>2. QED BY <3>1, <4>1
    <3>3. CASE i + chunk_size < Len(file_content)
      <4>1. \A j \in i + 1 .. i + chunk_size : file_content[j] \in Character
        BY <3>1, <3>3 DEF MsgInv
      <4>2. /\ SubSeq(file_content, i + 1, i + chunk_size) \in Seq(Character)
            /\ Len(SubSeq(file_content, i + 1, i + chunk_size)) <= chunk_size
        BY <3>1, <4>1, SubSeqProperties
      <4>3. QED BY <1>2, <3>2, <3>3, <4>2 DEF AddChunk, Add
    <3>4. CASE ~(i + chunk_size < Len(file_content))
      <4>1. \A j \in i + 1 .. Len(file_content) : file_content[j] \in Character
        BY <3>1 DEF MsgInv
      <4>2. /\ SubSeq(file_content, i + 1, Len(file_content)) \in Seq(Character)
            /\ Len(SubSeq(file_content, i + 1, Len(file_content))) <= chunk_size
        BY <3>1, <3>4, <4>1, SubSeqProperties
      <4>3. QED BY <1>2, <3>2, <3>4, <4>2 DEF AddChunk, Add
    <3>5. QED BY <3>3, <3>4
  <2>3. mail_content' \in Seq(Line)
    BY <2>2, ChunkFits, AppendProperties DEF MsgInv
  <2>4. QED BY <1>2, <2>1, <2>3 DEF AddChunk, MsgInv
<1>3. CASE CloseMessage
  <2>1. mail_content' \in Seq(Line)
    BY <1>3, PlainFits, AppendProperties DEF CloseMessage, Add, MsgInv, PlainNames
  <2>2. QED BY <1>3, <2>1 DEF CloseMessage, MsgInv
<1>4. CASE ChunksEnd \/ Send \/ Callback \/ NoHandle \/ PerformFails \/ UNCHANGED vars
  BY <1>4 DEF ChunksEnd, Send, EasyInit, AppendRecipient, Perform, Accepted, Cleanup,
      Callback, payload_source, NoHandle, PerformFails, MsgInv, msgVars, vars
<1>5. QED BY <1>1, <1>2, <1>3, <1>4 DEF Next, Build
-----------------------------------------------------------------------------
(* What libcurl has been given are the first lines, as many as are counted *)
(* by lines_read, and all of them when it was told the end.                *)
SentInv ==
  /\ sent \in Seq(Line)
  /\ lines_read = Len(sent) /\ Len(sent) <= Len(mail_content)
  /\ \A n \in 1 .. Len(sent) : sent[n] = mail_content[n]
  /\ pc \notin {"perform", "cleanup", "ended"} => sent = <<>> /\ ~eof
  /\ eof => Len(sent) = Len(mail_content)
  /\ pc \in {"cleanup", "ended"} /\ res = "OK" => eof
  /\ ~overrun

LEMMA SentInductive == MsgInv /\ SentInv /\ [Next]_vars => SentInv'
<1> SUFFICES ASSUME MsgInv, SentInv, [Next]_vars PROVE SentInv'
  OBVIOUS
<1>1. CASE Build
  <2>1. Len(mail_content') \in Nat /\ sent = <<>> /\ sent' = <<>> /\ ~eof
    <3>1. mail_content' \in Seq(Line)
      BY <1>1, MsgInductive DEF MsgInv
    <3>2. QED BY <1>1, <3>1 DEF Build, ReadFile, AddChunk, ChunksEnd, CloseMessage, SentInv,
                 curlVars
  <2>2. QED BY <1>1, <2>1 DEF Build, ReadFile, AddChunk, ChunksEnd, CloseMessage, SentInv,
               curlVars
<1>2. ASSUME NEW b \in Buffers, payload_source(b) PROVE SentInv'
  <2>1. CASE lines_read < Len(mail_content)
    <3> DEFINE line == mail_content[lines_read + 1]
    <3>1. /\ lines_read \in Nat /\ Len(mail_content) \in Nat /\ line \in Line
      BY <2>1 DEF MsgInv, SentInv
    <3>2. Length(line) <= b
      BY <3>1 DEF Line
    <3>3. /\ sent' = Append(sent, line) /\ lines_read' = lines_read + 1
          /\ overrun' = (overrun \/ Length(line) > b)
          /\ eof' = eof /\ ~eof /\ pc = "perform"
          /\ UNCHANGED <<mail_content, pc, res>>
      BY <1>2, <2>1 DEF payload_source, msgVars
    <3> HIDE DEF line
    <3>4. /\ sent' \in Seq(Line) /\ Len(sent') = Len(sent) + 1
          /\ \A n \in 1 .. Len(sent) : sent'[n] = sent[n]
          /\ sent'[Len(sent) + 1] = line
      BY <3>1, <3>3, AppendProperties DEF SentInv
    <3>5. ~overrun'
      <4>1. Length(line) \in Int /\ b \in Int
        BY <3>1, EmailAssumption DEF Line, Length
      <4>2. ~(Length(line) > b)
        BY <3>2, <4>1
      <4>3. QED BY <3>3, <4>2 DEF SentInv
    <3>6. QED BY <2>1, <3>1, <3>3, <3>4, <3>5 DEF SentInv, line
  <2>2. CASE ~(lines_read < Len(mail_content))
    BY <1>2, <2>2 DEF payload_source, SentInv, MsgInv, msgVars
  <2>3. QED BY <2>1, <2>2
<1>3. CASE Send
  BY <1>3 DEF Send, EasyInit, AppendRecipient, Perform, Accepted, Cleanup, SentInv, msgVars,
      curlVars
<1>4. CASE NoHandle \/ PerformFails \/ UNCHANGED vars
  <2>1. CASE NoHandle
    BY <2>1 DEF NoHandle, SentInv, msgVars, curlVars
  <2>2. CASE PerformFails
    BY <2>2 DEF PerformFails, SentInv, msgVars
  <2>3. CASE UNCHANGED vars
    BY <2>3 DEF SentInv, msgVars, curlVars, vars
  <2>4. QED BY <1>4, <2>1, <2>2, <2>3
<1>5. QED BY <1>1, <1>2, <1>3, <1>4 DEF Next, Callback

LEMMA InitSent == Init => SentInv
<1> SUFFICES ASSUME Init PROVE SentInv
  OBVIOUS
<1>1. mail_content \in Seq(Line)
  BY InitMsg DEF MsgInv
<1>2. QED BY <1>1 DEF Init, SentInv

(* No line is longer than the buffer it is copied into. *)
THEOREM OverrunNever == Spec => []NothingOverrun
<1>1. SentInv => NothingOverrun
  BY DEF SentInv, NothingOverrun
<1>2. QED BY <1>1, InitMsg, MsgInductive, InitSent, SentInductive, PTL DEF Spec

(* libcurl gets the lines in order, and all of them before it succeeds. *)
THEOREM WholeAlways == Spec => []MessageArrivesWhole
<1>1. MsgInv /\ SentInv => MessageArrivesWhole
  <2> SUFFICES ASSUME MsgInv, SentInv PROVE MessageArrivesWhole
    OBVIOUS
  <2>1. sent = SubSeq(mail_content, 1, Len(sent))
    <3>1. /\ Len(sent) \in Nat /\ sent \in Seq(Line)
          /\ \A n \in 1 .. Len(sent) : mail_content[n] \in Line
      BY DEF SentInv, MsgInv
    <3>2. /\ SubSeq(mail_content, 1, Len(sent)) \in Seq(Line)
          /\ Len(SubSeq(mail_content, 1, Len(sent))) = Len(sent)
          /\ \A n \in 1 .. Len(sent) : SubSeq(mail_content, 1, Len(sent))[n] = mail_content[n]
      BY <3>1, SubSeqProperties
    <3>3. QED BY <3>1, <3>2, SeqEqual DEF SentInv
  <2>2. QED BY <2>1 DEF MessageArrivesWhole, SentInv
<1>2. QED BY <1>1, InitMsg, MsgInductive, InitSent, SentInductive, PTL DEF Spec
-----------------------------------------------------------------------------
(* base64 there and back: a file of q groups and r bytes more is encoded   *)
(* into q groups and, if r > 0, one that ends with "=", and decoded again. *)

(* Division by three and by four. *)
LEMMA ByThree ==
  ASSUME NEW x \in Nat, NEW g \in Nat, NEW m \in 0 .. 2, x = 3 * g + m
  PROVE  x \div 3 = g /\ x % 3 = m
OBVIOUS

LEMMA ByFour ==
  ASSUME NEW x \in Nat, NEW g \in Nat, NEW m \in 0 .. 3, x = 4 * g + m
  PROVE  x \div 4 = g /\ x % 4 = m
OBVIOUS

LEMMA Grouped ==
  ASSUME NEW x \in Nat
  PROVE  /\ \E g \in Nat, m \in 0 .. 2 : x = 3 * g + m
         /\ \E g \in Nat, m \in 0 .. 3 : x = 4 * g + m
<1>1. x \div 3 \in Nat /\ x % 3 \in 0 .. 2 /\ x = 3 * (x \div 3) + (x % 3)
  OBVIOUS
<1>2. x \div 4 \in Nat /\ x % 4 \in 0 .. 3 /\ x = 4 * (x \div 4) + (x % 4)
  OBVIOUS
<1>3. QED BY <1>1, <1>2, Zenon

LEMMA SizeByThree ==
  ASSUME NEW x \in Nat, NEW g \in Nat, NEW m \in 0 .. 2, x = 3 * g + m
  PROVE  x \div 3 = g /\ x % 3 = m /\ (x + 2) \div 3 = (IF m = 0 THEN g ELSE g + 1)
<1>1. x \div 3 = g /\ x % 3 = m
  OBVIOUS
<1>2. CASE m = 0
  <2>1. x + 2 = 3 * g + 2
    BY <1>2
  <2>2. QED BY <1>1, <1>2, <2>1
<1>3. CASE m # 0
  <2>1. x + 2 = 3 * (g + 1) + (m - 1) /\ m - 1 \in 0 .. 2
    BY <1>3
  <2>2. QED BY <1>1, <1>3, <2>1
<1>4. QED BY <1>2, <1>3

(* Four characters hold three bytes. *)
AreBytes(a, b, c) == a \in 0 .. 255 /\ b \in 0 .. 255 /\ c \in 0 .. 255

LEMMA FirstOctet ==
  ASSUME NEW a, NEW b, NEW c, AreBytes(a, b, c)
  PROVE  \A x, y : Octet(Sextet(a, b, c, 1), Sextet(a, b, c, 2), x, y, 1) = a
<1> DEFINE s1 == a \div 4
           s2 == (a % 4) * 16 + b \div 16
<1>1. Sextet(a, b, c, 1) = s1 /\ Sextet(a, b, c, 2) = s2
  BY DEF Sextet, AreBytes
<1>2. (s1 * 4 + ((s2 \div 16) % 4)) % 256 = a
  BY DEF AreBytes
<1> HIDE DEF s1, s2
<1>3. QED BY <1>1, <1>2 DEF Octet

LEMMA SecondOctet ==
  ASSUME NEW a, NEW b, NEW c, AreBytes(a, b, c)
  PROVE  \A x, y : Octet(x, Sextet(a, b, c, 2), Sextet(a, b, c, 3), y, 2) = b
<1> DEFINE s2 == (a % 4) * 16 + b \div 16
           s3 == (b % 16) * 4 + c \div 64
<1>1. Sextet(a, b, c, 2) = s2 /\ Sextet(a, b, c, 3) = s3
  BY DEF Sextet, AreBytes
<1>2. (s2 % 16) * 16 + ((s3 \div 4) % 16) = b
  BY DEF AreBytes
<1> HIDE DEF s2, s3
<1>3. QED BY <1>1, <1>2 DEF Octet

LEMMA ThirdOctet ==
  ASSUME NEW a, NEW b, NEW c, AreBytes(a, b, c)
  PROVE  \A x, y : Octet(x, y, Sextet(a, b, c, 3), Sextet(a, b, c, 4), 3) = c
<1> DEFINE s3 == (b % 16) * 4 + c \div 64
           s4 == c % 64
<1>1. Sextet(a, b, c, 3) = s3 /\ Sextet(a, b, c, 4) = s4
  BY DEF Sextet, AreBytes
<1>2. ((s3 % 4) * 64 + s4) % 256 = c
  BY DEF AreBytes
<1> HIDE DEF s3, s4
<1>3. QED BY <1>1, <1>2 DEF Octet

(* The bytes of a file, and zeros behind it. *)
Byte(bytes, j) == IF j <= Len(bytes) THEN bytes[j] ELSE 0

LEMMA ByteInRange ==
  ASSUME NEW bytes \in Seq(0 .. 255), NEW j \in Nat \ {0}
  PROVE  Byte(bytes, j) \in 0 .. 255
<1>1. CASE j <= Len(bytes)
  <2>1. j \in 1 .. Len(bytes)
    BY <1>1
  <2>2. QED BY <2>1, <1>1, ElementOfSeq DEF Byte
<1>2. CASE ~(j <= Len(bytes))
  BY <1>2 DEF Byte
<1>3. QED BY <1>1, <1>2

(* The characters of a group. *)
LEMMA EncodedAt ==
  ASSUME NEW bytes \in Seq(0 .. 255), NEW g \in Nat, NEW m \in 1 .. 4,
         g < (Len(bytes) + 2) \div 3
  PROVE  base64_encode(bytes)[4 * g + m] =
           IF m <= Smaller(3, Len(bytes) - 3 * g) + 1
             THEN Sextet(Byte(bytes, 3 * g + 1), Byte(bytes, 3 * g + 2), Byte(bytes, 3 * g + 3), m)
             ELSE Pad
<1> DEFINE n == (Len(bytes) + 2) \div 3
           k == 4 * g + m
           at(j) == 3 * ((j - 1) \div 4)
           nth(j) == ((j - 1) % 4) + 1
           e(j) == IF nth(j) <= Smaller(3, Len(bytes) - at(j)) + 1
                     THEN Sextet(Byte(bytes, at(j) + 1), Byte(bytes, at(j) + 2),
                                 Byte(bytes, at(j) + 3), nth(j))
                     ELSE Pad
<1>1. base64_encode(bytes) = [j \in 1 .. 4 * n |-> e(j)]
  BY DEF base64_encode, Byte
<1>2. k \in 1 .. 4 * n /\ (k - 1) \div 4 = g /\ (k - 1) % 4 = m - 1
  <2>1. Len(bytes) \in Nat /\ n \in Nat
    OBVIOUS
  <2>2. k \in 1 .. 4 * n
    <3> HIDE DEF n
    <3>1. g < n
      BY DEF n
    <3>2. QED BY <2>1, <3>1
  <2>3. k - 1 = 4 * g + (m - 1) /\ m - 1 \in 0 .. 3
    OBVIOUS
  <2>4. k - 1 \in Nat
    BY <2>2
  <2> HIDE DEF k
  <2>5. (k - 1) \div 4 = g /\ (k - 1) % 4 = m - 1
    BY <2>3, <2>4, ByFour, Zenon
  <2>6. QED BY <2>2, <2>5
<1>3. at(k) = 3 * g /\ nth(k) = m
  BY <1>2
<1> HIDE DEF n, k, at, nth
<1>4. base64_encode(bytes)[k] = e(k)
  BY <1>1, <1>2
<1>5. QED BY <1>3, <1>4 DEF k

(* Where the characters end that are not "=". *)
EncodedEnd(n) == 4 * (n \div 3) + (IF n % 3 = 0 THEN 0 ELSE (n % 3) + 1)

(* The encoding has no "=" up to there, and one behind, if anything.       *)
LEMMA EncodingEnds ==
  ASSUME NEW bytes \in Seq(0 .. 255)
  PROVE  LET chars == base64_encode(bytes)
             end == EncodedEnd(Len(bytes))
         IN /\ end \in 0 .. Len(chars)
            /\ \A j \in 1 .. end : chars[j] # Pad
            /\ end < Len(chars) => chars[end + 1] = Pad
<1> DEFINE chars == base64_encode(bytes)
           n == Len(bytes)
           end == EncodedEnd(n)
<1>1. Len(chars) = 4 * ((n + 2) \div 3) /\ n \in Nat
  BY EncodingIsSeq
<1>2. PICK q \in Nat, r \in 0 .. 2 : n = 3 * q + r
  BY <1>1, Grouped, Zenon
<1>3. n \div 3 = q /\ n % 3 = r /\ (n + 2) \div 3 = (IF r = 0 THEN q ELSE q + 1)
  BY <1>1, <1>2, SizeByThree, Zenon
<1>4. end = 4 * q + (IF r = 0 THEN 0 ELSE r + 1) /\ Len(chars) = 4 * (IF r = 0 THEN q ELSE q + 1)
  BY <1>1, <1>3 DEF EncodedEnd
<1>5. end \in 0 .. Len(chars)
  <2> HIDE DEF end, chars
  <2>1. QED BY <1>2, <1>4
<1>6. ASSUME NEW j \in 1 .. end PROVE chars[j] # Pad
  <2>1. PICK g \in Nat, m \in 1 .. 4 : j = 4 * g + m
    <3>1. j \in Nat \ {0}
      BY <1>4, <1>2
    <3>2. PICK g \in Nat, m \in 0 .. 3 : j - 1 = 4 * g + m
      <4>1. j - 1 \in Nat
        BY <3>1
      <4>2. QED BY <4>1, Grouped, Zenon
    <3>3. m + 1 \in 1 .. 4 /\ j = 4 * g + (m + 1)
      BY <3>1, <3>2
    <3>4. QED BY <3>3
  <2>2. g < (n + 2) \div 3 /\ m <= Smaller(3, n - 3 * g) + 1
    <3>1. j <= 4 * q + (IF r = 0 THEN 0 ELSE r + 1)
      BY <1>4, <1>2
    <3>2. g < (IF r = 0 THEN q ELSE q + 1)
      BY <3>1, <2>1, <1>2
    <3>3. m <= (IF 3 < n - 3 * g THEN 3 ELSE n - 3 * g) + 1
      BY <3>1, <3>2, <2>1, <1>2
    <3>4. QED BY <3>2, <3>3, <1>3 DEF Smaller
  <2>3. /\ 3 * g + 1 \in Nat \ {0} /\ 3 * g + 2 \in Nat \ {0} /\ 3 * g + 3 \in Nat \ {0}
    OBVIOUS
  <2> DEFINE a == Byte(bytes, 3 * g + 1)
             b == Byte(bytes, 3 * g + 2)
             c == Byte(bytes, 3 * g + 3)
  <2>4. a \in 0 .. 255 /\ b \in 0 .. 255 /\ c \in 0 .. 255
    BY <2>3, ByteInRange
  <2>5. chars[4 * g + m] = Sextet(a, b, c, m)
    BY <2>2, EncodedAt
  <2> HIDE DEF a, b, c, chars
  <2>6. Sextet(a, b, c, m) \in 0 .. 63
    BY <2>4, SextetIsBelow, Zenon
  <2>7. chars[j] = Sextet(a, b, c, m)
    BY <2>1, <2>5
  <2>8. \A v \in 0 .. 63 : v # Pad
    BY DEF Pad
  <2>9. QED BY <2>6, <2>7, <2>8, Zenon
<1>7. ASSUME end < Len(chars) PROVE chars[end + 1] = Pad
  <2>1. r # 0 /\ end + 1 = 4 * q + (r + 2)
    <3> HIDE DEF end, chars
    <3>1. QED BY <1>7, <1>4, <1>2
  <2>2. q < (n + 2) \div 3 /\ r + 2 \in 1 .. 4
    BY <1>2, <1>3, <2>1
  <2>3. ~(r + 2 <= Smaller(3, n - 3 * q) + 1)
    BY <1>2 DEF Smaller
  <2>4. chars[4 * q + (r + 2)] = Pad
    BY <2>2, <2>3, EncodedAt
  <2>5. QED BY <2>1, <2>4
<1>8. QED BY <1>5, <1>6, <1>7

(* Decoding what was encoded gives the bytes, for every file.              *)
LEMMA DecodeOfEncode ==
  ASSUME NEW bytes \in Seq(0 .. 255)
  PROVE  base64_decode(base64_encode(bytes)) = bytes
<1> DEFINE chars == base64_encode(bytes)
           n == Len(bytes)
           IsEnd(e) == /\ \A j \in 1 .. e : chars[j] # Pad
                       /\ e < Len(chars) => chars[e + 1] = Pad
           end == CHOOSE e \in 0 .. Len(chars) : IsEnd(e)
           char(j) == IF j <= end THEN chars[j] ELSE 255
           left == end % 4
           size == 3 * (end \div 4) + (IF left = 0 THEN 0 ELSE left - 1)
           at(k) == 4 * ((k - 1) \div 3)
           octet(k) == Octet(char(at(k) + 1), char(at(k) + 2), char(at(k) + 3),
                             char(at(k) + 4), ((k - 1) % 3) + 1)
<1>1. base64_decode(chars) = [k \in 1 .. size |-> octet(k)]
  BY DEF base64_decode
<1>2. Len(chars) = 4 * ((n + 2) \div 3) /\ n \in Nat /\ Len(chars) \in Nat
  BY EncodingIsSeq
<1>3. EncodedEnd(n) \in 0 .. Len(chars) /\ IsEnd(EncodedEnd(n))
  BY EncodingEnds
<1>4. end = EncodedEnd(n)
  <2>1. end \in 0 .. Len(chars) /\ IsEnd(end)
    BY <1>3
  <2>2. ASSUME NEW d \in 0 .. Len(chars), NEW e \in 0 .. Len(chars), IsEnd(d), IsEnd(e), d < e
        PROVE  FALSE
    <3> HIDE DEF chars
    <3>1. d + 1 \in 1 .. e /\ d < Len(chars)
      BY <2>2, <1>2
    <3>2. QED BY <2>2, <3>1
  <2> HIDE DEF end, IsEnd, chars
  <2>3. ~(end < EncodedEnd(n)) /\ ~(EncodedEnd(n) < end)
    BY <1>3, <2>1, <2>2
  <2>4. QED BY <1>2, <1>3, <2>1, <2>3
<1>5. PICK q \in Nat, r \in 0 .. 2 : n = 3 * q + r
  BY <1>2, Grouped, Zenon
<1>6. end = 4 * q + (IF r = 0 THEN 0 ELSE r + 1) /\ (n + 2) \div 3 = (IF r = 0 THEN q ELSE q + 1)
  <2>1. n \div 3 = q /\ n % 3 = r
    BY <1>2, <1>5, ByThree, Zenon
  <2>2. (n + 2) \div 3 = (IF r = 0 THEN q ELSE q + 1)
    BY <1>2, <1>5, SizeByThree, Zenon
  <2>3. QED BY <1>4, <2>1, <2>2 DEF EncodedEnd
<1> HIDE DEF end
<1>7. size = n
  <2>1. end = 4 * q + (IF r = 0 THEN 0 ELSE r + 1) /\ (IF r = 0 THEN 0 ELSE r + 1) \in 0 .. 3
    BY <1>5, <1>6
  <2>2. end \div 4 = q /\ left = (IF r = 0 THEN 0 ELSE r + 1)
    BY <2>1, ByFour
  <2> HIDE DEF left
  <2>3. QED BY <1>5, <2>2
<1>8. ASSUME NEW k \in 1 .. n PROVE octet(k) = bytes[k]
  <2>1. PICK g \in Nat, m \in 1 .. 3 : k = 3 * g + m
    <3>1. k \in Nat \ {0}
      BY <1>2
    <3>2. PICK g \in Nat, m \in 0 .. 2 : k - 1 = 3 * g + m
      <4>1. k - 1 \in Nat
        BY <3>1
      <4>2. QED BY <4>1, Grouped, Zenon
    <3>3. m + 1 \in 1 .. 3 /\ k = 3 * g + (m + 1)
      BY <3>1, <3>2
    <3>4. QED BY <3>3
  <2>2. (k - 1) \div 3 = g /\ ((k - 1) % 3) + 1 = m /\ at(k) = 4 * g
    <3>1. k - 1 = 3 * g + (m - 1) /\ m - 1 \in 0 .. 2
      BY <2>1
    <3>2. (k - 1) \div 3 = g /\ (k - 1) % 3 = m - 1
      <4>1. k - 1 \in Nat
        BY <1>2
      <4>2. QED BY <3>1, <4>1, ByThree, Zenon
    <3>3. QED BY <3>2
  <2> DEFINE a == Byte(bytes, 3 * g + 1)
             b == Byte(bytes, 3 * g + 2)
             c == Byte(bytes, 3 * g + 3)
  <2>3. a \in 0 .. 255 /\ b \in 0 .. 255 /\ c \in 0 .. 255
    <3>1. /\ 3 * g + 1 \in Nat \ {0} /\ 3 * g + 2 \in Nat \ {0} /\ 3 * g + 3 \in Nat \ {0}
      OBVIOUS
    <3>2. QED BY <3>1, ByteInRange, Zenon
  <2>4. g < (n + 2) \div 3
    BY <1>2, <1>5, <1>6, <2>1
  <2>5. ASSUME NEW j \in 1 .. 4, j <= m + 1 PROVE char(4 * g + j) = Sextet(a, b, c, j)
    <3>1. 4 * g + j <= end /\ j <= Smaller(3, n - 3 * g) + 1
      <4>1. 4 * g + j <= 4 * q + (IF r = 0 THEN 0 ELSE r + 1)
        BY <1>2, <1>5, <2>1, <2>5
      <4>2. j <= (IF 3 < n - 3 * g THEN 3 ELSE n - 3 * g) + 1
        BY <1>2, <1>5, <2>1, <2>5
      <4>3. QED BY <4>1, <4>2, <1>6 DEF Smaller
    <3>2. chars[4 * g + j] = Sextet(a, b, c, j)
      BY <2>4, <3>1, EncodedAt
    <3>3. QED BY <3>1, <3>2
  <2>6. bytes[k] = <<a, b, c>>[m]
    <3>1. k <= Len(bytes)
      BY <1>2
    <3>2. Byte(bytes, k) = bytes[k]
      BY <3>1 DEF Byte
    <3>3. m = 1 \/ m = 2 \/ m = 3
      OBVIOUS
    <3>4. QED BY <2>1, <3>2, <3>3
  <2> HIDE DEF a, b, c, char, chars
  <2>7. AreBytes(a, b, c)
    BY <2>3 DEF AreBytes
  <2>8. octet(k) = Octet(char(4 * g + 1), char(4 * g + 2), char(4 * g + 3), char(4 * g + 4), m)
    BY <2>2
  <2> HIDE DEF octet
  <2>9. CASE m = 1
    <3>1. char(4 * g + 1) = Sextet(a, b, c, 1) /\ char(4 * g + 2) = Sextet(a, b, c, 2)
      BY <2>5, <2>9
    <3>2. octet(k) = Octet(Sextet(a, b, c, 1), Sextet(a, b, c, 2), char(4 * g + 3),
                           char(4 * g + 4), 1)
      BY <2>8, <2>9, <3>1, Zenon
    <3>3. octet(k) = a
      <4>1. \A x, y : Octet(Sextet(a, b, c, 1), Sextet(a, b, c, 2), x, y, 1) = a
        BY <2>7, FirstOctet, Zenon
      <4>2. QED BY <3>2, <4>1, Zenon
    <3>4. bytes[k] = a
      BY <2>6, <2>9
    <3>5. QED BY <3>3, <3>4
  <2>10. CASE m = 2
    <3>1. char(4 * g + 2) = Sextet(a, b, c, 2) /\ char(4 * g + 3) = Sextet(a, b, c, 3)
      BY <2>5, <2>10
    <3>2. octet(k) = Octet(char(4 * g + 1), Sextet(a, b, c, 2), Sextet(a, b, c, 3),
                           char(4 * g + 4), 2)
      BY <2>8, <2>10, <3>1, Zenon
    <3>3. octet(k) = b
      <4>1. \A x, y : Octet(x, Sextet(a, b, c, 2), Sextet(a, b, c, 3), y, 2) = b
        BY <2>7, SecondOctet, Zenon
      <4>2. QED BY <3>2, <4>1, Zenon
    <3>4. bytes[k] = b
      BY <2>6, <2>10
    <3>5. QED BY <3>3, <3>4
  <2>11. CASE m = 3
    <3>1. char(4 * g + 3) = Sextet(a, b, c, 3) /\ char(4 * g + 4) = Sextet(a, b, c, 4)
      BY <2>5, <2>11
    <3>2. octet(k) = Octet(char(4 * g + 1), char(4 * g + 2),
                           Sextet(a, b, c, 3), Sextet(a, b, c, 4), 3)
      BY <2>8, <2>11, <3>1, Zenon
    <3>3. octet(k) = c
      <4>1. \A x, y : Octet(x, y, Sextet(a, b, c, 3), Sextet(a, b, c, 4), 3) = c
        BY <2>7, ThirdOctet, Zenon
      <4>2. QED BY <3>2, <4>1, Zenon
    <3>4. bytes[k] = c
      BY <2>6, <2>11
    <3>5. QED BY <3>3, <3>4
  <2>12. QED BY <2>9, <2>10, <2>11
<1> HIDE DEF size, octet, chars
<1>9. [k \in 1 .. size |-> octet(k)] = [k \in 1 .. n |-> bytes[k]]
  BY <1>7, <1>8
<1>10. bytes = [k \in 1 .. n |-> bytes[k]]
  OBVIOUS
<1>11. QED BY <1>1, <1>9, <1>10 DEF chars
-----------------------------------------------------------------------------
(* FlattenSeq is a recursive function on the numbers of its parts; what it *)
(* is at each of them takes induction, over a set of numbers.              *)
(* The numbers below the first that is missing from the set would be a     *)
(* smallest interval.                                                      *)
LEMMA SetInduction ==
  ASSUME NEW K \in SUBSET Nat, 0 \in K, \A n \in K : n + 1 \in K
  PROVE  K = Nat
<1> DEFINE U == {1 .. n : n \in Nat \ K}
<1> SUFFICES ASSUME Nat \ K # {} PROVE FALSE
  OBVIOUS
<1>1. U \subseteq FiniteSubsetsOf(Nat)
  <2>1. \A n \in Nat : IsFiniteSet(1 .. n) /\ 1 .. n \subseteq Nat
    BY FS_Interval
  <2>2. QED BY <2>1 DEF FiniteSubsetsOf
<1>2. PICK x \in U : \A y \in U : <<y, x>> \notin StrictSubsetOrdering(Nat)
  <2>1. U # {}
    OBVIOUS
  <2> HIDE DEF U
  <2>2. IsWellFoundedOn(StrictSubsetOrdering(Nat), FiniteSubsetsOf(Nat))
    BY FS_StrictSubsetOrderingWellFounded
  <2>3. QED BY <1>1, <2>1, <2>2, WFMin
<1>3. PICK n \in Nat \ K : x = 1 .. n
  OBVIOUS
<1>4. n # 0 /\ n - 1 \in Nat /\ n - 1 \notin K
  BY <1>3
<1>5. 1 .. n - 1 \in U
  BY <1>4
<1>6. <<1 .. n - 1, x>> \in StrictSubsetOrdering(Nat)
  <2>1. n \in x /\ n \notin 1 .. n - 1 /\ 1 .. n - 1 \subseteq x /\ x \subseteq Nat
    BY <1>3, <1>4
  <2>2. QED BY <2>1, <1>3, <1>4 DEF StrictSubsetOrdering
<1>7. QED BY <1>2, <1>5, <1>6

(* FlattenSeq joins the parts one after the other. *)
JoinStep(f, parts, k) == IF k = 1 THEN parts[k] ELSE f[k - 1] \o parts[k]
IsJoin(f, parts, n) == f = [k \in 1 .. n |-> JoinStep(f, parts, k)]

LEMMA JoinAt ==
  ASSUME NEW f, NEW parts, NEW n, IsJoin(f, parts, n)
  PROVE  \A k \in 1 .. n : f[k] = JoinStep(f, parts, k)
BY DEF IsJoin

(* There is such a function, so that the one FlattenSeq chooses is one.    *)
LEMMA JoinExists ==
  ASSUME NEW parts, NEW n \in Nat
  PROVE  \E f : IsJoin(f, parts, n)
<1> DEFINE K == {m \in Nat : \E f : IsJoin(f, parts, m)}
<1>1. 0 \in K
  <2> DEFINE z == [k \in {} |-> 0]
  <2>1. IsJoin(z, parts, 0)
    <3>1. 1 .. 0 = {}
      OBVIOUS
    <3>2. z = [k \in {} |-> IF k = 1 THEN parts[k] ELSE z[k - 1] \o parts[k]]
      OBVIOUS
    <3> HIDE DEF z
    <3>3. QED BY <3>1, <3>2 DEF IsJoin, JoinStep
  <2>2. QED BY <2>1
<1>2. ASSUME NEW m \in K PROVE m + 1 \in K
  <2>1. m \in Nat
    OBVIOUS
  <2>2. PICK f : IsJoin(f, parts, m)
    OBVIOUS
  <2> DEFINE g == [k \in 1 .. m + 1 |->
                     IF k = m + 1 THEN (IF k = 1 THEN parts[k] ELSE f[k - 1] \o parts[k])
                                  ELSE f[k]]
  <2>3. \A k \in 1 .. m : g[k] = f[k] /\ f[k] = IF k = 1 THEN parts[k] ELSE f[k - 1] \o parts[k]
    <3>1. \A k \in 1 .. m : f[k] = JoinStep(f, parts, k)
      BY <2>2, JoinAt, Zenon
    <3>2. \A k \in 1 .. m : g[k] = f[k]
      BY <2>1
    <3>3. QED BY <3>1, <3>2 DEF JoinStep
  <2>4. \A k \in 1 .. m + 1 : g[k] = IF k = 1 THEN parts[k] ELSE g[k - 1] \o parts[k]
    <3>1. TAKE k \in 1 .. m + 1
    <3>2. CASE k = m + 1 /\ k = 1
      BY <3>2
    <3>3. CASE k = m + 1 /\ k # 1
      <4>1. k - 1 \in 1 .. m
        BY <2>1, <3>3
      <4>2. g[k - 1] = f[k - 1]
        BY <2>3, <4>1
      <4>3. QED BY <3>3, <4>2
    <3>4. CASE k # m + 1 /\ k = 1
      <4>1. k \in 1 .. m
        BY <2>1, <3>4
      <4>2. QED BY <2>3, <4>1, <3>4
    <3>5. CASE k # m + 1 /\ k # 1
      <4>1. k \in 1 .. m /\ k - 1 \in 1 .. m
        BY <2>1, <3>5
      <4>2. g[k] = f[k] /\ g[k - 1] = f[k - 1]
        BY <2>3, <4>1
      <4>3. f[k] = f[k - 1] \o parts[k]
        BY <2>3, <4>1, <3>5
      <4>4. QED BY <3>5, <4>2, <4>3
    <3>6. QED BY <3>2, <3>3, <3>4, <3>5
  <2>5. g = [k \in 1 .. m + 1 |-> g[k]]
    OBVIOUS
  <2> HIDE DEF g
  <2>6. IsJoin(g, parts, m + 1)
    BY <2>4, <2>5 DEF IsJoin, JoinStep
  <2>7. QED BY <2>1, <2>6
<1>3. K \in SUBSET Nat
  OBVIOUS
<1> HIDE DEF K
<1>4. K = Nat
  BY <1>1, <1>2, <1>3, SetInduction
<1>5. QED BY <1>4 DEF K

LEMMA FlattenIsJoin ==
  ASSUME NEW parts, Len(parts) \in Nat \ {0}
  PROVE  \E f : IsJoin(f, parts, Len(parts)) /\ FlattenSeq(parts) = f[Len(parts)]
<1> DEFINE f == CHOOSE g : g = [k \in 1 .. Len(parts) |->
                                  IF k = 1 THEN parts[k] ELSE g[k - 1] \o parts[k]]
<1>1. FlattenSeq(parts) = f[Len(parts)]
  BY DEF FlattenSeq
<1>2. \E g : g = [k \in 1 .. Len(parts) |-> IF k = 1 THEN parts[k] ELSE g[k - 1] \o parts[k]]
  <2>1. \E g : IsJoin(g, parts, Len(parts))
    BY JoinExists, Zenon
  <2>2. QED BY <2>1, Zenon DEF IsJoin, JoinStep
<1>3. f = [k \in 1 .. Len(parts) |-> IF k = 1 THEN parts[k] ELSE f[k - 1] \o parts[k]]
  BY <1>2, Zenon
<1> HIDE DEF f
<1>4. QED BY <1>1, <1>3 DEF IsJoin, JoinStep

(* Of sequences, a longer sequence; one more is joined at the end.         *)
LEMMA FlattenAppend ==
  ASSUME NEW S, NEW parts \in Seq(Seq(S)), NEW x \in Seq(S)
  PROVE  /\ FlattenSeq(parts) \in Seq(S)
         /\ FlattenSeq(Append(parts, x)) = FlattenSeq(parts) \o x
<1> DEFINE n == Len(parts)
           longer == Append(parts, x)
<1>1. /\ n \in Nat /\ longer \in Seq(Seq(S)) /\ Len(longer) = n + 1
      /\ \A k \in 1 .. n : longer[k] = parts[k] /\ parts[k] \in Seq(S)
      /\ longer[n + 1] = x
  BY AppendProperties
<1> HIDE DEF longer
<1>2. PICK g : IsJoin(g, longer, n + 1) /\ FlattenSeq(longer) = g[n + 1]
  <2>1. Len(longer) \in Nat \ {0}
    BY <1>1
  <2>2. QED BY <1>1, <2>1, FlattenIsJoin
<1>3. CASE n = 0
  <2>1. parts = <<>> /\ FlattenSeq(parts) = parts
    BY <1>3 DEF FlattenSeq
  <2>2. g[n + 1] = x
    <3>1. n + 1 = 1 /\ n + 1 \in 1 .. n + 1 /\ longer[n + 1] = x
      BY <1>1, <1>3
    <3>2. QED BY <1>2, <3>1, JoinAt DEF JoinStep
  <2>3. <<>> \o x = x /\ <<>> \in Seq(S)
    BY ConcatEmptySeq
  <2>4. FlattenSeq(parts) = <<>>
    BY <2>1
  <2>5. QED BY <1>2, <2>2, <2>3, <2>4 DEF longer
<1>4. CASE n # 0
  <2>1. PICK f : IsJoin(f, parts, n) /\ FlattenSeq(parts) = f[n]
    BY <1>1, <1>4, FlattenIsJoin
  <2> DEFINE K == {k \in Nat : k \in 1 .. n => g[k] = f[k] /\ f[k] \in Seq(S)}
  <2>2. 0 \in K
    OBVIOUS
  <2>3. ASSUME NEW k \in K PROVE k + 1 \in K
    <3>1. k \in Nat
      OBVIOUS
    <3> SUFFICES ASSUME k + 1 \in 1 .. n
                 PROVE  g[k + 1] = f[k + 1] /\ f[k + 1] \in Seq(S)
      BY <3>1
    <3>2. k + 1 \in 1 .. n + 1
      BY <1>1, <3>1
    <3>3. /\ f[k + 1] = IF k + 1 = 1 THEN parts[k + 1] ELSE f[k + 1 - 1] \o parts[k + 1]
          /\ g[k + 1] = IF k + 1 = 1 THEN longer[k + 1] ELSE g[k + 1 - 1] \o longer[k + 1]
      <4>1. \A j \in 1 .. n : f[j] = JoinStep(f, parts, j)
        BY <2>1, JoinAt, Zenon
      <4>2. \A j \in 1 .. n + 1 : g[j] = JoinStep(g, longer, j)
        BY <1>2, JoinAt, Zenon
      <4>3. f[k + 1] = JoinStep(f, parts, k + 1) /\ g[k + 1] = JoinStep(g, longer, k + 1)
        BY <3>2, <4>1, <4>2
      <4>4. QED BY <4>3 DEF JoinStep
    <3>4. longer[k + 1] = parts[k + 1] /\ parts[k + 1] \in Seq(S)
      BY <1>1
    <3>5. CASE k = 0
      BY <3>3, <3>4, <3>5
    <3>6. CASE k # 0
      <4>1. k \in 1 .. n /\ k + 1 - 1 = k /\ k + 1 # 1
        BY <1>1, <3>1, <3>6
      <4>2. g[k] = f[k] /\ f[k] \in Seq(S)
        BY <4>1
      <4>3. f[k] \o parts[k + 1] \in Seq(S)
        BY <3>4, <4>2, ConcatProperties
      <4>4. QED BY <3>3, <3>4, <4>1, <4>2, <4>3
    <3>7. QED BY <3>1, <3>5, <3>6
  <2>4. K \in SUBSET Nat
    OBVIOUS
  <2> HIDE DEF K
  <2>5. K = Nat
    BY <2>2, <2>3, <2>4, SetInduction
  <2>6. g[n] = f[n] /\ f[n] \in Seq(S)
    <3>1. n \in Nat /\ n \in 1 .. n
      BY <1>1, <1>4
    <3>2. n \in K
      BY <2>5, <3>1
    <3>3. QED BY <3>1, <3>2 DEF K
  <2>7. g[n + 1] = g[n] \o x
    <3>1. n + 1 \in 1 .. n + 1 /\ n + 1 # 1 /\ n + 1 - 1 = n
      BY <1>1, <1>4
    <3>2. \A j \in 1 .. n + 1 : g[j] = JoinStep(g, longer, j)
      BY <1>2, JoinAt, Zenon
    <3>3. g[n + 1] = JoinStep(g, longer, n + 1)
      BY <3>1, <3>2
    <3>4. QED BY <1>1, <3>1, <3>3 DEF JoinStep
  <2>8. QED BY <1>2, <2>1, <2>6, <2>7 DEF longer
<1>5. QED BY <1>3, <1>4

(* Empty parts are joined to nothing.                                      *)
LEMMA FlattenEmpty ==
  ASSUME NEW parts, Len(parts) \in Nat, \A k \in 1 .. Len(parts) : parts[k] = <<>>,
         Len(parts) > 0
  PROVE  FlattenSeq(parts) = <<>>
<1>1. PICK f : IsJoin(f, parts, Len(parts)) /\ FlattenSeq(parts) = f[Len(parts)]
  BY FlattenIsJoin
<1> DEFINE n == Len(parts)
           K == {k \in Nat : k \in 1 .. n => f[k] = <<>>}
<1>2. 0 \in K
  OBVIOUS
<1>3. ASSUME NEW k \in K PROVE k + 1 \in K
  <2>1. k \in Nat
    OBVIOUS
  <2> SUFFICES ASSUME k + 1 \in 1 .. n PROVE f[k + 1] = <<>>
    BY <2>1
  <2>2. f[k + 1] = IF k + 1 = 1 THEN parts[k + 1] ELSE f[k + 1 - 1] \o parts[k + 1]
    BY <1>1, JoinAt DEF JoinStep
  <2>3. parts[k + 1] = <<>>
    OBVIOUS
  <2>4. CASE k = 0
    BY <2>2, <2>3, <2>4
  <2>5. CASE k # 0
    <3>1. k \in 1 .. n /\ k + 1 - 1 = k /\ k + 1 # 1
      BY <2>1, <2>5
    <3>2. f[k] = <<>>
      BY <3>1
    <3>3. <<>> \o <<>> = <<>>
      OBVIOUS
    <3>4. QED BY <2>2, <2>3, <3>1, <3>2, <3>3
  <2>6. QED BY <2>4, <2>5
<1>4. K \in SUBSET Nat
  OBVIOUS
<1> HIDE DEF K
<1>5. K = Nat
  BY <1>2, <1>3, <1>4, SetInduction
<1>6. QED BY <1>1, <1>5 DEF K

(* The parts of the attachment in the lines.                               *)
Chunks(lines) == [n \in DOMAIN lines |-> lines[n].data]
Joined(lines) == FlattenSeq(Chunks(lines))

(* A line more, and what it holds of the attachment is joined to the rest. *)
LEMMA JoinedAppend ==
  ASSUME NEW lines \in Seq(Line), NEW line \in Line
  PROVE  /\ Joined(lines) \in Seq(Character)
         /\ Joined(Append(lines, line)) = Joined(lines) \o line.data
<1>1. \A l \in Line : l.data \in Seq(Character)
  BY DEF Line
<1>2. Len(lines) \in Nat /\ DOMAIN lines = 1 .. Len(lines)
  OBVIOUS
<1>3. Chunks(lines) \in Seq(Seq(Character)) /\ Len(Chunks(lines)) = Len(lines)
  <2>1. \A k \in 1 .. Len(lines) : lines[k].data \in Seq(Character)
    BY <1>1
  <2>2. QED BY <1>2, <2>1, IsASeq DEF Chunks
<1>4. Chunks(Append(lines, line)) = Append(Chunks(lines), line.data)
  <2> DEFINE a == Append(lines, line)
             c == Append(Chunks(lines), line.data)
  <2>1. /\ DOMAIN a = 1 .. Len(lines) + 1 /\ a[Len(lines) + 1] = line
        /\ \A k \in 1 .. Len(lines) : a[k] = lines[k]
    BY AppendProperties, <1>2
  <2>2. /\ c \in Seq(Seq(Character)) /\ Len(c) = Len(lines) + 1
        /\ c[Len(lines) + 1] = line.data
        /\ \A k \in 1 .. Len(lines) : c[k] = Chunks(lines)[k]
    BY <1>1, <1>3, AppendProperties
  <2> HIDE DEF a, c
  <2>3. \A k \in 1 .. Len(lines) : Chunks(lines)[k] = lines[k].data
    BY <1>2 DEF Chunks
  <2>4. c = [k \in 1 .. Len(lines) + 1 |-> c[k]]
    BY <2>2
  <2>5. Chunks(a) = [k \in 1 .. Len(lines) + 1 |-> a[k].data]
    BY <2>1 DEF Chunks
  <2>6. \A k \in 1 .. Len(lines) + 1 : c[k] = a[k].data
    <3>1. TAKE k \in 1 .. Len(lines) + 1
    <3>2. k = Len(lines) + 1 \/ k \in 1 .. Len(lines)
      BY <1>2
    <3>3. QED BY <3>2, <2>1, <2>2, <2>3
  <2>7. QED BY <2>4, <2>5, <2>6 DEF a, c
<1>5. line.data \in Seq(Character)
  BY <1>1
<1>6. QED BY <1>3, <1>4, <1>5, FlattenAppend DEF Joined
-----------------------------------------------------------------------------
(* The lines hold the attachment as far as the loop has come, the whole of *)
(* it when the message is closed; main.c has none.                         *)
AttachInv ==
  file # NoFile =>
    /\ file_content = IF pc = "attach" THEN <<>> ELSE base64_encode(file)
    /\ pc = "attach" => i = 0 /\ Joined(mail_content) = <<>>
    /\ pc = "chunks" =>
         Joined(mail_content) = SubSeq(file_content, 1, Smaller(i, Len(file_content)))
    /\ pc \notin {"attach", "chunks"} => Joined(mail_content) = file_content

(* No line of the message's fields holds a part of it.                     *)
LEMMA FieldsHoldNothing == Joined(Fields) = <<>>
<1> DEFINE names == <<"To", "From", "Subject", "Date", "MIME-Version", "Content-Type", "empty",
                      "boundary", "Content-Type", "Content-Transfer-Encoding", "empty", "text",
                      "empty", "empty", "boundary", "Content-Type",
                      "Content-Transfer-Encoding", "Content-Disposition", "empty">>
<1>1. Fields = Lines(names) /\ Len(names) = 19
  BY DEF Fields
<1> HIDE DEF names
<1>2. Fields = [n \in 1 .. 19 |-> Plain(names[n])]
  BY <1>1 DEF Lines
<1>3. Chunks(Fields) = [n \in 1 .. 19 |-> <<>>]
  BY <1>2 DEF Chunks, Plain
<1>4. Len(Chunks(Fields)) = 19
  BY <1>3
<1>5. \A n \in 1 .. 19 : Chunks(Fields)[n] = <<>>
  BY <1>3
<1>6. /\ Len(Chunks(Fields)) \in Nat /\ Len(Chunks(Fields)) > 0
      /\ \A n \in 1 .. Len(Chunks(Fields)) : Chunks(Fields)[n] = <<>>
  BY <1>4, <1>5
<1>7. FlattenSeq(Chunks(Fields)) = <<>>
  BY <1>6, FlattenEmpty, Zenon
<1>8. QED BY <1>7 DEF Joined

LEMMA InitAttach == Init => AttachInv
BY FieldsHoldNothing DEF Init, AttachInv

LEMMA AttachInductive == MsgInv /\ AttachInv /\ [Next]_vars => AttachInv'
<1> SUFFICES ASSUME MsgInv, AttachInv, [Next]_vars, file' # NoFile PROVE AttachInv'
  BY DEF AttachInv
<1>1. file' = file /\ file # NoFile
  BY DEF Next, Build, ReadFile, AddChunk, ChunksEnd, CloseMessage, Send, EasyInit,
     AppendRecipient, Perform, Accepted, Cleanup, Callback, payload_source, NoHandle,
     PerformFails, msgVars, vars
<1>2. CASE ReadFile
  <2>1. file_content' = base64_encode(file) /\ pc' = "chunks" /\ UNCHANGED <<i, mail_content>>
    BY <1>1, <1>2 DEF ReadFile
  <2>2. i' = 0 /\ Joined(mail_content') = <<>>
    BY <1>1, <1>2, <2>1 DEF ReadFile, AttachInv
  <2>3. Len(file_content') \in Nat
    <3>1. file \in Seq(0 .. 255)
      BY <1>1, EmailAssumption DEF MsgInv
    <3>2. QED BY <2>1, <3>1, EncodingIsSeq
  <2>4. SubSeq(file_content', 1, Smaller(i', Len(file_content'))) = <<>>
    <3>1. Smaller(i', Len(file_content')) = 0
      BY <2>2, <2>3 DEF Smaller
    <3>2. QED BY <3>1
  <2>5. QED BY <1>1, <2>1, <2>2, <2>4 DEF AttachInv
<1>3. CASE AddChunk
  <2> DEFINE n == Len(file_content)
  <2>1. /\ i \in Nat /\ n \in Nat /\ i < n /\ chunk_size \in Nat \ {0}
        /\ UintRange \in Nat \ {0} /\ n + chunk_size <= UintRange
        /\ file_content \in Seq(Character) /\ mail_content \in Seq(Line)
    BY <1>3, EmailAssumption DEF AddChunk, MsgInv
  <2>2. (i + chunk_size) % UintRange = i + chunk_size
    <3> DEFINE x == i + chunk_size
    <3>1. x \in Nat /\ UintRange \in Nat /\ x < UintRange
      BY <2>1
    <3> HIDE DEF x
    <3>2. x % UintRange = x
      BY <3>1
    <3>3. QED BY <3>2 DEF x
  <2>3. i' = i + chunk_size /\ UNCHANGED <<file, file_content, pc>> /\ pc = "chunks"
    BY <1>3, <2>2 DEF AddChunk
  <2> DEFINE upto == Smaller(i + chunk_size, n)
             chunk == SubSeq(file_content, i + 1, upto)
  <2>4. upto \in Nat /\ i <= upto /\ upto <= n /\ upto - i <= chunk_size
    BY <2>1 DEF Smaller
  <2>5. mail_content' = Append(mail_content, Data(chunk))
    <3>1. CASE i + chunk_size < n
      BY <1>3, <2>2, <3>1 DEF AddChunk, Add, Smaller
    <3>2. CASE ~(i + chunk_size < n)
      BY <1>3, <2>2, <3>2 DEF AddChunk, Add, Smaller
    <3>3. QED BY <3>1, <3>2
  <2> HIDE DEF upto
  <2>6. chunk \in Seq(Character) /\ Len(chunk) <= chunk_size
    <3>1. \A j \in i + 1 .. upto : file_content[j] \in Character
      BY <2>1, <2>4
    <3>2. QED BY <2>1, <2>4, <3>1, SubSeqProperties
  <2>7. Joined(mail_content') = Joined(mail_content) \o chunk
    <3> HIDE DEF chunk
    <3>1. Data(chunk) \in Line
      BY <2>6, ChunkFits
    <3>2. Joined(Append(mail_content, Data(chunk))) = Joined(mail_content) \o Data(chunk).data
      BY <2>1, <3>1, JoinedAppend
    <3>3. QED BY <2>5, <3>2 DEF Data
  <2>8. Joined(mail_content) = SubSeq(file_content, 1, i)
    BY <1>1, <2>1, <2>3 DEF AttachInv, Smaller
  <2>9. SubSeq(file_content, 1, i) \o SubSeq(file_content, i + 1, upto)
          = SubSeq(file_content, 1, upto)
    BY <2>1, <2>4, ConcatAdjacentSubSeq
  <2>10. Joined(mail_content') = SubSeq(file_content', 1, Smaller(i', Len(file_content')))
    BY <2>3, <2>7, <2>8, <2>9 DEF upto
  <2>11. QED BY <1>1, <2>3, <2>10 DEF AttachInv
<1>4. CASE ChunksEnd
  <2>1. /\ i \in Nat /\ Len(file_content) \in Nat /\ i >= Len(file_content) /\ pc = "chunks"
        /\ file_content \in Seq(Character)
        /\ pc' = "close" /\ UNCHANGED <<file, file_content, mail_content>>
    BY <1>4 DEF ChunksEnd, MsgInv, msgVars
  <2>2. Smaller(i, Len(file_content)) = Len(file_content)
    BY <2>1 DEF Smaller
  <2>3. SubSeq(file_content, 1, Len(file_content)) = file_content
    BY <2>1
  <2>4. QED BY <1>1, <2>1, <2>2, <2>3 DEF AttachInv
<1>5. CASE CloseMessage
  <2>1. Plain("boundary") \in Line /\ mail_content \in Seq(Line)
    BY PlainFits DEF MsgInv, PlainNames
  <2>2. Joined(mail_content') = Joined(mail_content) \o Plain("boundary").data
    BY <1>5, <2>1, JoinedAppend DEF CloseMessage, Add
  <2>3. Joined(mail_content) \in Seq(Character)
    BY <2>1, JoinedAppend
  <2>4. Joined(mail_content) \o <<>> = Joined(mail_content)
    BY <2>3, ConcatEmptySeq
  <2>5. QED BY <1>1, <1>5, <2>2, <2>4 DEF CloseMessage, AttachInv, Plain
<1>6. CASE Send \/ Callback \/ NoHandle \/ PerformFails
  <2>1. /\ UNCHANGED <<file, file_content, i, mail_content>>
        /\ pc \notin {"attach", "chunks"} /\ pc' \notin {"attach", "chunks"}
    BY <1>6 DEF Send, EasyInit, AppendRecipient, Perform, Accepted, Cleanup, Callback,
       payload_source, NoHandle, PerformFails, msgVars
  <2>2. QED BY <1>1, <2>1 DEF AttachInv
<1>7. CASE UNCHANGED vars
  BY <1>1, <1>7 DEF AttachInv, vars, msgVars
<1>8. QED BY <1>2, <1>3, <1>4, <1>5, <1>6, <1>7 DEF Next, Build

(* A message that the server has taken decodes to the file: all of its     *)
(* lines were sent, their parts are the encoding, and nothing is lost in   *)
(* that, whatever the length of the file and of the chunks.                *)
THEOREM AttachmentArrivesAlways == Spec => []AttachmentArrives
<1>1. MsgInv /\ SentInv /\ AttachInv => AttachmentArrives
  <2> SUFFICES ASSUME MsgInv, SentInv, AttachInv, pc = "ended", res = "OK", file # NoFile
               PROVE  base64_decode(FlattenSeq(Chunks(sent))) = file
    BY DEF AttachmentArrives, Chunks
  <2>1. sent = mail_content
    <3>1. Len(sent) = Len(mail_content) /\ sent \in Seq(Line) /\ mail_content \in Seq(Line)
      BY DEF SentInv, MsgInv
    <3>2. \A n \in 1 .. Len(sent) : sent[n] = mail_content[n]
      BY DEF SentInv
    <3>3. QED BY <3>1, <3>2, SeqEqual
  <2>2. FlattenSeq(Chunks(sent)) = base64_encode(file)
    BY <2>1 DEF AttachInv, Joined
  <2>3. file \in Seq(0 .. 255)
    BY EmailAssumption DEF MsgInv
  <2>4. QED BY <2>2, <2>3, DecodeOfEncode
<1>2. QED BY <1>1, InitMsg, MsgInductive, InitSent, SentInductive, InitAttach, AttachInductive,
             PTL DEF Spec
=============================================================================
