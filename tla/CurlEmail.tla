------------------------------- MODULE CurlEmail -------------------------------
(***************************************************************************)
(* cpp/email_with_curl: main.cpp puts a message together line by line, the *)
(* attachment base64-encoded and cut into chunks, and libcurl takes it     *)
(* from a callback, a line at a time, into a buffer of its own.  main.c    *)
(* sends lines that are written into the program.                          *)
(*                                                                         *)
(* A line is known by its name and, if it holds a part of the attachment,  *)
(* by that.  Characters of base64 are their values, 64 stands for "=".     *)
(***************************************************************************)
EXTENDS Integers, Sequences, SequencesExt

CONSTANTS
  Files,        \* what the attachment may hold: sequences of bytes
  NoFile,       \* it cannot be opened
  chunk_size,   \* 15000
  UintRange,    \* values of an unsigned int
  PlainLength,  \* the most characters in a line that is not of the attachment
  Buffers       \* size * nmemb: what libcurl may offer to the callback

ASSUME EmailAssumption ==
  /\ \A f \in Files : f \in Seq(0 .. 255)
  /\ NoFile \notin Files
  /\ chunk_size \in Nat \ {0} /\ UintRange \in Nat \ {0} /\ PlainLength \in Nat \ {0, 1}
  /\ Buffers \subseteq Nat
  /\ \A b \in Buffers : b >= PlainLength /\ b >= chunk_size + 2
  /\ \A f \in Files : 4 * ((Len(f) + 2) \div 3) + chunk_size <= UintRange

VARIABLES
  program,       \* "main.cpp" or "main.c"
  file,          \* the attachment
  file_content,  \* its encoding
  i,             \* the loop over the chunks
  mail_content,  \* the lines of the message
  pc,            \* where the program is
  lines_read,    \* upload_ctx
  rest,          \* recipients that are not in libcurl's list yet
  recipients,    \* the list
  sent,          \* history: what the callback has given to libcurl
  eof,           \* whether it has said that there is no more
  overrun,       \* history: whether it wrote past the end of the buffer
  res            \* the result of send

msgVars == <<program, file, file_content, i, mail_content>>
curlVars == <<lines_read, rest, recipients, sent, eof, overrun, res>>
vars == <<msgVars, pc, curlVars>>
-----------------------------------------------------------------------------
(* base64.                                                                 *)
Pad == 64

Smaller(a, b) == IF a < b THEN a ELSE b

(* The k-th of the four characters for three bytes. *)
Sextet(a, b, c, k) ==
  <<a \div 4, (a % 4) * 16 + b \div 16, (b % 16) * 4 + c \div 64, c % 64>>[k]

(* Mutant of base64_encode: an incomplete last group is lost. *)
EncodeDropsTail(bytes) ==
  [k \in 1 .. 4 * (Len(bytes) \div 3) |->
     LET at == 3 * ((k - 1) \div 4)
     IN Sextet(bytes[at + 1], bytes[at + 2], bytes[at + 3], ((k - 1) % 4) + 1)]

(* base64_encode: groups of three bytes, the last one filled with zeros;   *)
(* of its characters one more than it has bytes, then "=".                 *)
base64_encode(bytes) ==
  LET byte(j) == IF j <= Len(bytes) THEN bytes[j] ELSE 0
  IN [k \in 1 .. 4 * ((Len(bytes) + 2) \div 3) |->
        LET at == 3 * ((k - 1) \div 4)
            nth == ((k - 1) % 4) + 1
        IN IF nth <= Smaller(3, Len(bytes) - at) + 1
             THEN Sextet(byte(at + 1), byte(at + 2), byte(at + 3), nth)
             ELSE Pad]

(* The k-th of the three bytes for four characters. *)
Octet(a, b, c, d, k) ==
  <<(a * 4 + ((b \div 16) % 4)) % 256,
    (b % 16) * 16 + ((c \div 4) % 16),
    ((c % 4) * 64 + d) % 256>>[k]

(* base64_decode, which stops at the first "=": of m characters in the     *)
(* last group, m - 1 bytes.  What fills the group is not in the alphabet,  *)
(* and its place there is find's npos, as an unsigned char.                *)
base64_decode(chars) ==
  LET end == CHOOSE n \in 0 .. Len(chars) :
               /\ \A j \in 1 .. n : chars[j] # Pad
               /\ n < Len(chars) => chars[n + 1] = Pad
      char(j) == IF j <= end THEN chars[j] ELSE 255
      left == end % 4
  IN [k \in 1 .. 3 * (end \div 4) + (IF left = 0 THEN 0 ELSE left - 1) |->
        LET at == 4 * ((k - 1) \div 3)
        IN Octet(char(at + 1), char(at + 2), char(at + 3), char(at + 4), ((k - 1) % 3) + 1)]
-----------------------------------------------------------------------------
(* The lines of a message.                                                 *)
Plain(name) == [name |-> name, data |-> <<>>]
Data(chunk) == [name |-> "data", data |-> chunk]
PlainNames == {"To", "From", "Cc", "Subject", "Date", "MIME-Version", "Content-Type",
               "Content-Transfer-Encoding", "Content-Disposition", "empty", "boundary", "text"}

(* The callback copies so many characters, the line's end included. *)
Length(line) == IF line.name = "data" THEN Len(line.data) + 2
                ELSE IF line.name = "empty" THEN 2 ELSE PlainLength

Lines(names) == [n \in 1 .. Len(names) |-> Plain(names[n])]

(* The fields of the message, of its text and of the attachment.           *)
Fields == Lines(<<"To", "From", "Subject", "Date", "MIME-Version", "Content-Type", "empty",
                  "boundary", "Content-Type", "Content-Transfer-Encoding", "empty", "text",
                  "empty", "empty", "boundary", "Content-Type", "Content-Transfer-Encoding",
                  "Content-Disposition", "empty">>)

payload_text == Lines(<<"Date", "To", "From", "Cc", "Subject", "MIME-Version", "Content-Type",
                        "Content-Transfer-Encoding", "empty", "text", "empty", "text", "text">>)

Init ==
  /\ \/ /\ program = "main.cpp" /\ file \in Files \cup {NoFile}
        /\ mail_content = Fields /\ pc = "attach"
        /\ rest = <<"paul">>
     \/ /\ program = "main.c" /\ file = NoFile
        /\ mail_content = payload_text /\ pc = "send"
        /\ rest = <<"to", "cc">>
  /\ file_content = <<>> /\ i = 0
  /\ lines_read = 0 /\ recipients = <<>>
  /\ sent = <<>> /\ eof = FALSE /\ overrun = FALSE /\ res = "OK"

Add(line) == mail_content' = Append(mail_content, line)

(* The attachment is read and encoded, or it cannot be opened. *)
ReadFile ==
  /\ pc = "attach"
  /\ IF file = NoFile THEN pc' = "close" /\ UNCHANGED file_content
                      ELSE pc' = "chunks" /\ file_content' = base64_encode(file)
  /\ UNCHANGED <<program, file, i, mail_content, curlVars>>

(* Mutant of AddChunk: the attachment is one line. *)
AddWhole ==
  /\ pc = "chunks"
  /\ i < Len(file_content)
  /\ Add(Data(file_content))
  /\ i' = Len(file_content)
  /\ UNCHANGED <<program, file, file_content, pc, curlVars>>

(* One round of the loop; i is an unsigned int, the size is not. *)
AddChunk ==
  /\ pc = "chunks"
  /\ i < Len(file_content)
  /\ IF (i + chunk_size) % UintRange < Len(file_content)
       THEN Add(Data(SubSeq(file_content, i + 1, i + chunk_size)))
       ELSE Add(Data(SubSeq(file_content, i + 1, Len(file_content))))
  /\ i' = (i + chunk_size) % UintRange
  /\ UNCHANGED <<program, file, file_content, pc, curlVars>>

ChunksEnd ==
  /\ pc = "chunks"
  /\ i >= Len(file_content)
  /\ pc' = "close"
  /\ UNCHANGED <<msgVars, curlVars>>

CloseMessage ==
  /\ pc = "close"
  /\ Add(Plain("boundary"))
  /\ pc' = "send"
  /\ UNCHANGED <<program, file, file_content, i, curlVars>>
-----------------------------------------------------------------------------
(* send(), the whole of main() in main.c.  Without a handle it does        *)
(* nothing, and returns CURLE_OK.                                          *)
NoHandle ==
  /\ pc = "send"
  /\ pc' = "no handle"
  /\ UNCHANGED <<msgVars, curlVars>>

EasyInit ==
  /\ pc = "send"
  /\ pc' = "list"
  /\ UNCHANGED <<msgVars, curlVars>>

AppendRecipient ==
  /\ pc = "list"
  /\ rest # <<>>
  /\ recipients' = Append(recipients, Head(rest))
  /\ rest' = Tail(rest)
  /\ UNCHANGED <<msgVars, pc, lines_read, sent, eof, overrun, res>>

Perform ==
  /\ pc = "list"
  /\ rest = <<>>
  /\ pc' = "perform"
  /\ UNCHANGED <<msgVars, curlVars>>

(* Mutant of payload_source: it does not count its calls at the first      *)
(* line.                                                                   *)
RepeatsFirst(b) ==
  /\ pc = "perform" /\ ~eof
  /\ IF lines_read < Len(mail_content)
       THEN /\ sent' = Append(sent, mail_content[lines_read + 1])
            /\ overrun' = (overrun \/ Length(mail_content[lines_read + 1]) > b)
            /\ lines_read' = IF Len(sent) = 0 THEN 0 ELSE lines_read + 1
            /\ UNCHANGED eof
       ELSE eof' = TRUE /\ UNCHANGED <<lines_read, sent, overrun>>
  /\ UNCHANGED <<msgVars, pc, rest, recipients, res>>

(* libcurl calls with a buffer of b characters: the next line is copied,   *)
(* however long, or the answer is 0, the end of the message.               *)
payload_source(b) ==
  /\ pc = "perform" /\ ~eof
  /\ IF lines_read < Len(mail_content)
       THEN /\ sent' = Append(sent, mail_content[lines_read + 1])
            /\ overrun' = (overrun \/ Length(mail_content[lines_read + 1]) > b)
            /\ lines_read' = lines_read + 1
            /\ UNCHANGED eof
       ELSE eof' = TRUE /\ UNCHANGED <<lines_read, sent, overrun>>
  /\ UNCHANGED <<msgVars, pc, rest, recipients, res>>

(* The server has taken the message, or anything has gone wrong: it cannot *)
(* be reached, refuses a recipient, closes the connection.                 *)
Accepted ==
  /\ pc = "perform" /\ eof
  /\ pc' = "cleanup"
  /\ UNCHANGED <<msgVars, curlVars>>

PerformFails ==
  /\ pc = "perform"
  /\ res' = "failed"
  /\ pc' = "cleanup"
  /\ UNCHANGED <<msgVars, lines_read, rest, recipients, sent, eof, overrun>>

(* The list and the handle are freed on both ways. *)
Cleanup ==
  /\ pc = "cleanup"
  /\ pc' = "ended"
  /\ recipients' = <<>>
  /\ UNCHANGED <<msgVars, lines_read, rest, sent, eof, overrun, res>>

Build == ReadFile \/ AddChunk \/ ChunksEnd \/ CloseMessage
Send == EasyInit \/ AppendRecipient \/ Perform \/ Accepted \/ Cleanup
Callback == \E b \in Buffers : payload_source(b)

Next == Build \/ Send \/ Callback \/ NoHandle \/ PerformFails

Spec == Init /\ [][Next]_vars
-----------------------------------------------------------------------------
(* "len should not be larger than size*nmemb": the callback never writes   *)
(* past the end of libcurl's buffer, however long the attachment is.       *)
NothingOverrun == ~overrun

(* libcurl is given the lines in their order, each once, and a message     *)
(* that the server has taken had all of them.                              *)
MessageArrivesWhole ==
  /\ sent = SubSeq(mail_content, 1, Len(sent))
  /\ pc = "ended" /\ res = "OK" => Len(sent) = Len(mail_content)

(* What the recipient decodes from the lines of the attachment is the      *)
(* file, wherever the chunks were cut and whatever the last group holds.   *)
AttachmentArrives ==
  pc = "ended" /\ res = "OK" /\ file # NoFile =>
    base64_decode(FlattenSeq([n \in DOMAIN sent |-> sent[n].data])) = file
=============================================================================
