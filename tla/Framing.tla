------------------------------ MODULE Framing ------------------------------
(* One connection between a self-service device and the gateway, down to    *)
(* the stream of bytes: how internal/server/connection.go cuts it into      *)
(* messages, how internal/sip2/parser checks and takes them apart, which    *)
(* answer is built for which message, and with which tenant's settings each *)
(* of that happens, while a login moves the connection to another tenant.   *)
(* What the handlers do with FOLIO is in the other modules.                 *)
(*                                                                          *)
(* The stream is a sequence of units: a control character, a message code,  *)
(* the fixed-length part, a variable-length field with its delimiter, or a  *)
(* part of the trailer AY<sequence>AZ<checksum>.  A unit has its length in  *)
(* characters, the sum of its bytes, and the mark AY or AZ found in it.     *)
EXTENDS Integers, Sequences, FiniteSets, SequencesExt, FiniteSetsExt

CONSTANTS Tenants,      \* the tenants' names
          Delimiter,    \* tenant -> "CR", "LF" or "CRLF", after UnescapeDelimiter
          Detects,      \* tenant -> errorDetectionEnabled
          Supported,    \* tenant -> the codes of its enabled supportedMessages
          Requests,     \* what the device may ask
          Terminators,  \* what a device may end its messages with
          MaxBytes,     \* maxSIP2MessageBytes
          MaxSent       \* bound: messages a device sends

Unit(ch, n, sum, mark) == [ch |-> ch, n |-> n, sum |-> sum, mark |-> mark]
CR == Unit("CR", 1, 13, "none")
LF == Unit("LF", 1, 10, "none")
AY == Unit("AY", 2, 154, "AY")
AZ == Unit("AZ", 2, 155, "AZ")
Field(name, n, sum) == Unit(name, n, sum, "none")
IsControl(u) == u \in {CR, LF}

Bytes(d) == CASE d = "CR" -> <<CR>> [] d = "LF" -> <<LF>> [] d = "CRLF" -> <<CR, LF>>

Chars(us) ==
  LET Upto[i \in 0..Len(us)] == IF i = 0 THEN 0 ELSE Upto[i - 1] + us[i].n
  IN Upto[Len(us)]
Word == 65536  \* what 16 bits hold
Sum16(us) ==
  LET Upto[i \in 0..Len(us)] == IF i = 0 THEN 0 ELSE (Upto[i - 1] + us[i].sum) % Word
  IN Upto[Len(us)]

-----------------------------------------------------------------------------
(* The message codes (parser/command.go) and the fixed-length part of each  *)
(* request (parser/parser.go).                                              *)

ResponseOf ==
  [c \in {"09", "11", "15", "17", "19", "23", "25", "29", "35", "37", "63", "65",
          "93", "97", "99"} |->
     CASE c = "09" -> "10" [] c = "11" -> "12" [] c = "15" -> "16" [] c = "17" -> "18"
       [] c = "19" -> "20" [] c = "23" -> "24" [] c = "25" -> "26" [] c = "29" -> "30"
       [] c = "35" -> "36" [] c = "37" -> "38" [] c = "63" -> "64" [] c = "65" -> "66"
       [] c = "93" -> "94" [] c = "97" -> "96" [] c = "99" -> "98"]
RequestCodes == DOMAIN ResponseOf \cup {"01"}
ResponseCodes == {ResponseOf[c] : c \in DOMAIN ResponseOf}

(* The registered handlers; 01, 15 and 25 have none.                        *)
Handled == (RequestCodes \ {"01", "15", "25"}) \cup {"96"}

(* Where the variable-length fields may start: at the last of these offsets *)
(* that the content reaches, else at once.                                  *)
FieldsStarts(code) ==
  CASE code = "93" -> {2}             [] code = "23" -> {21}
    [] code \in {"11", "29"} -> {20, 38} [] code = "09" -> {37}
    [] code = "63" -> {31}            [] code \in {"17", "19", "35", "65"} -> {18}
    [] code = "37" -> {25}            [] code = "99" -> {8}
    [] OTHER -> {}
FieldsStart(code, n) == Max({0} \cup {s \in FieldsStarts(code) : s <= n})
FixedLength(code) == Max({0} \cup FieldsStarts(code))

(* The fixed-length fields of a code, and how long the content has to be    *)
(* for each to be taken.                                                    *)
FixedFields(code) ==
  CASE code = "93" -> {<<"uid_algorithm", 2>>, <<"pwd_algorithm", 2>>}
    [] code = "23" -> {<<"language", 21>>, <<"transaction_date", 21>>}
    [] code = "11" -> {<<"sc_renewal_policy", 20>>, <<"no_block", 20>>,
                       <<"transaction_date", 20>>, <<"nb_due_date", 38>>}
    [] code = "29" -> {<<"third_party_allowed", 20>>, <<"no_block", 20>>,
                       <<"transaction_date", 20>>, <<"nb_due_date", 38>>}
    [] code = "09" -> {<<"no_block", 37>>, <<"transaction_date", 37>>, <<"return_date", 37>>}
    [] code = "63" -> {<<"language", 31>>, <<"transaction_date", 31>>, <<"summary", 31>>}
    [] code \in {"17", "19", "35", "65"} -> {<<"transaction_date", 18>>}
    [] code = "37" -> {<<"transaction_date", 20>>, <<"fee_type", 20>>,
                       <<"payment_type", 22>>, <<"currency_type", 25>>}
    [] code = "99" -> {<<"status_code", 4>>, <<"max_print_width", 4>>,
                       <<"protocol_version", 8>>}
    [] OTHER -> {}
ExtractFixedFields(code, n) == {f[1] : f \in {g \in FixedFields(code) : g[2] <= n}}

-----------------------------------------------------------------------------
(* The checksum (parser/checksum.go).                                       *)

(* The number that brings the sum of the bytes of us to 0 modulo 2^16.      *)
Checksum(us) == Unit("sum", 4, (Word - Sum16(us)) % Word, "none")

Where(us, mark) == {i \in DOMAIN us : us[i].mark = mark}

(* What ValidateChecksum makes of the content before the last 4 characters: *)
(* it looks for the first AZ and the last AY before it, and a field that    *)
(* has the letters AZ in it counts as one.                                  *)
Trailer(us) ==
  LET az == IF Where(us, "AZ") = {} THEN 0 ELSE Min(Where(us, "AZ"))
      ays == {i \in Where(us, "AY") : az = 0 \/ i < az}
      ay == IF ays = {} THEN 0 ELSE Max(ays)
      last == IF az = 0 THEN Len(us) ELSE az - 1
      seq == IF ay = 0 \/ az = 0 THEN <<>> ELSE SubSeq(us, ay + 1, last)
  IN [seq    |-> IF seq = <<>> THEN "" ELSE seq[1].ch,
      summed |-> IF ay = 0 THEN Append(SubSeq(us, 1, last), AZ)
                 ELSE SubSeq(us, 1, ay - 1) \o <<AY>> \o seq \o <<AZ>>]

(* Mutant: a trailer is there, whatever it says. *)
ChecksumPresent(us) == us # <<>> /\ Last(us).ch = "sum"

ChecksumValid(us) ==
  /\ us # <<>> /\ Last(us).ch = "sum"
  /\ (Sum16(Trailer(Front(us)).summed) + Last(us).sum) % Word = 0

(* StripChecksum cuts at the first AY: a field with these letters in it     *)
(* loses them and what follows.                                             *)
StripChecksum(us) ==
  IF Where(us, "AY") = {} THEN us
  ELSE LET i == Min(Where(us, "AY"))
       IN SubSeq(us, 1, i - 1) \o
            (IF us[i] = AY THEN <<>> ELSE <<Field("cut", us[i].n \div 2, us[i].sum \div 2)>>)

-----------------------------------------------------------------------------
(* A request of a device: its code, the length of its fixed part, which is  *)
(* complete, its fields and its sequence number.                            *)
Reserved == {"fixed", "AY", "AZ", "sum"}
FieldUnits ==
  {u \in [ch : STRING, n : Nat, sum : Nat, mark : {"none", "AY", "AZ"}] :
     u.ch \notin Reserved /\ ~IsControl(u)}
Request ==
  {r \in [code : STRING \ Reserved, fixed : Nat, fields : Seq(FieldUnits), seq : STRING] :
     r.fixed = FixedLength(r.code)}

ASSUME FramingAssumption ==
  /\ Delimiter \in [Tenants -> {"CR", "LF", "CRLF"}]
  /\ Detects \in [Tenants -> BOOLEAN]
  /\ Terminators \subseteq {"CR", "LF", "CRLF"}
  /\ MaxBytes \in Nat /\ MaxSent \in Nat
  /\ Requests \subseteq Request

(* How a device encodes it.                                                 *)
CodeUnit(code) == Unit(code, 2, 100, "none")
FixedUnit(n) == Unit("fixed", n, 7 * n, "none")
SeqUnit(s) == Unit(s, 1, 48, "seq")

Encode(r, checks, garbled) ==
  LET text == <<CodeUnit(r.code)>>
                \o (IF r.fixed = 0 THEN <<>> ELSE <<FixedUnit(r.fixed)>>) \o r.fields
      trailer == <<AY, SeqUnit(r.seq), AZ>>
      sum == Checksum(text \o trailer)
  IN IF ~checks THEN text
     ELSE Append(text \o trailer, IF garbled THEN [sum EXCEPT !.sum = (@ + 1) % Word] ELSE sum)

IsField(u) == u.ch \notin {"fixed", "AY", "AZ", "sum"} /\ u.mark # "seq"

(* The fields that start at or after the offset from; what is left of the   *)
(* fixed part before the first field takes that field with it.              *)
FieldsFrom(us, from) ==
  LET glued == us # <<>> /\ us[1].ch = "fixed" /\ from < us[1].n
      Upto[i \in 0..Len(us)] ==
        IF i = 0 THEN [at |-> 0, seen |-> <<>>]
        ELSE LET acc == Upto[i - 1]
                 starts == IsField(us[i]) /\ acc.at >= from /\ ~(glued /\ i = 2)
             IN [at   |-> acc.at + us[i].n,
                 seen |-> IF starts THEN Append(acc.seen, us[i].ch) ELSE acc.seen]
  IN Upto[Len(us)].seen

ParseError == [ok |-> FALSE, code |-> "", seq |-> "", fields |-> <<>>, fixed |-> {}]

(* Parser.Parse under the settings of the tenant t.                         *)
Parse(raw, t) ==
  IF Chars(raw) < 2 \/ (Detects[t] /\ ~ChecksumValid(raw)) THEN ParseError
  ELSE LET stripped == IF Detects[t] THEN StripChecksum(raw) ELSE raw
           code == raw[1].ch
           content == Tail(stripped)
       IN [ok     |-> TRUE,
           code   |-> code,
           seq    |-> IF Detects[t] THEN Trailer(Front(raw)).seq ELSE "",
           fields |-> FieldsFrom(content, FieldsStart(code, Chars(content))),
           fixed  |-> ExtractFixedFields(code, Chars(raw) - 2)]

(* Parser.ValidateMessage. *)
Valid(msg, t) ==
  /\ msg.code \in RequestCodes \cup ResponseCodes
  /\ msg.code \in Supported[t]
-----------------------------------------------------------------------------
(* Answers: the code, the sequence number, whether the fields AY and AZ are *)
(* there, and the delimiter.                                                *)
NoAnswer == [code |-> "", seq |-> "", ay |-> FALSE, az |-> FALSE, delimiter |-> ""]

(* ResponseBuilder.Build with the settings of the tenant t.                 *)
Build(code, seq, t) ==
  [code |-> code, seq |-> seq, ay |-> Detects[t] \/ seq # "", az |-> Detects[t],
   delimiter |-> Delimiter[t]]

(* 36, 20 and 96 are put together without the builder.                      *)
Bare(code, t) ==
  [code |-> code, seq |-> "", ay |-> FALSE, az |-> FALSE, delimiter |-> Delimiter[t]]

HandlerAnswer(msg, t) ==
  CASE msg.code \in {"35", "19", "97"} -> Bare(ResponseOf[msg.code], t)
    [] msg.code = "96" -> Bare("96", t)
    [] msg.code = "17" -> Build("18", "0", t)
    [] msg.code = "29" -> Build("30", IF msg.seq = "" THEN "0" ELSE msg.seq, t)
    [] OTHER -> Build(ResponseOf[msg.code], msg.seq, t)

(* Connection.buildErrorResponse: nothing for a code without a response.    *)
ErrorAnswer(msg, t) ==
  IF msg.code \in DOMAIN ResponseOf THEN Build(ResponseOf[msg.code], msg.seq, t) ELSE NoAnswer
-----------------------------------------------------------------------------
(***************************************************************************)
(* State.                                                                  *)
(***************************************************************************)
VARIABLES
  terminator, \* how the device ends its messages
  checks,     \* the device sends checksums
  sent,       \* what the device has sent: requests with the mark garbled
  gone,       \* the device has closed its side
  wire,       \* units on their way to the gateway
  pc,         \* where Handle is
  tenant,     \* the tenant of the session, of the parser and of the builder
  delim,      \* the delimiter readMessage works with
  buf,        \* what readMessage has collected
  raw,        \* the message being processed
  taken,      \* how many messages of the device were taken from the stream
  msg,        \* the parsed message
  reply,      \* the answer to write
  out         \* the answers written

device == <<terminator, checks, sent, gone>>
vars == <<terminator, checks, sent, gone, wire, pc, tenant, delim, buf, raw, taken, msg, reply,
          out>>

Init ==
  /\ terminator \in Terminators /\ checks \in BOOLEAN
  /\ sent = <<>> /\ gone = FALSE /\ wire = <<>>
  /\ pc = "poll" /\ tenant \in Tenants /\ delim = "CR" /\ buf = <<>> /\ raw = <<>>
  /\ taken = 0 /\ msg = ParseError /\ reply = NoAnswer /\ out = <<>>

(* The device: it may send before it is answered, it may give up a message  *)
(* half-way, and it may leave.                                              *)
DeviceSends == \E r \in Requests, garbled \in BOOLEAN :
  /\ ~gone /\ pc # "closed" /\ Len(sent) < MaxSent /\ (garbled => checks)
  /\ sent' = Append(sent, [request |-> r, garbled |-> garbled])
  /\ wire' = wire \o Encode(r, checks, garbled) \o Bytes(terminator)
  /\ UNCHANGED <<terminator, checks, gone, pc, tenant, delim, buf, raw, taken, msg, reply, out>>

DeviceBreaksOff == \E r \in Requests :
  LET text == Encode(r, checks, FALSE) \o Bytes(terminator)
  IN \E k \in {1, Len(text) - 1} :
       /\ ~gone /\ pc # "closed" /\ Len(sent) < MaxSent
       /\ wire' = wire \o SubSeq(text, 1, k)
       /\ sent' = IF k >= Len(text) - Len(Bytes(terminator)) \* the text itself is complete
                  THEN Append(sent, [request |-> r, garbled |-> FALSE]) ELSE sent
       /\ gone' = TRUE
       /\ UNCHANGED <<terminator, checks, pc, tenant, delim, buf, raw, taken, msg, reply, out>>

DeviceLeaves ==
  /\ ~gone /\ pc # "closed" /\ gone' = TRUE
  /\ UNCHANGED <<terminator, checks, sent, wire, pc, tenant, delim, buf, raw, taken, msg, reply,
                 out>>

(* The head of the loop: readMessage takes the delimiter of the tenant in   *)
(* force.                                                                   *)
StartsRead ==
  /\ pc = "poll" /\ pc' = "reading"
  /\ delim' = Delimiter[tenant] /\ buf' = <<>>
  /\ UNCHANGED <<device, wire, tenant, raw, taken, msg, reply, out>>

(* Mutant: every LF is discarded, not only a leading one. *)
StrayAnywhere(u) == u = LF /\ Bytes(delim)[1] # LF

(* Skipped: a LF at the start, unless the delimiter begins with one.        *)
Stray(u) == buf = <<>> /\ u = LF /\ Bytes(delim)[1] # LF

EndsInDelimiter(us) == IsSuffix(Bytes(delim), us)

(* Mutant: a trailing CR stays. *)
UnframedAsIs(us) == SubSeq(us, 1, Len(us) - Len(Bytes(delim)))

(* The message without its delimiter, and without trailing CRs if the       *)
(* delimiter is LF alone.                                                   *)
Unframed(us) ==
  LET body == SubSeq(us, 1, Len(us) - Len(Bytes(delim)))
      text == {i \in DOMAIN body : body[i] # CR}
  IN IF delim # "LF" THEN body ELSE SubSeq(body, 1, Max({0} \cup text))

ReadsUnit ==
  /\ pc = "reading" /\ wire # <<>>
  /\ LET u == Head(wire)
         us == Append(buf, u)
     IN IF Stray(u) THEN UNCHANGED <<pc, buf, raw, taken>>
        ELSE IF EndsInDelimiter(us)
          THEN /\ raw' = Unframed(us) /\ buf' = <<>> /\ pc' = "parsing"
               /\ taken' = IF raw' = <<>> THEN taken ELSE taken + 1
          ELSE /\ buf' = us
               /\ pc' = IF Chars(us) > MaxBytes THEN "closed" ELSE "reading"
               /\ UNCHANGED <<raw, taken>>
  /\ wire' = Tail(wire)
  /\ UNCHANGED <<device, tenant, delim, msg, reply, out>>

(* The device has left and all it sent is read. *)
EndOfStream ==
  /\ pc = "reading" /\ wire = <<>> /\ gone
  /\ pc' = "closed"
  /\ UNCHANGED <<device, wire, tenant, delim, buf, raw, taken, msg, reply, out>>

(* The read deadline passes, which only an answer moves: also with bytes of *)
(* a message still to be read.                                              *)
ReadFails ==
  /\ pc = "reading" /\ pc' = "closed"
  /\ UNCHANGED <<device, wire, tenant, delim, buf, raw, taken, msg, reply, out>>

(* processMessage: the parser of the tenant in force takes it apart.        *)
Parses ==
  /\ pc = "parsing" /\ pc' = "parsed"
  /\ msg' = Parse(raw, tenant)
  /\ UNCHANGED <<device, wire, tenant, delim, buf, raw, taken, reply, out>>

Forget == raw' = <<>> /\ msg' = ParseError /\ reply' = NoAnswer

(* It cannot be parsed, or is refused and its code has no response: also    *)
(* buildErrorResponse, which parses it again, has nothing to answer.        *)
Accepted == Valid(msg, tenant) /\ msg.code \in Handled
Drops ==
  /\ pc = "parsed" /\ (~msg.ok \/ (~Accepted /\ ErrorAnswer(msg, tenant) = NoAnswer))
  /\ pc' = "poll" /\ Forget
  /\ UNCHANGED <<device, wire, tenant, delim, buf, taken, out>>

(* An unknown code, one the tenant does not support, or one without a       *)
(* handler: an error answer.                                                *)
Refuses ==
  /\ pc = "parsed" /\ msg.ok /\ ~Accepted
  /\ reply' = ErrorAnswer(msg, tenant) /\ reply' # NoAnswer
  /\ pc' = "erring"
  /\ UNCHANGED <<device, wire, tenant, delim, buf, raw, taken, msg, out>>

(* A message for a handler.  A login is first resolved again and may move   *)
(* the session, the parser and the builder to another tenant; what was      *)
(* parsed stays as the former tenant's parser left it.                      *)
Accepts ==
  /\ pc = "parsed" /\ msg.ok /\ Accepted
  /\ pc' = "handling"
  /\ \/ msg.code = "93" /\ tenant' \in Tenants
     \/ msg.code # "93" /\ UNCHANGED tenant
  /\ UNCHANGED <<device, wire, delim, buf, raw, taken, msg, reply, out>>

(* Item information, patron status and patron information return an error   *)
(* when the field they need is missing; the other handlers put such a       *)
(* failure into their answer.                                               *)
Needed(code) ==
  CASE code = "17" -> {"AB"} [] code \in {"23", "63"} -> {"AA"} [] OTHER -> {}
LacksNeeded(m) == ~(Needed(m.code) \subseteq Range(m.fields))

HandlerFails ==
  /\ pc = "handling" /\ LacksNeeded(msg)
  /\ reply' = ErrorAnswer(msg, tenant)
  /\ pc' = "erring"
  /\ UNCHANGED <<device, wire, tenant, delim, buf, raw, taken, msg, out>>

(* The handler returns its answer, built for the tenant in force now.       *)
Handles ==
  /\ pc = "handling" /\ ~LacksNeeded(msg) /\ pc' = "replying"
  /\ reply' = HandlerAnswer(msg, tenant)
  /\ UNCHANGED <<device, wire, tenant, delim, buf, raw, taken, msg, out>>

(* sendMessage. *)
Sends ==
  /\ pc \in {"replying", "erring"}
  /\ out' = Append(out, reply)
  /\ pc' = "poll" /\ Forget
  /\ UNCHANGED <<device, wire, tenant, delim, buf, taken>>

(* The device is gone: a failed answer ends the connection, an error answer *)
(* that fails is only logged.                                               *)
SendFails ==
  /\ pc \in {"replying", "erring"} /\ gone
  /\ pc' = IF pc = "replying" THEN "closed" ELSE "poll"
  /\ Forget
  /\ UNCHANGED <<device, wire, tenant, delim, buf, taken, out>>

Gateway ==
  \/ StartsRead \/ ReadsUnit \/ EndOfStream \/ Parses \/ Drops \/ Refuses
  \/ Accepts \/ HandlerFails \/ Handles \/ Sends
Next == DeviceSends \/ DeviceBreaksOff \/ DeviceLeaves \/ Gateway \/ ReadFails \/ SendFails

Spec == Init /\ [][Next]_vars

(* The goroutine of the connection keeps running while it has bytes to read *)
(* or a message to handle: handlers return, since every FOLIO call has a    *)
(* timeout.  conn.Write has no deadline (connection.go:396): an answer is   *)
(* written when the device reads, and a write is sure to return only once   *)
(* the device has left.  Nothing else is assumed of the device, or of the   *)
(* read deadline.                                                           *)
Progress ==
  \/ StartsRead \/ ReadsUnit \/ EndOfStream \/ Parses \/ Drops \/ Refuses
  \/ Accepts \/ HandlerFails \/ Handles
  \/ gone /\ (Sends \/ SendFails)
FairSpec == Spec /\ WF_vars(Progress)

(***************************************************************************)
(* Properties.                                                             *)
(***************************************************************************)
TypeOK ==
  /\ terminator \in Terminators /\ checks \in BOOLEAN /\ gone \in BOOLEAN
  /\ sent \in Seq([request : Requests, garbled : BOOLEAN]) /\ Len(sent) <= MaxSent
  /\ pc \in {"poll", "reading", "parsing", "parsed", "handling", "replying", "erring", "closed"}
  /\ tenant \in Tenants /\ delim \in {"CR", "LF", "CRLF"}
  /\ taken \in 0..Len(sent)
  /\ (pc \notin {"reading", "closed"} => buf = <<>>)
  /\ (pc \in {"handling", "replying"} => msg.ok /\ raw # <<>>)
  /\ (reply # NoAnswer <=> pc \in {"replying", "erring"})

(* The messages complete in a stretch of the stream: what lies between line *)
(* ends, whichever they are.                                                *)
NothingRead == [done |-> <<>>, open |-> <<>>]
SplitNext(acc, u) ==
  IF ~IsControl(u) THEN [acc EXCEPT !.open = Append(@, u)]
  ELSE [done |-> IF acc.open = <<>> THEN acc.done ELSE Append(acc.done, acc.open), open |-> <<>>]
Split(us) ==
  LET Upto[i \in 0..Len(us)] == IF i = 0 THEN NothingRead ELSE SplitNext(Upto[i - 1], us[i])
  IN Upto[Len(us)]
Complete(us) == Split(us).done

Encodings == {Encode(r, c, g) : r \in Requests, c \in BOOLEAN, g \in BOOLEAN}
NoUnits == <<>>

(* A field with the letters AY and a later one with AZ: what lies between   *)
(* is taken for the sequence number, should the checksum happen to agree.   *)
Misleads(us) ==
  \E i, j \in DOMAIN us :
    i < j /\ us[i].mark = "AY" /\ us[i] # AY /\ us[j].mark = "AZ" /\ us[j] # AZ

Fits(r, a) ==
  /\ a.code = (IF r[1].ch = "96" THEN "96" ELSE ResponseOf[r[1].ch])
  /\ a.seq \in {"", "0"} \/ (\E u \in Range(r) : u.mark = "seq" /\ u.ch = a.seq) \/ Misleads(r)

(* The connection implements the stream of messages: whatever the device's  *)
(* line ends, its checksums and its moves between tenants, a message is     *)
(* taken once and in order, never two as one or a part of one, and answered *)
(* at most once, with its own response code and sequence number; a stray    *)
(* line end is never answered.  (readMessage, processMessage, Handle.)      *)
Stream == INSTANCE MessageStream WITH
  Request <- Encodings,
  NoRequest <- NoUnits,
  pending <- Complete(buf \o wire),
  current <- IF pc \in {"parsing", "parsed", "handling", "replying", "erring"} THEN raw ELSE NoUnits,
  answers <- out,
  open <- (pc # "closed")
ImplementsMessageStream == Stream!Spec

(* A message is parsed, with its sequence number, if and only if the tenant *)
(* checks no checksums or it has a right one: no tail left by the line ends *)
(* of the tenant before has it refused, and none that is garbled passes;    *)
(* but a field with the letters AZ hides the checksum.  A handler gets the  *)
(* code, the fixed-length and the variable-length fields that the device    *)
(* sent, unless a field has the letters AY in it and the tenant cuts the    *)
(* trailer off.  (Parse, ValidateChecksum, StripChecksum.)                  *)
Hides(r) == \E i \in DOMAIN r.fields : r.fields[i].mark = "AZ"
CutOff(r) == \E i \in DOMAIN r.fields : r.fields[i].mark = "AY"
ParsedIfRight ==
  pc = "parsed" /\ raw # <<>> =>
    LET s == sent[taken]
    IN \/ Hides(s.request)
       \/ /\ msg.ok <=> (Detects[tenant] => checks /\ ~s.garbled)
          /\ msg.ok /\ Detects[tenant] => msg.seq = s.request.seq
HandledAsSent ==
  pc = "handling" =>
    LET s == sent[taken]
        r == s.request
    IN \/ CutOff(r)
       \/ /\ msg.code = r.code
          /\ msg.fields = [i \in DOMAIN r.fields |-> r.fields[i].ch]
          /\ msg.fixed = {f[1] : f \in FixedFields(r.code)}
          /\ (msg.seq # "" => ~s.garbled /\ msg.seq = r.seq)
HandlerSeesRequest == ParsedIfRight /\ HandledAsSent

(* Every message of a device whose line ends suit all tenants is taken from *)
(* the stream or the connection ends: no move to a tenant with another      *)
(* delimiter keeps readMessage waiting for a line end that has gone by.     *)
(* What can keep a message waiting is the answer to the one before, which a *)
(* device that neither reads nor leaves holds up for ever in sendMessage.   *)
Suits(t, d) == IsSuffix(Bytes(d), Bytes(t)) \/ (d = "CR" /\ t = "CRLF")
Suited == \A t \in Tenants : Suits(terminator, Delimiter[t])
MessagesAreTaken ==
  \/ []<>(Suited => taken = Len(sent) \/ pc = "closed")
  \/ <>[](pc \in {"replying", "erring"} /\ ~gone)
-----------------------------------------------------------------------------
(* What documents and comments say, and the code does not.                  *)

(* documentation/field_mapping.md:1048: with error detection, "all          *)
(* responses include" the sequence number "echoed from request" and the     *)
(* checksum.                                                                *)
AnswersCarryChecksum ==
  pc = "replying" /\ Detects[tenant] => reply.ay /\ reply.az /\ reply.seq = sent[taken].request.seq

(* connection.go:197: under a delimiter that begins with LF a leading LF    *)
(* "is either the delimiter itself or genuinely can't be an orphaned        *)
(* pairing byte", so that a device that sends no empty messages is never    *)
(* read as sending one.                                                     *)
NoPhantomMessage == pc = "parsing" => raw # <<>>

(* connection.go:220: "a payload of exactly maxSIP2MessageBytes followed by *)
(* a delimiter succeeds".                                                   *)
ExactSizeSucceeds ==
  pc = "closed" /\ Suited /\ Chars(buf) > MaxBytes =>
     Chars(Encode(sent[taken + 1].request, checks, FALSE)) > MaxBytes
=============================================================================
