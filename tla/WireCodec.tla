----------------------------- MODULE WireCodec -----------------------------
(***************************************************************************)
(* The hand-written protobuf codec with which the Python services talk to  *)
(* the auth service: packages/authclient codec.py and                      *)
(* provider_credential_codec.py, and the API's session_refresh_codec.py.   *)
(*                                                                         *)
(* A payload is a sequence of bytes.  A text is its bytes, one byte per    *)
(* character; which texts parse as a UUID is the constant Uuids, and a     *)
(* byte outside Ascii makes a text invalid UTF-8.  The limits are          *)
(* constants, scaled down in the instances; the order between them is the  *)
(* one of the code.  A moment is counted in microseconds since the epoch.  *)
(*                                                                         *)
(* The state is one message and how much of its encoding has arrived:      *)
(* every truncation of every message of the instance is decoded.           *)
(***************************************************************************)
EXTENDS Integers, Sequences, SequencesExt, FiniteSetsExt, TLC

CONSTANTS
  Half,           \* values of a byte without its continuation bit: 128
  MaxVarint,      \* bytes of a varint before it is refused: 10
  MaxString,      \* MAX_STRING_BYTES, 512
  MaxMessage,     \* MAX_MESSAGE_BYTES, 4096
  MaxSub,         \* MAX_SUBMESSAGE_BYTES, 4096
  MaxToken,       \* MAX_TOKEN_BYTES, 8192
  MaxRefresh,     \* _MAX_MESSAGE of session_refresh_codec.py, 16384
  MaxList,        \* MAX_LIST_MESSAGE_BYTES, 512 KiB
  MicrosPerSecond, NanosPerMicro, MaxSeconds,
  Uuids, Ascii,
  Messages,       \* set of [kind, fields]: what the auth service may send
  Requests        \* set of [rpc, ...]: what the services ask of it

CodecAssumption ==
  /\ {Half, MaxVarint, MicrosPerSecond, NanosPerMicro} \subseteq Nat \ {0}
  /\ MaxString < MaxMessage /\ MaxMessage = MaxSub /\ MaxSub < MaxToken
  /\ MaxToken < MaxRefresh /\ MaxRefresh < MaxList

VARIABLES msg, arrived, request

vars == <<msg, arrived, request>>

Varint == 0
Fixed64 == 1
LenDelimited == 2
Fixed32 == 5

\* AuthCodecError.
Bad == [ok |-> FALSE]

-----------------------------------------------------------------------------
(* Encoding.                                                               *)

\* encode_varint for a value that is not negative.
RECURSIVE VarintBytes(_)
VarintBytes(n) ==
  IF n < Half THEN <<n>> ELSE <<(n % Half) + Half>> \o VarintBytes(n \div Half)

EncodeVarint(n) == IF n < 0 THEN Bad ELSE [ok |-> TRUE, bytes |-> VarintBytes(n)]

Tag(field, wire) == VarintBytes(field * 8 + wire)

\* The bytes of several parts, unless one of them raised.
Join(parts) ==
  IF \A i \in DOMAIN parts : parts[i].ok
    THEN [ok |-> TRUE, bytes |-> FlattenSeq([i \in DOMAIN parts |-> parts[i].bytes])]
    ELSE Bad

LenField(field, raw, max) ==
  IF Len(raw) > max
    THEN Bad
    ELSE [ok |-> TRUE, bytes |-> Tag(field, LenDelimited) \o VarintBytes(Len(raw)) \o raw]

EncodeStringField(field, text) == LenField(field, text, MaxString)

EncodeApiKeyField(field, text) == LenField(field, text, MaxToken)

EncodeMessageField(field, part) ==
  IF part.ok THEN LenField(field, part.bytes, MaxSub) ELSE Bad

EncodeVarintField(field, n) ==
  Join(<<[ok |-> TRUE, bytes |-> Tag(field, Varint)], EncodeVarint(n)>>)

NoField == [ok |-> TRUE, bytes |-> <<>>]

Given(text, part) == IF text = <<>> THEN NoField ELSE part

\* int(dt.timestamp()) rounds towards zero.
WholeSeconds(micros) ==
  IF micros < 0 THEN -((-micros) \div MicrosPerSecond) ELSE micros \div MicrosPerSecond

EncodeTimestamp(micros) ==
  LET nanos == (micros % MicrosPerSecond) * NanosPerMicro IN
  Join(<<EncodeVarintField(1, WholeSeconds(micros)),
         IF nanos = 0 THEN NoField ELSE EncodeVarintField(2, nanos)>>)

-----------------------------------------------------------------------------
(* The requests.                                                           *)

EncodeValidateTokenRequest(r) == LenField(1, r.token, MaxToken)

EncodeValidateAgentRequest(r) ==
  Join(<<EncodeStringField(1, r.agent), EncodeStringField(2, r.org)>>)

EncodeRevokeTokenRequest(r) ==
  Join(<<EncodeStringField(1, r.org), EncodeStringField(2, r.token),
         Given(r.reason, EncodeStringField(3, r.reason))>>)

\* Faulty variant: an expiry at the epoch is taken for no expiry.
EncodeExpiryTruthy(expires) ==
  IF expires \in {<<>>, <<0>>} THEN NoField
  ELSE EncodeMessageField(6, EncodeTimestamp(expires[1]))

\* expires_at: no moment or one.
EncodeExpiry(expires) ==
  IF expires = <<>> THEN NoField
  ELSE EncodeMessageField(6, EncodeTimestamp(expires[1]))

EncodeCreateTokenRequest(r) ==
  Join(<<EncodeStringField(1, r.org), EncodeStringField(2, r.name),
         EncodeStringField(3, r.description), EncodeVarintField(4, r.type),
         EncodeVarintField(5, r.permissions), EncodeExpiry(r.expires),
         Given(r.user, EncodeStringField(7, r.user)),
         Given(r.agent, EncodeStringField(8, r.agent))>>)

EncodeListTokensRequest(r) ==
  Join(<<EncodeStringField(1, r.org), Given(r.cursor, EncodeStringField(2, r.cursor)),
         IF r.limit = 0 THEN NoField ELSE EncodeVarintField(3, r.limit)>>)

EncodeCreateCredentialRequest(r) ==
  Join(<<EncodeStringField(1, r.org), EncodeStringField(2, r.provider),
         EncodeApiKeyField(3, r.key), Given(r.url, EncodeStringField(4, r.url))>>)

\* Also the get and delete requests of provider credentials.
EncodeOrgProviderRef(r) ==
  Join(<<EncodeStringField(1, r.org), EncodeStringField(2, r.provider)>>)

EncodeIssueWithRefresh(r) == LenField(1, r.token, Len(r.token))

\* Empty values are left out.
EncodeStringFields(r) ==
  Join(<<Given(r.first, LenField(1, r.first, MaxToken)),
         Given(r.second, LenField(2, r.second, MaxToken))>>)

Encode(r) ==
  CASE r.rpc = "ValidateToken" -> EncodeValidateTokenRequest(r)
    [] r.rpc = "ValidateAgent" -> EncodeValidateAgentRequest(r)
    [] r.rpc = "RevokeToken" -> EncodeRevokeTokenRequest(r)
    [] r.rpc = "CreateToken" -> EncodeCreateTokenRequest(r)
    [] r.rpc = "ListTokens" -> EncodeListTokensRequest(r)
    [] r.rpc = "CreateProviderCredential" -> EncodeCreateCredentialRequest(r)
    [] r.rpc = "DeleteProviderCredential" -> EncodeOrgProviderRef(r)
    [] r.rpc = "IssueOperatorSession" -> EncodeIssueWithRefresh(r)
    [] r.rpc = "OperatorLifecycle" -> EncodeStringFields(r)

-----------------------------------------------------------------------------
(* Reading.  A position is the index of the next byte to read.             *)

\* _decode_varint; k bytes have been read and make acc.
RECURSIVE VarintFrom(_, _, _, _)
VarintFrom(buf, pos, k, acc) ==
  IF pos > Len(buf) THEN Bad
  ELSE LET read == acc + (buf[pos] % Half) * Half^k IN
       IF buf[pos] < Half THEN [ok |-> TRUE, num |-> read, pos |-> pos + 1]
       ELSE IF k + 1 = MaxVarint THEN Bad
       ELSE VarintFrom(buf, pos + 1, k + 1, read)

DecodeVarint(buf, pos) == VarintFrom(buf, pos, 0, 0)

\* Faulty variant: a field that is cut short is taken as far as it goes.
ReadBytesShort(buf, pos, max) ==
  LET length == DecodeVarint(buf, pos) IN
  IF ~length.ok \/ length.num > max THEN Bad
  ELSE LET end == IF length.pos + length.num - 1 > Len(buf)
                    THEN Len(buf) ELSE length.pos + length.num - 1 IN
       [ok |-> TRUE, raw |-> SubSeq(buf, length.pos, end), pos |-> end + 1]

ReadBytes(buf, pos, max) ==
  LET length == DecodeVarint(buf, pos) IN
  IF ~length.ok \/ length.num > max THEN Bad
  ELSE IF length.pos + length.num - 1 > Len(buf) THEN Bad
  ELSE [ok |-> TRUE, raw |-> SubSeq(buf, length.pos, length.pos + length.num - 1),
        pos |-> length.pos + length.num]

SkipFixed(buf, pos, size) ==
  IF pos + size - 1 > Len(buf) THEN Bad ELSE [ok |-> TRUE, pos |-> pos + size]

\* The next field: its number, its wire type, and what it holds if that is a
\* number or bytes.  Groups and reserved wire types are refused.
NextField(buf, pos, max) ==
  LET key == DecodeVarint(buf, pos)
      field == [f |-> key.num \div 8, w |-> key.num % 8, num |-> 0, raw |-> <<>>]
      read == CASE key.num % 8 = LenDelimited -> ReadBytes(buf, key.pos, max)
                [] key.num % 8 = Varint -> DecodeVarint(buf, key.pos)
                [] key.num % 8 = Fixed64 -> SkipFixed(buf, key.pos, 8)
                [] key.num % 8 = Fixed32 -> SkipFixed(buf, key.pos, 4)
                [] OTHER -> Bad IN
  IF ~key.ok THEN Bad ELSE IF ~read.ok THEN Bad ELSE read @@ field @@ [ok |-> TRUE]

-----------------------------------------------------------------------------
(* What each response holds.  len and varint say which attribute a field   *)
(* of that wire type sets and how it is converted; fields that are not     *)
(* listed are skipped.                                                     *)

To(attr, how) == [attr |-> attr, how |-> how]

NoFields == <<>>

TokenLen ==
  (1 :> To("org_id", "uuid")) @@ (3 :> To("agent_id", "uuid"))
    @@ (4 :> To("user_id", "text")) @@ (5 :> To("token_id", "text"))

TokenVarint == 2 :> To("permissions", "number")

TokenKind ==
  [max |-> MaxMessage, lenMax |-> MaxString, len |-> TokenLen, varint |-> TokenVarint,
   required |-> {"org_id"}, nonEmpty |-> {}]

AgentLen ==
  (1 :> To("agent_id", "uuid")) @@ (2 :> To("org_id", "uuid")) @@ (3 :> To("status", "text"))

AgentKind ==
  [max |-> MaxMessage, lenMax |-> MaxString, len |-> AgentLen, varint |-> NoFields,
   required |-> {"agent_id", "org_id", "status"}, nonEmpty |-> {"status"}]

CreateLen ==
  (1 :> To("token_id", "text")) @@ (2 :> To("plaintext", "plain"))
    @@ (3 :> To("prefix", "text")) @@ (4 :> To("created_at", "time"))

CreateKind ==
  [max |-> MaxMessage, lenMax |-> MaxToken, len |-> CreateLen, varint |-> NoFields,
   required |-> {"token_id", "plaintext", "prefix", "created_at"}, nonEmpty |-> {}]

MetaLen ==
  (1 :> To("token_id", "text")) @@ (2 :> To("name", "text")) @@ (3 :> To("prefix", "text"))
    @@ (5 :> To("expires_at", "time")) @@ (6 :> To("created_at", "time"))
    @@ (7 :> To("revoked_at", "time"))

MetaVarint == (4 :> To("permissions", "number")) @@ (8 :> To("is_revoked", "flag"))

MetaKind ==
  [max |-> MaxSub, lenMax |-> MaxSub, len |-> MetaLen, varint |-> MetaVarint,
   required |-> {"token_id", "name", "prefix", "created_at"}, nonEmpty |-> {}]

ListKind ==
  [max |-> MaxList, lenMax |-> MaxSub,
   len |-> (1 :> To("tokens", "meta")) @@ (2 :> To("next_cursor", "text")),
   varint |-> NoFields, required |-> {}, nonEmpty |-> {}]

CredMetaLen ==
  (1 :> To("provider_name", "text")) @@ (2 :> To("status", "text"))
    @@ (3 :> To("key_hint", "text")) @@ (4 :> To("base_url", "text"))
    @@ (5 :> To("encryption_key_id", "text")) @@ (6 :> To("last_validated_at", "time"))

CredMetaKind ==
  [max |-> MaxSub, lenMax |-> MaxSub, len |-> CredMetaLen, varint |-> NoFields,
   required |-> {"provider_name", "status", "key_hint"}, nonEmpty |-> {}]

GetCredLen == (1 :> To("api_key", "plain")) @@ (2 :> To("base_url", "text"))

GetCredVarint == 3 :> To("is_platform_default", "flag")

GetCredKind ==
  [max |-> MaxMessage, lenMax |-> MaxToken, len |-> GetCredLen, varint |-> GetCredVarint,
   required |-> {}, nonEmpty |-> {}]

ListCredKind ==
  [max |-> MaxList, lenMax |-> MaxSub, len |-> 1 :> To("credentials", "cred"),
   varint |-> NoFields, required |-> {}, nonEmpty |-> {}]

\* decode_string_fields of the API for the fields 1 and 2.
RefreshKind ==
  [max |-> MaxRefresh, lenMax |-> MaxToken,
   len |-> (1 :> To("access_token", "utf8")) @@ (2 :> To("refresh_token", "utf8")),
   varint |-> NoFields, required |-> {}, nonEmpty |-> {}]

TimeKind ==
  [max |-> MaxList, lenMax |-> MaxSub, len |-> NoFields,
   varint |-> (1 :> To("seconds", "number")) @@ (2 :> To("nanos", "number")),
   required |-> {}, nonEmpty |-> {}]

Kind(k) ==
  CASE k = "token" -> TokenKind [] k = "agent" -> AgentKind [] k = "create" -> CreateKind
    [] k = "meta" -> MetaKind [] k = "list" -> ListKind [] k = "cred" -> CredMetaKind
    [] k = "getcred" -> GetCredKind [] k = "listcred" -> ListCredKind
    [] k = "refresh" -> RefreshKind [] k = "time" -> TimeKind

Repeated == {"meta", "cred"}

DecodeUtf8(raw) ==
  IF \A i \in DOMAIN raw : raw[i] \in Ascii THEN [ok |-> TRUE, value |-> raw] ELSE Bad

BoundedString(raw) == IF Len(raw) > MaxString THEN Bad ELSE DecodeUtf8(raw)

DecodePlaintext(raw) == IF Len(raw) > MaxToken THEN Bad ELSE DecodeUtf8(raw)

ParseUuid(raw) == IF raw \in Uuids THEN [ok |-> TRUE, value |-> raw] ELSE Bad

\* fromtimestamp rounds to microseconds.
Moment(seconds, nanos) ==
  IF nanos >= MicrosPerSecond * NanosPerMicro \/ seconds > MaxSeconds THEN Bad
  ELSE [ok |-> TRUE,
        value |-> seconds * MicrosPerSecond
                    + ((nanos + NanosPerMicro \div 2) \div NanosPerMicro)]

Number(got, attr) == IF attr \in DOMAIN got THEN got[attr] ELSE 0

-----------------------------------------------------------------------------
(* Decoding a message, and the messages inside it.                         *)

RECURSIVE Decode(_, _)
RECURSIVE Walk(_, _, _, _)

Convert(how, raw) ==
  CASE how = "uuid" -> ParseUuid(raw)
    [] how = "text" -> BoundedString(raw)
    [] how = "plain" -> DecodePlaintext(raw)
    [] how = "utf8" -> DecodeUtf8(raw)
    [] how = "time" ->
         LET t == Decode("time", raw) IN
         IF t.ok THEN Moment(Number(t.value, "seconds"), Number(t.value, "nanos")) ELSE Bad
    [] how \in Repeated -> Decode(how, raw)

NumberAs(how, num) == IF how = "flag" /\ num > 0 THEN 1 ELSE num

\* The attribute a field sets.  A field that occurs twice counts where it
\* occurs last; the elements of a list are appended.
Apply(kind, field, got) ==
  IF field.w = LenDelimited /\ field.f \in DOMAIN kind.len
    THEN LET to == kind.len[field.f]
             new == Convert(to.how, field.raw)
             before == IF to.attr \in DOMAIN got THEN got[to.attr] ELSE <<>> IN
         IF ~new.ok THEN Bad
         ELSE [ok |-> TRUE,
               value |-> (to.attr :> IF to.how \in Repeated
                                       THEN Append(before, new.value) ELSE new.value) @@ got]
  ELSE IF field.w = Varint /\ field.f \in DOMAIN kind.varint
    THEN LET to == kind.varint[field.f] IN
         [ok |-> TRUE, value |-> (to.attr :> NumberAs(to.how, field.num)) @@ got]
  ELSE [ok |-> TRUE, value |-> got]

Walk(kind, buf, pos, got) ==
  IF pos > Len(buf) THEN [ok |-> TRUE, value |-> got]
  ELSE LET field == NextField(buf, pos, kind.lenMax) IN
       IF ~field.ok THEN Bad
       ELSE LET applied == Apply(kind, field, got) IN
            IF applied.ok THEN Walk(kind, buf, field.pos, applied.value) ELSE Bad

\* _require_present, and the status of an agent, which may not be empty.
Finish(kind, walked) ==
  IF /\ walked.ok
     /\ kind.required \subseteq DOMAIN walked.value
     /\ \A a \in kind.nonEmpty : walked.value[a] # <<>>
    THEN walked ELSE Bad

Decode(k, buf) ==
  IF Len(buf) > Kind(k).max THEN Bad
  ELSE Finish(Kind(k), Walk(Kind(k), buf, 1, <<>>))

\* decode_string_field and decode_int64_field of the API stop at the first
\* field with the number; what follows it is not read.
RECURSIVE FirstFrom(_, _, _, _, _)
FirstFrom(buf, pos, number, wire, max) ==
  IF pos > Len(buf) THEN [ok |-> TRUE, found |-> FALSE]
  ELSE LET field == NextField(buf, pos, max) IN
       IF ~field.ok THEN Bad
       ELSE IF field.f # number \/ field.w # wire
              THEN FirstFrom(buf, field.pos, number, wire, max)
       ELSE IF wire = LenDelimited /\ ~DecodeUtf8(field.raw).ok THEN Bad
       ELSE [ok |-> TRUE, found |-> TRUE, num |-> field.num, raw |-> field.raw]

DecodeStringField(buf, number) ==
  IF Len(buf) > MaxRefresh THEN Bad ELSE FirstFrom(buf, 1, number, LenDelimited, MaxToken)

DecodeInt64Field(buf, number) ==
  IF Len(buf) > MaxRefresh THEN Bad ELSE FirstFrom(buf, 1, number, Varint, MaxRefresh)

-----------------------------------------------------------------------------
(* The other side, from the message definitions of auth.proto: what the    *)
(* auth service sends for a message and reads from a request.  A field of  *)
(* a message names its attribute; sub holds the fields of a message inside *)
(* it.  The attribute "unknown" is a field this version does not know.     *)

Proto ==
  [token |-> [org_id |-> <<1, "uuid">>, permissions |-> <<2, "number">>,
              agent_id |-> <<3, "uuid">>, user_id |-> <<4, "string">>,
              token_id |-> <<5, "string">>],
   agent |-> [agent_id |-> <<1, "uuid">>, org_id |-> <<2, "uuid">>, status |-> <<3, "string">>],
   create |-> [token_id |-> <<1, "string">>, plaintext |-> <<2, "secret">>,
               prefix |-> <<3, "string">>, created_at |-> <<4, "time">>],
   meta |-> [token_id |-> <<1, "string">>, name |-> <<2, "string">>, prefix |-> <<3, "string">>,
             permissions |-> <<4, "number">>, expires_at |-> <<5, "time">>,
             created_at |-> <<6, "time">>, revoked_at |-> <<7, "time">>,
             is_revoked |-> <<8, "bool">>],
   list |-> [tokens |-> <<1, "meta">>, next_cursor |-> <<2, "string">>],
   cred |-> [provider_name |-> <<1, "string">>, status |-> <<2, "string">>,
             key_hint |-> <<3, "string">>, base_url |-> <<4, "string">>,
             encryption_key_id |-> <<5, "string">>, last_validated_at |-> <<6, "time">>],
   getcred |-> [api_key |-> <<1, "secret">>, base_url |-> <<2, "string">>,
                is_platform_default |-> <<3, "bool">>],
   listcred |-> [credentials |-> <<1, "cred">>],
   refresh |-> [access_token |-> <<1, "secret">>, refresh_token |-> <<2, "secret">>],
   time |-> [seconds |-> <<1, "number">>, nanos |-> <<2, "number">>]]

ProtoRequest ==
  [ValidateToken |-> [token |-> <<1, "string">>],
   ValidateAgent |-> [agent |-> <<1, "string">>, org |-> <<2, "string">>],
   RevokeToken |-> [org |-> <<1, "string">>, token |-> <<2, "string">>, reason |-> <<3, "string">>],
   CreateToken |-> [org |-> <<1, "string">>, name |-> <<2, "string">>,
                    description |-> <<3, "string">>, type |-> <<4, "number">>,
                    permissions |-> <<5, "number">>, expires |-> <<6, "time">>,
                    user |-> <<7, "string">>, agent |-> <<8, "string">>],
   ListTokens |-> [org |-> <<1, "string">>, cursor |-> <<2, "string">>, limit |-> <<3, "number">>],
   CreateProviderCredential |-> [org |-> <<1, "string">>, provider |-> <<2, "string">>,
                                 key |-> <<3, "string">>, url |-> <<4, "string">>],
   DeleteProviderCredential |-> [org |-> <<1, "string">>, provider |-> <<2, "string">>],
   IssueOperatorSession |-> [token |-> <<1, "string">>],
   OperatorLifecycle |-> [first |-> <<1, "string">>, second |-> <<2, "string">>]]

UnknownNumber == 15

Known(k, x) == x.attr \in DOMAIN Proto[k]

TypeOf(k, x) == IF Known(k, x) THEN Proto[k][x.attr][2] ELSE "unknown"

RECURSIVE Wire(_, _)
Raw(k, x) ==
  IF TypeOf(k, x) \in {"time", "meta", "cred"} THEN Wire(TypeOf(k, x), x.sub) ELSE x.raw

SentField(k, x) ==
  Tag(IF Known(k, x) THEN Proto[k][x.attr][1] ELSE UnknownNumber, x.w)
    \o CASE x.w = Varint -> VarintBytes(x.num)
         [] x.w = LenDelimited -> VarintBytes(Len(Raw(k, x))) \o Raw(k, x)
         [] x.w = Fixed64 -> [i \in 1..8 |-> 0]
         [] x.w = Fixed32 -> [i \in 1..4 |-> 0]
         [] OTHER -> <<>>

Wire(k, fields) == FlattenSeq([i \in DOMAIN fields |-> SentField(k, fields[i])])

\* What a field means, Bad if the client is to refuse it.
RECURSIVE Meaning(_, _)
FieldMeaning(k, x) ==
  LET type == TypeOf(k, x)
      raw == Raw(k, x) IN
  IF x.w = Varint
    THEN IF x.num >= Half^MaxVarint THEN Bad
         ELSE [ok |-> TRUE, value |-> IF type = "bool" /\ x.num > 0 THEN 1 ELSE x.num]
  ELSE IF x.w # LenDelimited
    THEN IF x.w \in {Fixed64, Fixed32} THEN [ok |-> TRUE, value |-> 0] ELSE Bad
  ELSE IF \/ type # "secret" /\ Len(raw) > Kind(k).lenMax
          \/ type = "secret" /\ Len(raw) > MaxToken
          \/ type = "string" /\ Len(raw) > MaxString
          \/ type \in {"string", "secret"} /\ \E i \in DOMAIN raw : raw[i] \notin Ascii
          \/ type = "uuid" /\ raw \notin Uuids
    THEN Bad
  ELSE IF type = "time"
    THEN LET t == Meaning("time", x.sub) IN
         IF t.ok THEN Moment(Number(t.value, "seconds"), Number(t.value, "nanos")) ELSE Bad
  ELSE IF type \in {"meta", "cred"} THEN Meaning(type, x.sub)
  ELSE [ok |-> TRUE, value |-> raw]

Meaning(k, fields) ==
  LET at(a) == {i \in DOMAIN fields : Known(k, fields[i]) /\ fields[i].attr = a}
      present == {a \in DOMAIN Proto[k] : at(a) # {}}
      of(i) == FieldMeaning(k, fields[i]).value
      value == [a \in present |->
                 IF Proto[k][a][2] \in {"meta", "cred"}
                   THEN LET is == SetToSortSeq(at(a), LAMBDA i, j : i < j) IN
                        [n \in DOMAIN is |-> of(is[n])]
                   ELSE of(Max(at(a)))] IN
  IF /\ Len(Wire(k, fields)) <= Kind(k).max
     /\ \A i \in DOMAIN fields : FieldMeaning(k, fields[i]).ok
     /\ Kind(k).required \subseteq present
     /\ \A a \in Kind(k).nonEmpty : value[a] # <<>>
    THEN [ok |-> TRUE, value |-> value] ELSE Bad

\* What the auth service reads: absent text is empty, an absent number is 0.
RECURSIVE FieldsFrom(_, _)
FieldsFrom(buf, pos) ==
  IF pos > Len(buf) THEN <<>>
  ELSE LET field == NextField(buf, pos, Len(buf)) IN <<field>> \o FieldsFrom(buf, field.pos)

ServerReads(rpc, buf) ==
  LET fields == FieldsFrom(buf, 1)
      at(a) == {i \in DOMAIN fields : fields[i].f = ProtoRequest[rpc][a][1]}
      moment(raw) == LET t == Decode("time", raw).value IN
                     Moment(Number(t, "seconds"), Number(t, "nanos")).value IN
  [a \in DOMAIN ProtoRequest[rpc] |->
     CASE ProtoRequest[rpc][a][2] = "number" -> IF at(a) = {} THEN 0 ELSE fields[Max(at(a))].num
       [] ProtoRequest[rpc][a][2] = "time" ->
            IF at(a) = {} THEN <<>> ELSE <<moment(fields[Max(at(a))].raw)>>
       [] OTHER -> IF at(a) = {} THEN <<>> ELSE fields[Max(at(a))].raw]

-----------------------------------------------------------------------------

NoRequest == [rpc |-> "none"]

Empty == [kind |-> "token", fields |-> <<>>]

Init ==
  /\ \/ msg \in Messages /\ request = NoRequest
     \/ msg = Empty /\ request \in Requests
  /\ arrived = 0

Payload == SubSeq(Wire(msg.kind, msg.fields), 1, arrived)

ByteArrives ==
  /\ arrived < Len(Wire(msg.kind, msg.fields))
  /\ arrived' = arrived + 1
  /\ UNCHANGED <<msg, request>>

Next == ByteArrives

Spec == Init /\ [][Next]_vars

-----------------------------------------------------------------------------

\* The fields that have arrived as a whole, if no part of another has.
Arrived ==
  {j \in 0..Len(msg.fields) : Len(Wire(msg.kind, SubSeq(msg.fields, 1, j))) = arrived}

\* What the decoders of authclient and of the API return for a response, cut
\* at any byte, is what auth.proto means by it: the last occurrence of every
\* known field, lists in order, fields of a later version skipped; and an
\* error when the payload ends inside a field, a required field is missing or
\* a limit is exceeded.
DecodesWhatWasSent ==
  Decode(msg.kind, Payload) =
    IF Arrived = {} THEN Bad
    ELSE Meaning(msg.kind, SubSeq(msg.fields, 1, CHOOSE j \in Arrived : TRUE))

\* The single-field readers of session_refresh_codec.py return the first field
\* with the number once it has arrived, whatever comes after it, and nothing
\* before that.
FirstFieldIsFound ==
  LET k == msg.kind
      firsts == {i \in DOMAIN msg.fields : msg.fields[i].attr = "access_token"}
      upTo(i) == Len(Wire(k, SubSeq(msg.fields, 1, i)))
      read == DecodeStringField(Payload, 1) IN
  k = "refresh" =>
    IF firsts = {} \/ arrived < upTo(Min(firsts \cup {Len(msg.fields)}))
      THEN ~read.ok \/ ~read.found
      ELSE (\A i \in 1..Min(firsts) : FieldMeaning(k, msg.fields[i]).ok)
             => read.ok /\ read.found /\ read.raw = msg.fields[Min(firsts)].raw

\* The auth service reads from an encoded request the values the caller gave,
\* and a request is refused by the encoder only for a value that is too long
\* or negative.
RequestsArrive ==
  request # NoRequest =>
    LET sent == Encode(request)
        given == [a \in DOMAIN ProtoRequest[request.rpc] |-> request[a]] IN
    IF sent.ok THEN ServerReads(request.rpc, sent.bytes) = given
    ELSE \E a \in DOMAIN given :
           CASE ProtoRequest[request.rpc][a][2] = "number" -> given[a] < 0
             [] ProtoRequest[request.rpc][a][2] = "time" -> given[a] # <<>> /\ given[a][1] < 0
             [] OTHER -> Len(given[a]) > MaxString
=============================================================================
