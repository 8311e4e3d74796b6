-------------------------------- MODULE Payload --------------------------------
(***************************************************************************)
(* DecodeMarketDataPayload of both exchanges (binance/payload.go,          *)
(* btcc/payload.go): the scanners that look for keys in the JSON text, the *)
(* decimal arithmetic, and the depth and order decoders built on them.     *)
(* runConsumer (cmd/ingest/main.go) hands Binance frames to its package    *)
(* and drops every other; package btcc's function is exported and has no   *)
(* caller, it is called directly here.                                     *)
(*                                                                         *)
(* A payload is a sequence of tokens: punctuation, spaces, quoted strings  *)
(* and bare words.  A string is a sequence of characters if it is a number *)
(* and one word otherwise.  Where the payload is cut off, a string may     *)
(* lack its closing quote and a number its last digits.  MaxInt stands for *)
(* maxInt64: with a small one every overflow happens on short texts.       *)
(*                                                                         *)
(* What is decoded is compared with the document the payload was made of.  *)
(***************************************************************************)
EXTENDS Integers, Sequences, FiniteSetsExt, SequencesExt

CONSTANTS Inputs,     \* frames and payloads, with the documents they were made of
          MaxInt,     \* maxInt64
          MaxRows,    \* len(Depth.Bids)
          MilliLimit, \* 1e12: BTCC timestamps above are milliseconds
          Milli       \* a millisecond in the unit of the decoded times (there: nanoseconds)

ASSUME PayloadAssumption == {MaxInt, MaxRows, MilliLimit, Milli} \subseteq Nat \ {0}

VARIABLES in,     \* the frame or payload being decoded, its document, platform and topic
          result  \* what DecodeMarketDataPayload made of it

vars == <<in, result>>

-----------------------------------------------------------------------------
(* Tokens.                                                                 *)

P(mark) == <<mark, <<>>>>        \* punctuation
Q(text) == <<"quoted", text>>
Open(text) == <<"open", text>>   \* a string without its closing quote: the payload ends in it
W(text) == <<"bare", text>>
Digits == <<"1", "2", "3", "4", "5", "6", "7", "8", "9">>
DigitSet == {"0"} \cup {Digits[i] : i \in 1 .. 9}
DigitOf(c) == IF c = "0" THEN 0 ELSE CHOOSE i \in 1 .. 9 : Digits[i] = c

\* The first token from i on that is one (none) of marks: the loops
\* for i < len(payload) && payload[i] != mark { i++ }
Upto(p, i, marks) == Min({j \in i .. Len(p) : p[j][1] \in marks} \cup {Len(p) + 1})
Past(p, i, marks) == Min({j \in i .. Len(p) : p[j][1] \notin marks} \cup {Len(p) + 1})

\* indexOfFrom for every start: where the key occurs, as a key or as a value.
IndexesOf(p, key) == {i \in DOMAIN p : p[i] = Q(key)}

\* Behind the next colon and its spaces: the value that belongs to the key at i.
Behind(p, colon) == IF colon > Len(p) THEN colon ELSE Past(p, colon + 1, {" "})
ValueOf(p, i) == Behind(p, Upto(p, i + 1, {":"}))

\* The number that the digits of a text make, whatever is between them.
Number(text) == LET first[i \in 0 .. Len(text)] ==
                        IF i = 0 THEN 0
                        ELSE IF text[i] \in DigitSet THEN first[i - 1] * 10 + DigitOf(text[i])
                        ELSE first[i - 1]
                IN  first[Len(text)]

\* A scanner's result: the text and where it stopped.
Failed(i) == [ok |-> FALSE, text |-> <<>>, i |-> i]
Found(text, i) == [ok |-> TRUE, text |-> text, i |-> i]

\* The string that starts at i: for payload[i] != '"' has to find its closing quote.
StringAt(p, i) == IF i <= Len(p) /\ p[i][1] = "quoted" THEN Found(p[i][2], i + 1) ELSE Failed(i)

-----------------------------------------------------------------------------
(* Decimals, the same in both packages.                                    *)

\* Two's complement.
Wrap(x) == ((x + MaxInt + 1) % (2 * (MaxInt + 1))) - (MaxInt + 1)

BadDecimal == [ok |-> FALSE, int |-> 0, scale |-> 0]

\* mul after n turns of mul *= 10, were there no bound.
Pow10(n) == LET mul[i \in 0 .. n] == IF i = 0 THEN 1 ELSE 10 * mul[i - 1]
            IN  mul[n]

\* mul *= 10 stays in range, scale times.
MulFits(scale) == \A k \in 0 .. scale - 1 : Pow10(k) <= MaxInt \div 10

\* Mutant: intPart*mul is not checked.
FitsUnscaled(int, scale) == MulFits(scale)

\* The checks behind the loop: mul and intPart*mul, not their sum with fracPart.
Fits(int, scale) == MulFits(scale) /\ int <= MaxInt \div Pow10(scale)

\* The number made of the two parts.
Combine(s, neg) ==
    LET value == IF s.scale = 0 THEN s.int ELSE Wrap(s.int * Pow10(s.scale) + s.frac)
    IN  IF s.ok /\ (s.scale > 0 => Fits(s.int, s.scale))
          THEN [ok |-> TRUE, int |-> IF neg THEN Wrap(-value) ELSE value, scale |-> s.scale]
          ELSE BadDecimal

\* A turn of the loop: the dot, a digit of the integer part, or one of the fraction.  Once
\* ok is FALSE the loop has returned.
ScanChar(s, c) ==
    LET d == DigitOf(c)
        Fit(part) == part <= (MaxInt - d) \div 10
        Scan(ok, dot, int, frac, scale) ==
            [ok |-> s.ok /\ ok, dot |-> dot, int |-> int, frac |-> frac, scale |-> scale]
    IN  IF c = "." THEN Scan(~s.dot, TRUE, s.int, s.frac, s.scale)
        ELSE IF c \notin DigitSet THEN Scan(FALSE, s.dot, s.int, s.frac, s.scale)
        ELSE IF s.dot THEN Scan(Fit(s.frac), TRUE, s.int, s.frac * 10 + d, s.scale + 1)
        ELSE Scan(Fit(s.int), FALSE, s.int * 10 + d, s.frac, s.scale)

\* The loop over the characters.
Unread == [ok |-> TRUE, dot |-> FALSE, int |-> 0, frac |-> 0, scale |-> 0]
Scanned(text) == LET after[i \in 0 .. Len(text)] == IF i = 0 THEN Unread ELSE ScanChar(after[i - 1], text[i])
                 IN  after[Len(text)]

Negative(text) == text # <<>> /\ text[1] = "-"
Abs(text) == IF Negative(text) THEN Tail(text) ELSE text

parseDecimal(src) == IF src = <<>> THEN BadDecimal ELSE Combine(Scanned(Abs(src)), Negative(src))

rescaleDecimal(d, scale) ==
    LET n == scale - d.scale
        ok == n >= 0 /\ MulFits(n) /\ d.int \in -(MaxInt \div Pow10(n)) .. MaxInt \div Pow10(n)
    IN  [ok |-> ok, int |-> IF ok THEN d.int * Pow10(n) ELSE 0]

decimalSub(a, b) ==
    LET Difference(scale, ai, bi) ==
            [ok |-> TRUE, scale |-> scale, int |-> IF ai.ok /\ bi.ok THEN Wrap(ai.int - bi.int) ELSE 0]
        Common(scale) == Difference(scale, rescaleDecimal(a, scale), rescaleDecimal(b, scale))
    IN  Common(Max({a.scale, b.scale}))

-----------------------------------------------------------------------------
(* Scanners.                                                               *)

\* The longest prefix of text whose characters are all in chars.
Leading(text, chars) ==
    SubSeq(text, 1, Max({n \in 0 .. Len(text) : \A i \in 1 .. n : text[i] \in chars}))

\* Binance: the first occurrence of the key whose value is a string; an occurrence
\* with nothing behind it ends the search.
scanStringField(p, key) ==
    LET Ends(v) == v > Len(p) \/ p[v][1] \in {"quoted", "open"}
        First(stops) == IF stops = {} THEN Failed(0) ELSE StringAt(p, ValueOf(p, Min(stops)))
    IN  First({i \in IndexesOf(p, key) : Ends(ValueOf(p, i))})

\* Binance: the first occurrence whose value starts with a digit; uint64, modulo 2^64.
scanUintField(p, key) ==
    LET IsUint(v) == v <= Len(p) /\ p[v][1] = "bare" /\ p[v][2][1] \in DigitSet
        At(v) == Number(Leading(p[v][2], DigitSet)) % (2 * (MaxInt + 1))
        First(stops) == IF stops = {} THEN [ok |-> FALSE, v |-> 0]
                        ELSE [ok |-> TRUE, v |-> At(ValueOf(p, Min(stops)))]
    IN  First({i \in IndexesOf(p, key) : IsUint(ValueOf(p, i))})

\* BTCC: the first occurrence only; a string, or the leading part of a number.
scanNumberField(p, key) ==
    LET Signed(text, minus) == minus \o Leading(SubSeq(text, Len(minus) + 1, Len(text)), DigitSet \cup {"."})
        Bare(v, number) == IF number = <<>> THEN Failed(0) ELSE Found(number, v + 1)
        At(v) == IF v <= Len(p) /\ p[v][1] = "bare"
                   THEN Bare(v, Signed(p[v][2], IF p[v][2][1] = "-" THEN <<"-">> ELSE <<>>))
                   ELSE StringAt(p, v)
        First(stops) == IF stops = {} THEN Failed(0) ELSE At(ValueOf(p, Min(stops)))
    IN  First(IndexesOf(p, key))

\* Binance: the next string, wherever it is.
scanNextString(p, i) == StringAt(p, Upto(p, i, {"quoted", "open"}))

\* BTCC: the value right here, behind spaces but not behind a comma.
scanNextValue(p, i) ==
    LET At(j) == IF j > Len(p) \/ p[j][1] \in {",", "]"} THEN Failed(j)
                 ELSE IF p[j][1] = "bare" THEN Found(p[j][2], j + 1)
                 ELSE IF p[j][1] \in {"quoted", "open"} THEN StringAt(p, j)
                 ELSE Found(<<p[j][1]>>, Upto(p, j, {",", "]", " "}))
    IN  At(Past(p, i, {" "}))

\* The rows behind key, taken with NextText: From[i, n] are those at i or behind, when n
\* have been taken.  ok is FALSE when a row could not be read.
ScanRows(p, key, NextText(_, _)) ==
    LET End(ok) == [ok |-> ok, rows |-> <<>>]
        Prepend(row, rest) == [ok |-> rest.ok, rows |-> <<row>> \o rest.rows]
        From[i0 \in 1 .. Len(p) + 2, n \in 0 .. MaxRows] ==
            LET Level(price, qty, end) == IF price.ok /\ qty.ok
                                            THEN Prepend(<<price, qty>>, From[Upto(p, end, {"]"}) + 1, n + 1])
                                            ELSE End(FALSE)
                Qty(price, q) == IF q.ok THEN Level(parseDecimal(price.text), parseDecimal(q.text), q.i) ELSE End(FALSE)
                Price(q) == IF q.ok THEN Qty(q, NextText(p, q.i)) ELSE End(FALSE)
                Row(i) == CASE i > Len(p) -> End(TRUE)
                            [] i <= Len(p) /\ p[i][1] = "]" -> End(TRUE)
                            [] i <= Len(p) /\ p[i][1] = "[" -> Price(NextText(p, i + 1))
                            [] OTHER -> From[i + 1, n]
            IN  IF i0 > Len(p) \/ n = MaxRows THEN End(TRUE) ELSE Row(Past(p, i0, {" ", ","}))
        At(v) == IF v > Len(p) \/ p[v][1] # "[" THEN End(FALSE) ELSE From[v + 1, 0]
        First(stops) == IF stops = {} THEN End(FALSE) ELSE At(ValueOf(p, Min(stops)))
    IN  First(IndexesOf(p, key))

\* Mutant: the rows of Binance are read with the value scanner of the other package.
scanDepthSideByValue(p, key) == ScanRows(p, key, scanNextValue)

scanDepthSide(p, key) == ScanRows(p, key, scanNextString)
scanBtccDepthSide(p, key) == ScanRows(p, key, scanNextValue)

\* BTCC: where the value at i ends (skipString, skipObject, skipArray).
skipValue(p, i) ==
    LET Depth0(j, open, close) ==
            Cardinality({k \in i .. j : p[k][1] = open}) = Cardinality({k \in i .. j : p[k][1] = close})
        Match(open, close) == 1 + Min({j \in i .. Len(p) : Depth0(j, open, close)} \cup {Len(p)})
    IN  CASE p[i][1] = "quoted" -> i + 1
          [] p[i][1] = "{" -> Match("{", "}")
          [] p[i][1] = "[" -> Match("[", "]")
          [] OTHER -> Upto(p, i, {",", "]", "}"})

\* BTCC: params[index], as tokens; index is 0 or 1.
scanParamsValue(p, index) ==
    LET None == [ok |-> FALSE, value |-> <<>>]
        Value(i, end) == IF end <= i THEN None ELSE [ok |-> TRUE, value |-> SubSeq(p, i, end - 1)]
        At(i) == IF i > Len(p) \/ p[i][1] = "]" THEN None ELSE Value(i, skipValue(p, i))
        Next1(i, first) == IF first.ok THEN At(Past(p, i + Len(first.value), {" ", ","})) ELSE None
        Item(i) == IF index = 0 THEN At(i) ELSE Next1(i, At(i))
        Array(v) == IF v > Len(p) \/ p[v][1] # "[" THEN None ELSE Item(Past(p, v + 1, {" ", ","}))
        First(stops) == IF stops = {} THEN None ELSE Array(ValueOf(p, Min(stops)))
    IN  First(IndexesOf(p, <<"params">>))

Unsigned(text) == IF text # <<>> /\ text[1] \in {"-", "+"} THEN Tail(text) ELSE text

\* strconv.ParseInt
parseJSONInt(text) ==
    LET digits == Unsigned(text)
        neg == text # <<>> /\ text[1] = "-"
        wellFormed == digits # <<>> /\ \A i \in DOMAIN digits : digits[i] \in DigitSet
    IN  IF wellFormed /\ Number(digits) <= (IF neg THEN MaxInt + 1 ELSE MaxInt)
          THEN [ok |-> TRUE, v |-> IF neg THEN -Number(digits) ELSE Number(digits)]
          ELSE [ok |-> FALSE, v |-> 0]

scanParamsInt(p, index) ==
    LET Parse(raw) == IF raw = <<>> \/ raw[1][1] \notin {"quoted", "open", "bare"} THEN [ok |-> FALSE, v |-> 0]
                      ELSE parseJSONInt(raw[1][2])
    IN  Parse(SelectSeq(scanParamsValue(p, index).value, LAMBDA x : x[1] # " "))

\* strconv.ParseFloat: seconds, or milliseconds when it is that large.  A clock stays far
\* below the limits of int64, so times do not wrap.
parseJSONTimestamp(text) ==
    LET body == Unsigned(text)
        dots == {i \in DOMAIN body : body[i] = "."}
        wellFormed == /\ \E i \in DOMAIN body : body[i] \in DigitSet
                      /\ Cardinality(dots) <= 1
                      /\ \A i \in DOMAIN body : body[i] \in DigitSet \cup {"."}
        scale == IF dots = {} THEN 0 ELSE Len(body) - Min(dots)
        v == Number(body)
    IN  IF ~wellFormed \/ text[1] = "-" \/ v = 0 THEN [ok |-> FALSE, v |-> 0]
        ELSE [ok |-> TRUE, v |-> IF v > MilliLimit * Pow10(scale) THEN (v \div Pow10(scale)) * Milli
                                 ELSE (v * 1000 * Milli) \div Pow10(scale)]

-----------------------------------------------------------------------------
(* The decoders.  Zero values are those of the Go structs.                 *)

Zero == [ok |-> TRUE, int |-> 0, scale |-> 0]
EmptyOrder == [id |-> 0, side |-> "none", type |-> "none", status |-> "none", tif |-> "none",
               qty |-> Zero, price |-> Zero, left |-> Zero, event |-> 0, updated |-> 0]
Invalid == [ok |-> FALSE, event |-> 0, bids |-> <<>>, asks |-> <<>>, order |-> EmptyOrder]
Depth(event, bids, asks) ==
    IF bids = <<>> /\ asks = <<>> THEN Invalid
    ELSE [Invalid EXCEPT !.ok = TRUE, !.event = event, !.bids = bids, !.asks = asks]
Decoded(order) == [Invalid EXCEPT !.ok = TRUE, !.order = order]

\* The value mapped to a name, "none" for an unknown one.
Map(names, value) == IF value \in DOMAIN names THEN names[value] ELSE "none"

mapBinanceSide(v) == CASE v = <<"BUY">> -> "buy" [] v = <<"SELL">> -> "sell" [] OTHER -> "none"
mapBinanceOrderType(v) == CASE v = <<"LIMIT">> -> "limit" [] v = <<"MARKET">> -> "market" [] OTHER -> "none"
mapBinanceOrderStatus(v) ==
    CASE v = <<"NEW">> -> "placed"
      [] v = <<"PARTIALLY_FILLED">> -> "partial"
      [] v = <<"FILLED">> -> "filled"
      [] v \in {<<"CANCELED">>, <<"CANCELLED">>} -> "canceled"
      [] v = <<"EXPIRED">> -> "expired"
      [] OTHER -> "none"
mapBinanceTimeInForce(v) == CASE v = <<"GTC">> -> "gtc" [] v = <<"IOC">> -> "ioc" [] v = <<"FOK">> -> "fok" [] OTHER -> "none"

mapBtccSide(v) == Map(<<"buy", "sell">>, v)
mapBtccOrderType(v) == Map(<<"limit", "market">>, v)
mapBtccOrderStatus(v) == Map(<<"placed", "partial", "filled", "canceled", "expired">>, v)
mapBtccTimeInForce(v) == Map(<<"gtc", "ioc", "fok">>, v)

\* A side that cannot be read to its end is looked for under the other key.
decodeBinanceDepth(p) ==
    LET Or(side, alt) == IF side.ok THEN side.rows ELSE alt.rows
        Side(key, alt) == Or(scanDepthSide(p, key), scanDepthSide(p, alt))
    IN  Depth(scanUintField(p, <<"E">>).v * Milli, Side(<<"b">>, <<"bids">>), Side(<<"a">>, <<"asks">>))

\* A side that cannot be read to its end is empty.
decodeBtccDepth(p) ==
    LET Rows(side) == IF side.ok THEN side.rows ELSE <<>>
        Event(time) == IF time.ok THEN parseJSONTimestamp(time.text).v ELSE 0
        Book(v) == Depth(Event(scanNumberField(v, <<"time">>)),
                         Rows(scanBtccDepthSide(v, <<"bids">>)), Rows(scanBtccDepthSide(v, <<"asks">>)))
        Param(book) == IF book.ok THEN Book(book.value) ELSE Invalid
    IN  Param(scanParamsValue(p, 1))

\* Mutant: the fill is not subtracted.
LeftAll(qty, cum) == qty

\* leftQty := decimalSub(qty, parsed), if there is a fill.
Left(qty, cum) == IF cum.ok THEN decimalSub(qty, parseDecimal(cum.text)) ELSE qty

decodeBinanceOrder(p) ==
    LET Dec(found) == IF found.ok THEN parseDecimal(found.text) ELSE Zero
        Name(key) == scanStringField(p, key).text
        Report(id, event, trade, hasQty, qty, price, cum) ==
            IF ~qty.ok \/ ~price.ok \/ ~Dec(cum).ok \/ (id = 0 /\ ~hasQty) THEN Invalid
            ELSE Decoded([id |-> id, side |-> mapBinanceSide(Name(<<"S">>)),
                          type |-> mapBinanceOrderType(Name(<<"o">>)),
                          status |-> mapBinanceOrderStatus(Name(<<"X">>)),
                          tif |-> mapBinanceTimeInForce(Name(<<"f">>)),
                          qty |-> qty, price |-> price, left |-> IF hasQty THEN Left(qty, cum) ELSE Zero,
                          event |-> event, updated |-> IF trade.ok THEN trade.v * Milli ELSE event])
    IN  Report(Wrap(scanUintField(p, <<"i">>).v), scanUintField(p, <<"E">>).v * Milli,
               scanUintField(p, <<"T">>), scanStringField(p, <<"q">>).ok, Dec(scanStringField(p, <<"q">>)),
               Dec(scanStringField(p, <<"p">>)), scanStringField(p, <<"z">>))

\* A number that cannot be parsed is left out instead of failing the message.
decodeBtccOrder(p) ==
    LET Integer(found) == IF found.ok THEN parseJSONInt(found.text).v ELSE 0
        Time(found) == IF found.ok THEN parseJSONTimestamp(found.text).v ELSE 0
        Number0(found) == IF found.ok THEN parseDecimal(found.text) ELSE BadDecimal
        Dec(d) == IF d.ok THEN d ELSE Zero
        Remaining(left, deal, qty) ==
            IF left.ok THEN Dec(parseDecimal(left.text))
            ELSE IF deal.ok /\ qty.ok /\ parseDecimal(deal.text).ok THEN Left(qty, deal) ELSE Zero
        Update(obj, id, qty, event, mtime) ==
            IF id = 0 /\ ~qty.ok THEN Invalid
            ELSE Decoded([id |-> id, side |-> mapBtccSide(Integer(scanNumberField(obj, <<"side">>))),
                          type |-> mapBtccOrderType(Integer(scanNumberField(obj, <<"type">>))),
                          status |-> mapBtccOrderStatus(scanParamsInt(p, 0).v),
                          tif |-> mapBtccTimeInForce(Integer(scanNumberField(obj, <<"option">>))),
                          qty |-> Dec(qty), price |-> Dec(Number0(scanNumberField(obj, <<"price">>))),
                          left |-> Remaining(scanNumberField(obj, <<"left">>),
                                             scanNumberField(obj, <<"deal_stock">>), qty),
                          event |-> event, updated |-> IF mtime = 0 THEN event ELSE mtime])
        Param(obj) == IF ~obj.ok THEN Invalid
                      ELSE Update(obj.value, Integer(scanNumberField(obj.value, <<"id">>)),
                                  Number0(scanNumberField(obj.value, <<"amount">>)),
                                  Time(scanNumberField(obj.value, <<"ctime">>)),
                                  Time(scanNumberField(obj.value, <<"mtime">>)))
    IN  Param(scanParamsValue(p, 1))

\* DecodeMarketDataPayload of a package, made of its two decoders.
Decoders(payload, topic, depth, order) ==
    CASE payload # <<>> /\ topic = "depth" -> depth
      [] payload # <<>> /\ topic = "order" -> order
      [] OTHER -> Invalid

BinanceDecode(payload, topic) == Decoders(payload, topic, decodeBinanceDepth(payload), decodeBinanceOrder(payload))
BtccDecode(payload, topic) == Decoders(payload, topic, decodeBtccDepth(payload), decodeBtccOrder(payload))

-----------------------------------------------------------------------------
NoResult == [done |-> FALSE, out |-> Invalid]
Finish(out) == result' = [done |-> TRUE, out |-> out]

Init == in \in Inputs /\ result = NoResult

\* runConsumer with a frame: the switch on the platform has one case and a default that
\* releases the frame and goes on.
RunConsumer == /\ ~result.done /\ in.frame
               /\ \/ in.platform = "Binance" /\ Finish(BinanceDecode(in.payload, in.topic))
                  \/ in.platform # "Binance" /\ Finish(Invalid)
               /\ UNCHANGED in

\* A direct call of btcc.DecodeMarketDataPayload.
CallBtcc == /\ ~result.done /\ ~in.frame
            /\ Finish(BtccDecode(in.payload, in.topic))
            /\ UNCHANGED in

Next == RunConsumer \/ CallBtcc

Spec == Init /\ [][Next]_vars

-----------------------------------------------------------------------------
(* Properties.  in.doc is the document, in.whole says that none of its     *)
(* payload is missing.                                                     *)

\* The payload comes to a decoder: a frame of another platform than Binance does not.
Tried == result.done /\ (in.frame => in.platform = "Binance")

\* The value of a text by the rules of arithmetic: its digits, and those behind the dot.
Dots(body) == {i \in DOMAIN body : body[i] = "."}
Exact(text) ==
    LET body == Abs(text)
    IN  [ok |-> /\ text # <<>>
                /\ \A i, j \in Dots(body) : i = j
                /\ \A i \in DOMAIN body : body[i] \in DigitSet \cup {"."},
         int |-> IF Negative(text) THEN -Number(body) ELSE Number(body),
         scale |-> IF Dots(body) = {} THEN 0 ELSE Len(body) - Min(Dots(body))]
InRange(d) == d.int \in -(MaxInt + 1) .. MaxInt
Representable(text) == /\ Exact(text).ok /\ Exact(text).int \in -MaxInt .. MaxInt
                       /\ Pow10(Exact(text).scale) <= MaxInt

\* A decimal taken from a text is the text's value.  The exception: intPart*mul is in
\* range and only the sum with fracPart is not; then it is off by 2^64.
DecimalFaithful(d, text) ==
    LET e == Exact(text)
    IN  /\ e.ok /\ d.scale = e.scale
        /\ InRange(e) => d.int = e.int
        /\ ~InRange(e) => e.scale > 0 /\ d.int - e.int \in {2 * (MaxInt + 1), -2 * (MaxInt + 1)}

\* What is left of an order, for a fill within its quantity, is exact; or zero, when the
\* two have no common scale in range.
LeftFaithful(left, qtyText, cumText) ==
    LET q == Exact(qtyText)
        c == Exact(cumText)
        scale == Max({q.scale, c.scale})
        qty == q.int * Pow10(scale - q.scale)
        cum == c.int * Pow10(scale - c.scale)
    IN  Representable(qtyText) /\ Representable(cumText) /\ 0 <= cum /\ cum <= qty =>
            /\ left.scale = scale
            /\ left.int = IF qty <= MaxInt /\ cum <= MaxInt THEN qty - cum ELSE 0

\* The numbers that the leading parts of a text stand for, 0 for none of it.
Parts(text) == {Number(SubSeq(text, 1, n)) : n \in 0 .. Len(text)}

\* An order is decoded as the document says, whatever the spaces.  Wherever the payload is
\* cut off, a field in quotes has the document's value or none, and a bare number that
\* the cut goes through is taken for the number its remaining digits make: the order then
\* has another id, or another time.  A whole payload whose numbers can be represented is
\* decoded, none of its fields is missed, and its id and times are exact.
OrderFaithful ==
    LET o == result.out.order
        d == in.doc
    IN  in.topic = "order" /\ Tried =>
            /\ o.id \in Parts(d.id) /\ o.updated \in d.times \cup {0}
            /\ o.side \in {"none", d.side} /\ o.status \in {"none", d.status}
            /\ o.type \in {"none", d.type} /\ o.tif \in {"none", d.tif}
            /\ o.qty = Zero \/ DecimalFaithful(o.qty, d.qty)
            /\ in.whole /\ result.out.ok =>
                  /\ o.id = Number(d.id) /\ o.side = d.side /\ o.type = d.type /\ o.tif = d.tif
                  /\ o.status = d.status /\ o.updated = d.updated
                  /\ LeftFaithful(o.left, d.qty, d.cum)
            /\ in.whole /\ Representable(d.qty) /\ Representable(d.cum) =>
                  result.out.ok /\ o.qty.int = Exact(d.qty).int

\* A side of a book that runConsumer decodes is an initial part of the side sent, wherever
\* the payload is cut off: no level is invented, skipped, reordered or altered; its time is
\* the document's.  A whole payload of numbers in range gives every level there is room
\* for, under either pair of keys.  Called directly, BTCC's decoder decodes no depth at
\* all: scanNextValue stops at the comma between price and quantity.
DepthFaithful ==
    LET Rows(side) == [i \in DOMAIN side |-> <<parseDecimal(side[i][1]), parseDecimal(side[i][2])>>]
        Readable(side) == \A i \in DOMAIN side : Rows(side)[i][1].ok /\ Rows(side)[i][2].ok
        Room(side) == SubSeq(Rows(side), 1, Min({MaxRows, Len(side)}))
    IN  in.topic = "depth" /\ Tried =>
            /\ IsPrefix(result.out.bids, Rows(in.doc.bids)) /\ IsPrefix(result.out.asks, Rows(in.doc.asks))
            /\ result.out.ok => result.out.event = in.doc.time
            /\ in.frame /\ in.whole /\ Readable(in.doc.bids) /\ Readable(in.doc.asks) =>
                  result.out.bids = Room(in.doc.bids) /\ result.out.asks = Room(in.doc.asks)
            /\ in.frame \/ ~result.out.ok

================================================================================
