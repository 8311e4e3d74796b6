------------------------------- MODULE MCPayload -------------------------------
(* Documents and the payloads the exchanges make of them. *)
EXTENDS Payload

Sep(mark, spaced) == IF spaced THEN <<P(mark), P(" ")>> ELSE <<P(mark)>>
Join(items, spaced) ==
    FlattenSeq([i \in DOMAIN items |-> IF i = 1 THEN items[i] ELSE Sep(",", spaced) \o items[i]])
Arr(items, spaced) == <<P("[")>> \o Join(items, spaced) \o <<P("]")>>
Obj(fields, spaced) ==
    <<P("{")>> \o Join([i \in DOMAIN fields |-> <<Q(<<fields[i][1]>>)>> \o Sep(":", spaced) \o fields[i][2]], spaced)
    \o <<P("}")>>
Str(text) == <<Q(text)>>
Bare(text) == <<W(text)>>
RowTokens(side, spaced) ==
    Arr([i \in DOMAIN side |-> Arr(<<Str(side[i][1]), Str(side[i][2])>>, spaced)], spaced)

BinanceDepth(d, spaced) ==
    Obj(<< <<"e", Str(<<"depthUpdate">>)>>, <<"E", Bare(<<"1", "2">>)>>,
           <<d.keys[1], RowTokens(d.bids, spaced)>>, <<d.keys[2], RowTokens(d.asks, spaced)>> >>, spaced)
BtccDepth(d, spaced) ==
    Obj(<< <<"method", Str(<<"depth.update">>)>>,
           <<"params", Arr(<<Bare(<<"true">>),
                             Obj(<< <<"asks", RowTokens(d.asks, spaced)>>, <<"bids", RowTokens(d.bids, spaced)>>,
                                    <<"time", Bare(<<"1", "2">>)>> >>, spaced),
                             Str(<<"BTCUSDT">>)>>, spaced)>> >>, spaced)

\* As in the exchange's report, the key o (order type) also names a nested object.
BinanceOrder(d, spaced) ==
    Obj(<< <<"e", Str(<<"executionReport">>)>>, <<"E", Bare(<<"1", "2">>)>>,
           <<"o", Obj(<< <<"S", Str(<<d.words[1]>>)>>, <<"o", Str(<<"LIMIT">>)>>, <<"f", Str(<<"GTC">>)>>,
                         <<"q", Str(d.qty)>>, <<"p", Str(<<"1">>)>>, <<"X", Str(<<d.words[2]>>)>>,
                         <<"i", Bare(<<"1", "5">>)>>, <<"z", Str(d.cum)>>, <<"T", Bare(<<"1", "4">>)>> >>, spaced)>> >>, spaced)
BtccOrder(d, spaced) ==
    Obj(<< <<"method", Str(<<"order.update">>)>>,
           <<"params", Arr(<<Bare(<<d.words[2]>>),
                             Obj(<< <<"id", Bare(<<"1", "5">>)>>, <<"type", Bare(<<"1">>)>>, <<"side", Bare(<<d.words[1]>>)>>,
                                    <<"ctime", Bare(<<"1", "2">>)>>, <<"mtime", Bare(<<"1", "4">>)>>,
                                    <<"option", Bare(<<"1">>)>>, <<"price", Str(<<"1">>)>>,
                                    <<"amount", Str(d.qty)>>, <<"deal_stock", Str(d.cum)>> >>, spaced)>>, spaced)>> >>, spaced)

Texts(n) == UNION {[1 .. k -> {"-", ".", "0", "1", "9"}] : k \in 0 .. n}
L(price, qty) == <<price, qty>>
Good == << L(<<"1">>, <<"9">>), L(<<"1", ".", "1">>, <<"0">>), L(<<"0">>, <<"1">>) >>
Sides == {<<>>, SubSeq(Good, 1, 1), Good, <<Good[1], L(<<"9">>, <<"x">>), Good[2]>>}

DepthDocs == [time : {12 * Milli}, keys : {<<"b", "a">>, <<"bids", "asks">>}, bids : Sides, asks : Sides]
OrderDocs(platform) ==
    LET binance == platform = "Binance"
    IN  {[qty |-> q, cum |-> c, id |-> <<"1", "5">>, side |-> "sell", type |-> "limit", tif |-> "gtc", status |-> "filled",
          updated |-> 14 * Milli,
          \* The times that leading parts of both make: 1 and 12 are seconds to BTCC, 14 milliseconds.
          times |-> {14 * Milli} \cup {t * Milli * (IF binance THEN 1 ELSE 1000) : t \in {1, 12}},
          words |-> IF binance THEN <<"SELL", "FILLED">> ELSE <<"2", "3">>] :
             q \in Texts(3) \cup {<<"-", "1", ".", "9">>}, c \in {<<"0">>, <<"1">>, <<"9">>, <<"0", ".", "9">>, <<"1", ".", "0">>, <<"-", "1">>, <<"x">>, <<>>}}

\* The payloads that p is cut to: between two tokens, in a string, in a number.
Cuts(p) ==
    LET Part(t, n) == IF t[1] = "quoted" THEN Open(SubSeq(t[2], 1, n)) ELSE W(SubSeq(t[2], 1, n))
        Lengths(t) == IF t[1] = "quoted" THEN 0 .. Len(t[2]) ELSE 1 .. Len(t[2]) - 1
    IN  {SubSeq(p, 1, n) : n \in 0 .. Len(p) - 1}
        \cup UNION {{SubSeq(p, 1, n - 1) \o <<Part(p[n], k)>> : k \in Lengths(p[n])} : n \in DOMAIN p}

Input(frame, platform, topic, doc, payload, whole) ==
    [frame |-> frame, platform |-> platform, topic |-> topic, doc |-> doc, payload |-> payload, whole |-> whole]
Whole(frame, platform, topic, doc, p) == {Input(frame, platform, topic, doc, p, TRUE)}
Cut(frame, platform, topic, doc, p) == {Input(frame, platform, topic, doc, c, FALSE) : c \in Cuts(p)}
WholeAndCut(frame, platform, topic, doc, p) == Whole(frame, platform, topic, doc, p) \cup Cut(frame, platform, topic, doc, p)

BtccDocs == {d \in DepthDocs : d.keys = <<"bids", "asks">>}
CutDocs(platform) == {d \in OrderDocs(platform) : d.qty \in Texts(1) \cup {<<"1", "0">>, <<"9", ".">>} /\ d.cum = <<"0", ".", "9">>}

SomeInputs ==
    UNION {WholeAndCut(TRUE, "Binance", "depth", d, BinanceDepth(d, s)) : d \in DepthDocs, s \in BOOLEAN}
    \cup UNION {WholeAndCut(FALSE, "BTCC", "depth", d, BtccDepth(d, s)) : d \in BtccDocs, s \in BOOLEAN}
    \cup UNION {Whole(TRUE, "Binance", "order", d, BinanceOrder(d, s)) : d \in OrderDocs("Binance"), s \in BOOLEAN}
    \cup UNION {Whole(FALSE, "BTCC", "order", d, BtccOrder(d, s)) : d \in OrderDocs("BTCC"), s \in BOOLEAN}
    \cup UNION {Cut(TRUE, "Binance", "order", d, BinanceOrder(d, FALSE)) : d \in CutDocs("Binance")}
    \cup UNION {Cut(FALSE, "BTCC", "order", d, BtccOrder(d, FALSE)) : d \in CutDocs("BTCC")}
    \cup UNION {Whole(TRUE, "BTCC", "depth", d, BtccDepth(d, FALSE)) : d \in BtccDocs}
    \cup UNION {Whole(TRUE, "BTCC", "order", d, BtccOrder(d, FALSE)) : d \in CutDocs("BTCC")}
================================================================================
