------------------------------ MODULE Messages ------------------------------
(***************************************************************************)
(* A message from its construction by a thread of the API (message.h),     *)
(* through value(), which makes a JavaScript object of it on the event     *)
(* loop, to the function of activetick.js that receives it.  The other     *)
(* modules take messages by their meaning; here is what the meaning is     *)
(* read from: the presence of fields, whether they are 0, and few texts.   *)
(***************************************************************************)
EXTENDS Naturals

CONSTANTS
    TradeChoices, \* bound: the sets of conditions that a trade may have ...
    FlagChoices   \* ... and the sets of flags of a stream update

VARIABLES
    message,      \* the C++ object, or Nothing
    object,       \* the JavaScript object, or Nothing
    reading       \* what the receiver takes it for, or Nothing

messageVars == <<message, object, reading>>
Nothing == [type |-> ""]

-----------------------------------------------------------------------------
(* The texts of exceptions (exception.h) that become ErrorMessages.        *)
Invalid == "symbol-status invalid"
Failures ==
    {"tick-history-response invalid-request", "tick-history-response max-limit-reached",
     "tick-history-response denied", "tick-history-response unknown",
     Invalid, "symbol-status unavailable", "symbol-status no-permission", "symbol-status unknown"}
Exceptions == {"queue overflow", "bad data", "request timeout"} \cup Failures

SessionStatuses == {"disconnected", "disconnected-duplicate-login", "connected", "unknown"}
LoginResponses ==
    {"success", "invalid-userid", "invalid-password", "invalid-request", "login-denied",
     "server-error", "unknown"}
BarResponses == {"success", "invalid-request", "max-limit-reached", "denied", "unknown"}

(* A regular condition has no name and sets no field.                      *)
TradeConditions ==
    {"acquisition", "averagePrice", "automaticExecution", "bunched", "bunchSold", "capElection",
     "cash", "closing", "cross", "derivativelyPriced", "distribution", "formT",
     "formTOutOfSequence", "interMarketSweep", "marketCenterOfficialClose",
     "marketCenterOfficialOpen", "marketCenterOpening", "marketCenterReOpenning",
     "marketCenterClosing", "nextDay", "priceVariation", "priorReferencePrice", "rule155Amex",
     "rule127Nyse", "opening", "opened", "regularStoppedStock", "reOpening", "seller", "soldLast",
     "soldLastStoppedStock", "soldOutOfSequence", "soldOutOfSequenceStoppedStock", "split",
     "stockOption", "yellowFlag"}
QuoteConditions ==
    {"regularTwoSidedOpen", "regularOneSidedOpen", "slowAsk", "slowBid", "slowBidAsk",
     "slowDueLRPBid", "slowDueLRPAsk", "slowDueNYSELRP", "slowDueSetSlowListBidAsk",
     "manualAskAutomaticBid", "manualBidAutomaticAsk", "manualBidAndAsk", "opening", "closing",
     "closed", "resume", "fastTrading", "tradingRangeIndication", "marketMakerQuotesClosed",
     "nonFirm", "newsDissemination", "orderInflux", "orderImbalance",
     "dueToRelatedSecurityNewsDissemination", "dueToRelatedSecurityNewsPending",
     "additionalInformation", "newsPending", "additionalInformationDueToRelatedSecurity",
     "dueToRelatedSecurity", "inViewOfCommon", "equipmentChangeover", "noOpenNoResume",
     "subPennyTrading", "automatedBidNoOfferNoBid"}
TradeFlags ==
    {"regularMarketLastPrice", "regularMarketVolume", "highPrice", "lowPrice", "dayHighPrice",
     "dayLowPrice", "extendedMarketLastPrice", "preMarketVolume", "afterMarketVolume",
     "preMarketOpenPrice", "openPrice"}

ASSUME ChoiceAssumption ==
    TradeChoices \subseteq SUBSET TradeConditions /\ FlagChoices \subseteq SUBSET TradeFlags

-----------------------------------------------------------------------------
(* What populate() sets for each class, conditions and flags apart.        *)
LastTrade == {"lastPrice", "lastSize", "lastExchange"}
BestQuote == {"bidPrice", "bidSize", "bidExchange", "askPrice", "askSize", "askExchange"}

Populated ==
    [error |-> {"error"},
     success |-> {"success", "records"},
     session_status_change |-> {"sessionStatus"},
     response_complete |-> {},
     login_response |-> {"loginResponse", "serverTime"},
     stream_subscribe_response |-> {"streamResponse"},
     stream_unsubscribe_response |-> {"streamResponse"},
     stream_update_trade |-> {"time", "symbol"} \cup LastTrade,
     stream_update_quote |-> {"time", "symbol"} \cup BestQuote,
     stream_update_refresh |->
        {"symbol", "volume", "openPrice", "highPrice", "lowPrice", "closePrice", "prevClosePrice",
         "afterMarketClosePrice"} \cup LastTrade \cup BestQuote,
     holiday |-> {"exchanges", "begins", "ends"},
     server_time_update |-> {"time"},
     tick_history_trade |-> {"time"} \cup LastTrade,
     tick_history_quote |-> {"time"} \cup BestQuote,
     bar_history_response |-> {"barHistoryResponse", "symbol", "symbolStatus", "records"},
     bar_history |-> {"time", "open", "high", "low", "close", "volume"}]

HasTradeConditions == {"stream_update_trade", "stream_update_refresh", "tick_history_trade"}
HasQuoteCondition == {"stream_update_quote", "stream_update_refresh", "tick_history_quote"}
HasFlags == {"stream_update_trade"}
HasItem == {"stream_subscribe_response", "stream_unsubscribe_response"}

(* The text that the receiver compares, in the fields that have one.       *)
Texts(class) ==
    CASE class = "error" -> Exceptions
      [] class = "session_status_change" -> SessionStatuses
      [] class = "login_response" -> LoginResponses
      [] class = "bar_history_response" -> BarResponses
      [] OTHER -> {""}

(* Which messages have no request, which have one and end its answer.      *)
Requestless ==
    {"session_status_change", "stream_update_trade", "stream_update_quote",
     "stream_update_refresh", "server_time_update"}
MayEnd(class, request) ==
    {end \in BOOLEAN :
        /\ class = "error" => end = request
        /\ class \in {"response_complete", "login_response"} => end
        /\ class \in {"success", "bar_history_response", "bar_history"} \cup Requestless => ~end}

(* An unsubscribe response without items calls itself a subscribe response.*)
TypeOf(class, item) ==
    IF class = "stream_unsubscribe_response" /\ ~item THEN "stream_subscribe_response" ELSE class

(* A quote has one condition, a regular one among them.                    *)
AtMostOne(S) == {{}} \cup {{c} : c \in S}

(* A constructor gives a message of its class what it has to tell.         *)
Make(class, item, request) ==
    \E text \in Texts(class), end \in MayEnd(class, request),
       zero \in SUBSET (Populated[class] \cap {"lastPrice", "bidPrice"}),
       trade \in IF class \in HasTradeConditions THEN TradeChoices ELSE {{}},
       quote \in IF class \in HasQuoteCondition THEN AtMostOne(QuoteConditions) ELSE {{}},
       flags \in IF class \in HasFlags THEN FlagChoices ELSE {{}} :
          message' = [type |-> TypeOf(class, item), class |-> class, item |-> item,
                      request |-> request, text |-> text, end |-> end, zero |-> zero,
                      trade |-> trade, quote |-> quote, flags |-> flags]

(* The constructors, on the threads of the API.                            *)
Construct ==
    /\ message = Nothing
    /\ \E class \in DOMAIN Populated, item, request \in BOOLEAN :
          /\ class \in Requestless => ~request
          /\ class \notin Requestless \cup {"error"} => request
          /\ item => class \in HasItem
          /\ Make(class, item, request)
    /\ UNCHANGED <<object, reading>>

-----------------------------------------------------------------------------
(* value(): one call of populate() and the fields of every message.        *)
ItemFields(m) == IF m.item THEN {"symbol", "symbolStatus"} ELSE {}
OneConditionShort(m) == IF m.trade = {} THEN {} ELSE m.trade \ {CHOOSE c \in m.trade : TRUE}
ConditionFields(m) == m.trade
FieldsOf(m) == Populated[m.class] \cup ItemFields(m)
Envelope(m) ==
    {"message"} \cup (IF m.request THEN {"request"} ELSE {}) \cup (IF m.end THEN {"end"} ELSE {})

Value ==
    /\ message # Nothing /\ object = Nothing
    /\ object' = [type |-> message.type, text |-> message.text, zero |-> message.zero,
                  fields |-> FieldsOf(message) \cup ConditionFields(message) \cup message.quote
                             \cup message.flags \cup Envelope(message)]
    /\ UNCHANGED <<message, reading>>

-----------------------------------------------------------------------------
(* What activetick.js takes an object for.                                 *)
IsSet(o, field) == field \in o.fields
Has(o, field) == field \in o.fields \ o.zero

(* receive().                                                              *)
OwnHandlers ==
    {"error", "session_status_change", "server_time_update", "stream_update_trade",
     "stream_update_quote"}
HandlerOf(o) == IF Has(o, "request") THEN "dispatcher"
                ELSE IF o.type \in OwnHandlers THEN "handler" ELSE "callback"

(* The dispatcher of quotes().                                             *)
ReadByQuotes(o) ==
    IF Has(o, "error") /\ o.text # Invalid THEN {"fails"}
    ELSE (IF Has(o, "success") \/ Has(o, "error") THEN {"continues"} ELSE {})
         \cup (IF Has(o, "lastPrice") THEN {"trade"} ELSE {})
         \cup (IF Has(o, "bidPrice") THEN {"quote"} ELSE {})
         \cup (IF Has(o, "end") THEN {"ends"} ELSE {})

(* dispatch() of daily().                                                  *)
ReadByDaily(o) ==
    (IF o.type = "bar_history" THEN {"bar"} ELSE {})
    \cup (IF o.type = "response_complete" THEN {"ends"} ELSE {})
    \cup (IF \/ o.type = "error"
             \/ o.type = "bar_history_response" /\ o.text # "success" THEN {"fails"} ELSE {})

(* dispatch() of holidays().                                               *)
ReadByHolidays(o) ==
    IF Has(o, "error") THEN {"fails"}
    ELSE (IF Has(o, "begins") THEN {"holiday"} ELSE {}) \cup (IF Has(o, "end") THEN {"ends"} ELSE {})

(* onLogin and simpleTrade.                                                *)
ReadAsLogin(o) == IF Has(o, "loginResponse") /\ o.text = "success" THEN {"logged in"} ELSE {}
IsExtended(o) == Has(o, "preMarketVolume") \/ Has(o, "afterMarketVolume")

Receive ==
    /\ object # Nothing /\ reading = Nothing
    /\ reading' = [type |-> "reading", handler |-> HandlerOf(object),
                   quotes |-> ReadByQuotes(object), daily |-> ReadByDaily(object),
                   holidays |-> ReadByHolidays(object), login |-> ReadAsLogin(object),
                   extended |-> IsExtended(object)]
    /\ UNCHANGED <<message, object>>

(* Named so that Conversions can extend this module and Times.             *)
NoMessage == message = Nothing /\ object = Nothing /\ reading = Nothing
MessageNext == Construct \/ Value \/ Receive
MessageSpec == NoMessage /\ [][MessageNext]_messageVars

-----------------------------------------------------------------------------
(* The conditions of a message can be told from its fields, but for two    *)
(* names that conditions of a trade and of a quote have in common: in a    *)
(* refresh, which has both, they say only that one of them is meant.  And  *)
(* no condition or flag has the name of a field that value() sets          *)
(* otherwise, so that no receiver takes a flag for a price or an end.      *)
ConditionsAreReadable ==
    object # Nothing =>
        LET flags == message.flags \cup message.trade \cup message.quote
            shared == TradeConditions \cap QuoteConditions
            refresh == message.class = "stream_update_refresh"
            hidden == IF refresh THEN shared ELSE {}
        IN  /\ flags \cap (FieldsOf(message) \cup {"message", "request", "session", "end"}) = {}
            /\ message.class \in HasTradeConditions =>
                  object.fields \cap (TradeConditions \ hidden) = message.trade \ hidden
            /\ message.class \in HasQuoteCondition =>
                  object.fields \cap (QuoteConditions \ hidden) = message.quote \ hidden

(* Each dispatcher takes each message that answers its requests for what   *)
(* the handler posted it as, the meanings by which Quotes, Daily, Holidays *)
(* and Client know it.  A tick whose price is 0 (a quote without a bid     *)
(* among them) is not told to the listener, but it still ends the answer.  *)
(* A trade is told as an extended one when its flags say so, which only    *)
(* stream updates have: ticks of a history are never extended.             *)
MeantAs(class) == message.class = class
ReadAsMeant ==
    reading # Nothing =>
        LET end == IF message.end THEN {"ends"} ELSE {}
        IN  /\ MeantAs("error") =>
                  /\ reading.quotes = IF message.text = Invalid THEN {"continues"} \cup end
                                      ELSE {"fails"}
                  /\ reading.daily = {"fails"} /\ reading.holidays = {"fails"}
            /\ MeantAs("success") => reading.quotes = {"continues"} /\ reading.holidays = {}
            /\ MeantAs("tick_history_trade") =>
                  reading.quotes = end \cup (IF message.zero = {} THEN {"trade"} ELSE {})
            /\ MeantAs("tick_history_quote") =>
                  reading.quotes = end \cup (IF message.zero = {} THEN {"quote"} ELSE {})
            /\ MeantAs("holiday") => reading.holidays = {"holiday"} \cup end
            /\ MeantAs("bar_history_response") =>
                  reading.daily = IF message.text = "success" THEN {} ELSE {"fails"}
            /\ MeantAs("bar_history") => reading.daily = {"bar"}
            /\ MeantAs("response_complete") => reading.daily = {"ends"}
            /\ reading.login = IF MeantAs("login_response") /\ message.text = "success"
                               THEN {"logged in"} ELSE {}
            /\ message.request <=> reading.handler = "dispatcher"
            /\ reading.extended <=> message.flags \cap {"preMarketVolume", "afterMarketVolume"} # {}
=============================================================================
