------------------------------ MODULE MarketData -----------------------------
(* An application that asks for market and portfolio data while the server     *)
(* adds rows and the day changes, and the loops that fetch page after page     *)
(* (services/market_data.py).  A row is the day it belongs to, its number the  *)
(* place at which it was added; the server answers a page of the rows whose    *)
(* day is in the range.  The names of the specification say whose they are,    *)
(* because ServicesProofs extends this module and Orders.                      *)
EXTENDS MarketDataRequests

CONSTANTS
  Days,         \* the days, 1..Days
  MaxRows,      \* bound on the rows at the server
  MaxQueries,   \* bound on the calls
  Symbols, Ranges, Sizes   \* the arguments tried

ASSUME MarketAssumption ==
  /\ {MaxRows, MaxQueries} \subseteq Nat /\ Days \in Nat \ {0}
  /\ DefaultSize \in Nat \ {0} /\ LargestPage \in Nat \ {0}
  /\ Sizes \subseteq Int
  /\ \A range \in Ranges : range[1].day \in Int /\ range[2].day \in Int

VARIABLES
  today,    \* the date of the clock
  rows,     \* the day of each row at the server, in the order they were added
  newest,   \* whether the lists with a page count come newest first
  loop,     \* the call under way
  queries   \* how many calls were made

marketVars == <<today, rows, newest, loop, queries>>

\* A call fetches pages by one of three rules, or one page.
Rules == {"short", "first", "last", "one"}

NoQuery == [endpoint |-> "none", filter |-> NoFilter, from |-> NoDate, to |-> NoDate,
            page |-> 0, size |-> 0]
Done == [state |-> "done", rule |-> "one", query |-> NoQuery, pages |-> 0,
         got |-> {}, due |-> {}, still |-> TRUE, range |-> <<NoDate, NoDate>>]

MarketInit == /\ today = 1
        /\ rows = <<>>
        /\ newest \in BOOLEAN
        /\ loop = Done
        /\ queries = 0

(* The server *)
Matching(query) ==
  {n \in DOMAIN rows : query.from.day <= rows[n] /\ rows[n] <= query.to.day}
NewestFirst(query) == query.endpoint = "ohlc" \/ newest

\* It refuses bars between bare days, and answers nothing to bars of less than
\* a day that end after today.
Refuses(query) ==
  query.endpoint = "ohlc" /\ DayOnly \intersect {query.from.layout, query.to.layout} # {}
Answers(query) ==
  IF query.endpoint = "ohlc" /\ query.filter.timeframe # "1d" /\ query.to.day > today
  THEN {} ELSE Matching(query)

\* The rank of a row in the answer, and the rows of the page asked for.
Rank(n, among, newestFirst) ==
  Cardinality({m \in among : IF newestFirst THEN m >= n ELSE m <= n})
PageOf(query) ==
  LET before == (query.page - 1) * query.size
  IN  {n \in Answers(query) :
         Rank(n, Answers(query), NewestFirst(query)) \in before + 1 .. before + query.size}
PagesCount(query) == (Cardinality(Answers(query)) + query.size - 1) \div query.size

(* The calls *)
\* Bars: short pages end the loop.  iter_ohlc and get_ohlc_all check the size
\* first and build the request again for each page.
IterOHLC(symbol, timeframe, range, page, size) ==
  Checked(CheckPageSize(size),
          BuildOHLCParams(symbol, timeframe, range[1], range[2], page, size, today))

Start(rule, query, range) ==
  loop' = [state |-> "fetch", rule |-> rule, query |-> query, pages |-> 0,
           got |-> {}, due |-> Matching(query), still |-> TRUE, range |-> range]

MayAsk == loop.state = "done" /\ queries < MaxQueries

Begin(rule, requests, range) ==
  /\ MayAsk
  /\ queries' = queries + 1
  /\ \/ \E query \in requests : Start(rule, query, range)
     \/ requests = {} /\ UNCHANGED loop
  /\ UNCHANGED <<today, rows, newest>>

AllOHLC(symbol, range) ==
  \E timeframe \in Timeframes \union {"1w"}, size \in Sizes :
    Begin("short", IterOHLC(symbol, timeframe, range, FirstPage, size), range)

OHLCQueries(symbol, range) ==
  {GetOHLC1Minute(symbol, today), GetOHLC3Minute(symbol, today), GetOHLC5Minute(symbol, today),
   GetOHLC15Minute(symbol, today), GetOHLC1Hour(symbol, today),
   DownloadOHLC1Minute(symbol), DownloadOHLC1Day(symbol),
   GetOHLC1WeekHistorical(symbol, range[1], range[2]),
   GetOHLC1MonthHistorical(symbol, range[1], range[2])}
    \union UNION {{GetOHLC1MinuteHistorical(symbol, range[1], range[2], page, size, today),
            GetOHLC3MinuteHistorical(symbol, range[1], range[2], page, size, today),
            GetOHLC5MinuteHistorical(symbol, range[1], range[2], page, size, today),
            GetOHLC15MinuteHistorical(symbol, range[1], range[2], page, size, today),
            GetOHLC1HourHistorical(symbol, range[1], range[2], page, size, today),
            GetOHLC1DayHistorical(symbol, range[1], range[2], page, size, today)} :
              page \in {1, 2}, size \in Sizes}

IndexQueries(index, range) ==
  {GetIndexes, GetIndexesByBoard("HOSE"), GetIndexesByBoard("DERIVATIVES"),
   GetIndexSummary(index), GetIndexSummaryHistorical(index, range[1]),
   GetBoardSummary("HNX"), GetBoardSummaryHistorical("HNX", range[1]),
   GetSecuritiesInfo(index), GetSecuritiesInfoByIndex(index),
   GetSecuritiesInfoByBoard("UPCOM")}

PortfolioQueries(account, range) ==
  {GetEquityBalance(account), GetDerivativeBalance(account), GetEquityPositions(account),
   GetDerivativePositions(account), GetOpenDerivativePositions(account),
   GetClosedDerivativePositions(account), GetEquityPPMMR(account),
   GetDerivativePPMMR(account), GetTodayOrders(account, today),
   GetHistoricalOrders(account, range[1], range[2])}

OnePage(symbol, range) ==
  \E requests \in OHLCQueries(symbol, range) \union IndexQueries(symbol, range)
                    \union PortfolioQueries(symbol, range) :
    Begin("one", requests, range)

\* Summaries: the page count of the first answer; master data and corporate
\* actions: that of the last one.
Summaries(symbol, range) ==
  \E requests \in {GetSecuritiesSummary(symbol, today, today),
                   GetSecuritiesSummaryByIndex(symbol, today, today),
                   GetSecuritiesSummaryHistorical(symbol, range[1], range[2]),
                   GetSecuritiesSummaryByIndexHistorical(symbol, range[1], range[2])} :
    Begin("first", requests, range)

Listings(symbol, range) ==
  \E requests \in {GetMasterData(today), GetMasterDataHistorical(range[1], range[2]),
                   GetCorporateActions(symbol, "vn", today),
                   GetCorporateActionsHistorical(range[1], range[2], symbol, "en")} :
    Begin("last", requests, range)

(* The loops *)
\* Mutant: the page is never counted on.
SamePage(page) == page
NextPage(page) == page + 1

\* Mutant: the first answer's count is read as the number of further pages.
OneTooFew(page, pages) == page + 1 >= pages
LastPage(page, pages) == page >= pages

\* The page that follows, asked for when the caller goes on.  Bars ask again
\* for their range, which is today's if none was given.
Further(page) ==
  IF loop.rule = "short"
  THEN IterOHLC(loop.query.filter.symbol, loop.query.filter.timeframe, loop.range, page,
                loop.query.size)
  ELSE {[loop.query EXCEPT !.page = page]}

ShortPage(page, size) == Cardinality(page) < size

Ended(page, pages) ==
  CASE loop.rule = "one"   -> TRUE
    [] loop.rule = "short" -> ShortPage(page, loop.query.size)
    [] loop.rule = "first" -> LastPage(loop.query.page, pages) \/ page = {}
    [] loop.rule = "last"  -> LastPage(loop.query.page, pages)

\* A request that the server refuses raises APIError, and the call is over.
Refused ==
  /\ loop.state = "fetch" /\ Refuses(loop.query)
  /\ loop' = Done
  /\ UNCHANGED <<today, rows, newest, queries>>

\* One round of a loop: a request, its answer, and whether to go on.
Fetch ==
  /\ loop.state = "fetch" /\ ~Refuses(loop.query)
  /\ LET page  == PageOf(loop.query)
         pages == IF loop.rule = "first" /\ loop.pages > 0 THEN loop.pages
                  ELSE PagesCount(loop.query)
         read  == [loop EXCEPT !.got = @ \union page, !.pages = pages]
     IN  \/ Ended(page, pages) /\ loop' = [read EXCEPT !.state = "done"]
         \/ /\ ~Ended(page, pages)
            /\ \E query \in Further(NextPage(loop.query.page)) :
                 loop' = [read EXCEPT !.query = query]
  /\ UNCHANGED <<today, rows, newest, queries>>

(* The world *)
AddRow ==
  /\ Len(rows) < MaxRows
  /\ rows' = Append(rows, today)
  /\ loop' = [loop EXCEPT !.still = FALSE]
  /\ UNCHANGED <<today, newest, queries>>

Midnight ==
  /\ today < Days
  /\ today' = today + 1
  /\ UNCHANGED <<rows, newest, loop, queries>>

MarketNext ==
  \/ \E s \in Symbols, r \in Ranges : AllOHLC(s, r)
  \/ \E s \in Symbols, r \in Ranges : OnePage(s, r)
  \/ \E s \in Symbols, r \in Ranges : Summaries(s, r)
  \/ \E s \in Symbols, r \in Ranges : Listings(s, r)
  \/ Refused
  \/ Fetch
  \/ AddRow
  \/ Midnight

MarketSpec == MarketInit /\ [][MarketNext]_marketVars
\* A caller that iterates goes on.
FairMarketSpec == MarketSpec /\ WF_marketVars(Refused \/ Fetch)

-----------------------------------------------------------------------------
(* Properties *)

\* The clock, the rows and the call have their types, and pages count from 1.
MarketTypeOK ==
  /\ today \in 1..Days /\ queries \in 0..MaxQueries /\ newest \in BOOLEAN
  /\ rows \in Seq(1..Days) /\ Len(rows) <= MaxRows
  /\ loop.state \in {"fetch", "done"} /\ loop.rule \in Rules
  /\ loop.state = "fetch" => loop.query.page \in 1..(MaxRows + 2)

\* A call for all pages returns every row that its range held when it began,
\* although rows are added and the day changes while it pages.  It does not
\* when the range is today's by default and the day changes (iter_ohlc reads
\* the clock for each page), nor when rows are added in front of a list whose
\* page count is read once (_get_securities_summary).
PagesComplete ==
  /\ loop.state = "done" /\ loop.rule # "one"
  /\ NoDate \notin {loop.range[1], loop.range[2]}
  /\ loop.rule = "first" => loop.still \/ ~newest
  => loop.due \subseteq loop.got

Padded(range) == "unpadded" \notin {range[1].layout, range[2].layout}

\* Whatever range an application gives for bars, with a time, with days of two
\* digits or not at all, and whatever the clock says when a page is asked for, the
\* request is one the server accepts.  It is not when a bare day is given with one
\* digit: parse_date_arg accepts that, and _with_time sends it without a time.
NeverRefused ==
  loop.state = "fetch" /\ Padded(loop.range) => ~Refuses(loop.query)

\* A call for all pages ends, as long as its caller goes on.
LoopEnds == loop.state = "fetch" ~> loop.state = "done"
=============================================================================
