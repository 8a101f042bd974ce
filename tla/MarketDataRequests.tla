-------------------------- MODULE MarketDataRequests --------------------------
(* The requests of the market data service (services/market_data.py) and of   *)
(* the portfolio service (services/portfolio.py), by operation.  Today is an   *)
(* argument: an operation reads the clock when it builds its request.  The     *)
(* async services make the same requests.                                      *)
EXTENDS Arguments

CONSTANTS
  DefaultSize,   \* DEFAULT_SIZE, rows of a page
  LargestPage    \* the largest page of corporate actions

FirstPage == 1
Boards     == {"HOSE", "HNX", "UPCOM"}
Timeframes == {"1m", "3m", "5m", "15m", "1h", "1d"}
CorporateActionsMaxDays == 5

NoFilter == [symbol |-> None, index |-> None, board |-> None, timeframe |-> None]
Symbol(symbol) == [NoFilter EXCEPT !.symbol = symbol]
Index(index)   == [NoFilter EXCEPT !.index = index]
OnBoard(board) == [NoFilter EXCEPT !.board = board]

Get(endpoint, filter, from, to, page, size) ==
  {[endpoint |-> endpoint, filter |-> filter, from |-> from, to |-> to,
    page |-> page, size |-> size]}
Lookup(endpoint, filter) == Get(endpoint, filter, NoDate, NoDate, FirstPage, DefaultSize)

RestBoard(board)         == board \in Boards \union {None}
CheckTimeframe(timeframe) == timeframe \in Timeframes
CheckPaging(page, size)  == page > 0 /\ size > 0
CheckPageSize(size)      == size > 0

(* Bars *)
\* A range that ends after today is cut to today, or the server answers nothing.
ClampFutureEnd(timeframe, from, to, today) ==
  IF timeframe # "1d" /\ to.day > today /\ today >= from.day
  THEN Date("stamp", today) ELSE to

\* Mutant: a bare day is sent as it is.
Bare(date) == date

\* The endpoint takes only full timestamps: a bare day gets a time, if _DATE_ONLY
\* matches it, which wants two digits.
WithTime(date) == IF date.layout = "day" THEN Date("stamp", date.day) ELSE date

OrToday(date, today) == IF date = NoDate THEN Date("stamp", today) ELSE date

BuildOHLCParams(symbol, timeframe, from, to, page, size, today) ==
  LET start == OrToday(from, today)
      end   == OrToday(to, today)
  IN  Checked(/\ IsSymbol(symbol) /\ CheckTimeframe(timeframe) /\ CheckPaging(page, size)
              /\ DateRange(start, end, DayOrTime, Unlimited),
              Get("ohlc", [Symbol(symbol) EXCEPT !.timeframe = timeframe], WithTime(start),
                  ClampFutureEnd(timeframe, WithTime(start), WithTime(end), today),
                  page, size))

OHLCToday(symbol, timeframe, today) ==
  BuildOHLCParams(symbol, timeframe, NoDate, NoDate, FirstPage, DefaultSize, today)

OHLCBetween(symbol, timeframe, from, to, page, size, today) ==
  Checked(NoDate \notin {from, to},
          BuildOHLCParams(symbol, timeframe, from, to, page, size, today))

\* download_ohlc_* raise NotImplementedError.
DownloadOHLC1Minute(symbol) == {}
DownloadOHLC1Day(symbol)    == {}

GetOHLC1Minute(symbol, today)  == OHLCToday(symbol, "1m", today)
GetOHLC3Minute(symbol, today)  == OHLCToday(symbol, "3m", today)
GetOHLC5Minute(symbol, today)  == OHLCToday(symbol, "5m", today)
GetOHLC15Minute(symbol, today) == OHLCToday(symbol, "15m", today)
GetOHLC1Hour(symbol, today)    == OHLCToday(symbol, "1h", today)

GetOHLC1MinuteHistorical(symbol, from, to, page, size, today) ==
  OHLCBetween(symbol, "1m", from, to, page, size, today)
GetOHLC3MinuteHistorical(symbol, from, to, page, size, today) ==
  OHLCBetween(symbol, "3m", from, to, page, size, today)
GetOHLC5MinuteHistorical(symbol, from, to, page, size, today) ==
  OHLCBetween(symbol, "5m", from, to, page, size, today)
GetOHLC15MinuteHistorical(symbol, from, to, page, size, today) ==
  OHLCBetween(symbol, "15m", from, to, page, size, today)
GetOHLC1HourHistorical(symbol, from, to, page, size, today) ==
  OHLCBetween(symbol, "1h", from, to, page, size, today)
GetOHLC1DayHistorical(symbol, from, to, page, size, today) ==
  OHLCBetween(symbol, "1d", from, to, page, size, today)

\* Weeks and months are always refused.
GetOHLC1WeekHistorical(symbol, from, to)  == {}
GetOHLC1MonthHistorical(symbol, from, to) == {}

(* Indexes *)
Indexes(board) == Checked(RestBoard(board), Lookup("indexes", OnBoard(board)))
GetIndexes == Indexes(None)
GetIndexesByBoard(board) == Checked(NonEmpty(board), Indexes(board))

IndexSummary(filter, date) ==
  Checked(RestBoard(filter.board),
          Get("indexSummary", filter, date, date, FirstPage, DefaultSize))
GetIndexSummary(index) == Checked(NonEmpty(index), IndexSummary(Index(index), NoDate))
GetIndexSummaryHistorical(index, date) ==
  Checked(NonEmpty(index) /\ date # NoDate, IndexSummary(Index(index), date))
GetBoardSummary(board) == Checked(NonEmpty(board), IndexSummary(OnBoard(board), NoDate))
GetBoardSummaryHistorical(board, date) ==
  Checked(NonEmpty(board) /\ date # NoDate, IndexSummary(OnBoard(board), date))

(* Securities *)
SecuritiesInfo(filter) == Checked(RestBoard(filter.board), Lookup("securities", filter))
GetSecuritiesInfo(symbol) == Checked(NonEmpty(symbol), SecuritiesInfo(Symbol(symbol)))
GetSecuritiesInfoByIndex(index) == Checked(NonEmpty(index), SecuritiesInfo(Index(index)))
GetSecuritiesInfoByBoard(board) == Checked(NonEmpty(board), SecuritiesInfo(OnBoard(board)))

BuildSecuritiesSummaryParams(filter, from, to, page, size) ==
  Checked(/\ ExactlyOne(filter.symbol, filter.index)
          /\ DateRange(from, to, DayOnly, Unlimited)
          /\ CheckPaging(page, size),
          Get("summary", filter, from, to, page, size))

SummaryFrom(filter, from, to) ==
  BuildSecuritiesSummaryParams(filter, from, to, FirstPage, DefaultSize)
\* The clock is read once for each end of the range.
GetSecuritiesSummary(symbol, first, second) ==
  Checked(NonEmpty(symbol),
          SummaryFrom(Symbol(symbol), Date("day", first), Date("day", second)))
GetSecuritiesSummaryHistorical(symbol, from, to) ==
  Checked(NonEmpty(symbol) /\ NoDate \notin {from, to}, SummaryFrom(Symbol(symbol), from, to))
GetSecuritiesSummaryByIndex(index, first, second) ==
  Checked(NonEmpty(index),
          SummaryFrom(Index(index), Date("day", first), Date("day", second)))
GetSecuritiesSummaryByIndexHistorical(index, from, to) ==
  Checked(NonEmpty(index) /\ NoDate \notin {from, to}, SummaryFrom(Index(index), from, to))

(* Master data and corporate actions *)
BuildMasterDataParams(from, to, page) ==
  Checked(DateRange(from, to, DayOnly, Unlimited) /\ CheckPaging(page, DefaultSize),
          Get("master", NoFilter, from, to, page, DefaultSize))
GetMasterData(today) == BuildMasterDataParams(Date("day", today), Date("day", today), FirstPage)
GetMasterDataHistorical(from, to) ==
  Checked(NoDate \notin {from, to}, BuildMasterDataParams(from, to, FirstPage))

BuildCorporateActionsParams(from, to, symbol, language, page) ==
  Checked(/\ DateRange(from, to, DayOnly, CorporateActionsMaxDays)
          /\ symbol = None \/ IsSymbol(symbol)
          /\ language \in {"vn", "en"}
          /\ page > 0,
          Get("corporate", Symbol(symbol), from, to, page, LargestPage))
GetCorporateActions(symbol, language, today) ==
  BuildCorporateActionsParams(Date("day", today), Date("day", today), symbol, language, FirstPage)
GetCorporateActionsHistorical(from, to, symbol, language) ==
  BuildCorporateActionsParams(from, to, symbol, language, FirstPage)

(* Portfolio: what belongs to one account *)
OfAccount(endpoint, account) ==
  Checked(NonEmpty(account), Lookup(endpoint, Symbol(account)))

GetEquityBalance(account)     == OfAccount("balance", account)
GetDerivativeBalance(account) == OfAccount("balance", account)
GetEquityPositions(account)     == OfAccount("positions", account)
GetDerivativePositions(account) == OfAccount("positions", account)
GetOpenDerivativePositions(account)   == OfAccount("positions", account)
GetClosedDerivativePositions(account) == OfAccount("positions", account)
GetEquityPPMMR(account)     == OfAccount("ppmmr", account)
GetDerivativePPMMR(account) == OfAccount("ppmmr", account)

\* One page, the first: the dates go out unchecked.
BuildOrderBookParams(account, from, to) ==
  Get("orders", Symbol(account), from, to, FirstPage, DefaultSize)
GetTodayOrders(account, today) ==
  Checked(NonEmpty(account), BuildOrderBookParams(account, Date("day", today), Date("day", today)))
GetHistoricalOrders(account, from, to) ==
  Checked(NonEmpty(account) /\ NoDate \notin {from, to}, BuildOrderBookParams(account, from, to))
=============================================================================
