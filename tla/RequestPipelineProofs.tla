----------------------- MODULE RequestPipelineProofs -----------------------
(***************************************************************************)
(* Proofs about RequestPipeline, for any numbers and any currencies.       *)
(*                                                                         *)
(* NothingUnchecked speaks of the past of a request: the invariant says,   *)
(* stage by stage, what has been checked by then.                          *)
(***************************************************************************)
EXTENDS RequestPipeline, SequenceTheorems, TLAPS

Names == {"service", "consumer"}

\* From the parameters on, a strategy of the route has verified the token.
Verified ==
  request.route # "health" =>
    \E i \in DOMAIN StrategiesOf(request.route) : user = StrategiesOf(request.route)[i]

\* What a handler may rely on.
Checked ==
  /\ Verified
  /\ request.route \in WriteRoutes =>
       /\ request.key
       /\ IsObject(request.body.money) =>
            /\ Positive(request.body.money.amount)
            /\ request.body.money.currency \in Currencies
  /\ request.route \in PageRoutes /\ IsObject(request.body.pagination) =>
       Positive(request.body.pagination.perPage)

\* The strategies yet to be tried are among those of the route.
StrategiesLeft ==
  strategies \in Seq(Names) /\
  \A i \in DOMAIN strategies :
    \E j \in DOMAIN StrategiesOf(request.route) :
      strategies[i] = StrategiesOf(request.route)[j]

PipelineInv ==
  /\ request \in Requests
  /\ stage \in Stages
  /\ stage = "strategies" => StrategiesLeft
  /\ stage \in {"guarded", "params"} => Verified
  /\ stage \in {"handler", "interceptor"} => handled
  /\ handled => Checked
  /\ row = "own" => handled /\ IsObject(request.body.money)

-----------------------------------------------------------------------------
(* A request to move money whose parameters nothing refuses has a key, and *)
(* an object in it has a positive amount and a known currency (the         *)
(* ValidationPipe over HeadersDto, WalletDto and MoneyDto).                *)
LEMMA ParamsAreChecked ==
  ASSUME NEW q, ParamExceptions(q) = {}, q.route \in WriteRoutes
  PROVE  /\ q.key
         /\ IsObject(q.body.money) =>
              Positive(q.body.money.amount) /\ q.body.money.currency \in Currencies
<1>1. HeaderErrors(q) = {}  BY DEF ParamExceptions
<1>2. q.key  BY <1>1 DEF HeaderErrors
<1>3. ~TransformThrows(q)  BY DEF ParamExceptions
<1>4. BodyErrors(q) = {}  BY <1>3 DEF ParamExceptions
<1>5. MoneyErrors(q.body.money) = {}  BY <1>4 DEF BodyErrors, WriteRoutes
<1>6. IsObject(q.body.money) =>
        Positive(q.body.money.amount) /\ q.body.money.currency \in Currencies
  BY <1>5 DEF MoneyErrors, IsObject
<1>7. QED  BY <1>2, <1>6

(* An object that asks for a page has a positive page size, if nothing     *)
(* refuses the parameters of its request (PaginationDto).                  *)
LEMMA PagesAreChecked ==
  ASSUME NEW q, ParamExceptions(q) = {}, q.route \in PageRoutes, IsObject(q.body.pagination)
  PROVE  Positive(q.body.pagination.perPage)
<1>1. ~TransformThrows(q)  BY DEF TransformThrows, PageRoutes, WriteRoutes
<1>2. BodyErrors(q) = {}  BY <1>1 DEF ParamExceptions
<1>3. PaginationErrors(q.body.pagination) = {}  BY <1>2 DEF BodyErrors, PageRoutes, WriteRoutes
<1>4. QED  BY <1>3 DEF PaginationErrors, IsObject

(* The strategies of a route are a sequence of names.                      *)
LEMMA StrategiesType == ASSUME NEW r PROVE StrategiesOf(r) \in Seq(Names)
<1>1. /\ <<"service">> \in Seq(Names) /\ <<"consumer">> \in Seq(Names)
      /\ <<"service", "consumer">> \in Seq(Names) /\ <<>> \in Seq(Names)
  BY DEF Names
<1>2. StrategiesOf(r) \in {<<"service">>, <<"consumer">>, <<"service", "consumer">>, <<>>}
  BY Zenon DEF StrategiesOf
<1>3. QED  BY <1>1, <1>2

LEMMA PipelineInvInit == ASSUME Init PROVE PipelineInv
BY DEF Init, PipelineInv, Stages

LEMMA PipelineInvNext == ASSUME PipelineInv, [Next]_vars PROVE PipelineInv'
<1> USE DEF PipelineInv, Stages
<1>1. CASE RequestIdMiddleware
  BY <1>1 DEF RequestIdMiddleware, Checked, Verified
<1>2. CASE RouteNotFound
  BY <1>2 DEF RouteNotFound, Throw, Checked, Verified
<1>3. CASE GlobalGuards
  <2>1. StrategiesLeft' /\ (request.route = "health" => Verified')
    BY <1>3, StrategiesType DEF GlobalGuards, StrategiesLeft, Verified
  <2>2. QED  BY <1>3, <2>1 DEF GlobalGuards, Checked, Verified
<1>4. CASE MissingToken
  BY <1>4 DEF MissingToken, Throw, Checked, Verified
<1>5. CASE Authenticated
  <2>1. strategies \in Seq(Names) /\ strategies # <<>> /\ user' = strategies[1]
    BY <1>5 DEF Authenticated, StrategiesLeft
  <2>2. 1 \in DOMAIN strategies  BY <2>1
  <2>3. Verified'  BY <1>5, <2>1, <2>2 DEF Authenticated, StrategiesLeft, Verified
  <2>4. QED  BY <1>5, <2>3 DEF Authenticated, Checked
<1>6. CASE StrategyFails
  <2>1. strategies \in Seq(Names) /\ strategies # <<>> /\ strategies' = Tail(strategies)
    BY <1>6 DEF StrategyFails, StrategiesLeft
  <2>2. strategies' \in Seq(Names)  BY <2>1
  <2>3. ASSUME NEW i \in DOMAIN strategies'
        PROVE  i + 1 \in DOMAIN strategies /\ strategies'[i] = strategies[i + 1]
    BY <2>1
  <2>4. StrategiesLeft'  BY <1>6, <2>2, <2>3 DEF StrategyFails, StrategiesLeft
  <2>5. QED  BY <1>6, <2>4 DEF StrategyFails, Checked, Verified
<1>7. CASE AllStrategiesFailed
  BY <1>7 DEF AllStrategiesFailed, Throw, Checked, Verified
<1>8. CASE ParamRefused
  BY <1>8 DEF ParamRefused, ThrowInside, Checked, Verified
<1>9. CASE CurrencyRefused
  BY <1>9 DEF CurrencyRefused, ThrowInside, Checked, Verified
<1>10. CASE CallHandler
  <2>1. Checked  BY <1>10, ParamsAreChecked, PagesAreChecked DEF CallHandler, Checked
  <2>2. QED  BY <1>10, <2>1 DEF CallHandler, Checked, Verified
<1>11. CASE HandlerReturns
  BY <1>11 DEF HandlerReturns, MayInsert, Checked, Verified
<1>12. CASE InsufficientBalance
  BY <1>12 DEF InsufficientBalance, ThrowInside, Checked, Verified
<1>13. CASE DuplicateKey
  BY <1>13 DEF DuplicateKey, ThrowInside, Checked, Verified
<1>14. CASE QueryFails
  BY <1>14 DEF QueryFails, MayInsert, ThrowInside, Checked, Verified
<1>15. CASE InterserviceFails
  BY <1>15 DEF InterserviceFails, ThrowInside, Checked, Verified
<1>16. CASE ResponseInterceptor
  BY <1>16 DEF ResponseInterceptor, Checked, Verified
<1>17. CASE GlobalExceptionFilter
  BY <1>17 DEF GlobalExceptionFilter, Checked, Verified
<1>18. CASE InterceptRequest
  BY <1>18 DEF InterceptRequest, Checked, Verified
<1>19. CASE CatchError
  BY <1>19 DEF CatchError, Checked, Verified
<1>20. CASE UNCHANGED vars
  BY <1>20 DEF vars, StrategiesLeft, Checked, Verified
<1>22. CASE BodyParsed
  BY <1>22 DEF BodyParsed, Checked, Verified
<1>23. CASE BodyRefused
  BY <1>23 DEF BodyRefused, Throw, Checked, Verified
<1>24. CASE NoAmount
  BY <1>24 DEF NoAmount, ThrowInside, Checked, Verified
<1>21. QED
  BY <1>1, <1>2, <1>3, <1>4, <1>5, <1>6, <1>7, <1>8, <1>9, <1>10, <1>11, <1>12, <1>13,
     <1>14, <1>15, <1>16, <1>17, <1>18, <1>19, <1>20, <1>22, <1>23, <1>24 DEF Next, Step, Answered

(* What has been checked by each stage of the pipeline.                    *)
THEOREM PipelineInvariant == Spec => []PipelineInv
<1>1. Init => PipelineInv  BY PipelineInvInit
<1>2. PipelineInv /\ [Next]_vars => PipelineInv'  BY PipelineInvNext
<1>3. QED  BY <1>1, <1>2, PTL DEF Spec

(* No service is called for a request with a token that was not verified   *)
(* or, to move money, without a key, and no row is recorded but for an     *)
(* object with a positive amount in a known currency (guards before pipes  *)
(* before the handler, which has nothing to record of a list).             *)
THEOREM HandlersAreGuarded == Spec => []NothingUnchecked
<1>1. PipelineInv => NothingUnchecked
  BY DEF PipelineInv, Checked, Verified, NothingUnchecked
<1>2. QED  BY <1>1, PipelineInvariant, PTL

-----------------------------------------------------------------------------
(***************************************************************************)
(* What a status says of the table.  A row of the request's own appears    *)
(* only where the handler ends; from there the exception, or its absence,  *)
(* carries the knowledge to the answer.                                    *)
(***************************************************************************)
StatusInv ==
  /\ stage \notin {"interceptor", "catchError", "filter", "answered"} => row # "own"
  /\ stage # "answered" => response = NoResponse
  /\ stage = "interceptor" /\ request.route \in WriteRoutes => row # "none"
  /\ stage \in {"catchError", "filter"} =>
       /\ Status(exception) \in {400, 401, 404, 500}
       /\ row = "own" => Status(exception) = 500
  /\ ClientErrorRecordsNothing
  /\ SuccessIsOnRecord

(* The statuses of the exceptions of the pipeline.                         *)
LEMMA Statuses ==
  /\ Status(Unauthorized) = 401 /\ Status(NotFound) = 404
  /\ Status(OtherError) = 500 /\ Status(AxiosError) = 500
  /\ \A status, key : Status(ApiException(status, key)) = status
  /\ \A status, message : Status(HttpException(status, message)) = status
  /\ \A properties : Status(ValidationFailed(properties)) = 400
BY DEF Status, Unauthorized, NotFound, OtherError, AxiosError, ApiException, HttpException,
       ValidationFailed, Exception

LEMMA StatusInvInit == ASSUME Init PROVE StatusInv
BY DEF Init, StatusInv, NoResponse, ClientErrorRecordsNothing, SuccessIsOnRecord

LEMMA StatusInvNext == ASSUME StatusInv, [Next]_vars PROVE StatusInv'
<1> USE DEF StatusInv, ClientErrorRecordsNothing, SuccessIsOnRecord
<1>1. CASE RequestIdMiddleware  BY <1>1 DEF RequestIdMiddleware, NoResponse
<1>2. CASE RouteNotFound
  BY <1>2, Statuses DEF RouteNotFound, Throw, NoResponse
<1>3. CASE GlobalGuards  BY <1>3 DEF GlobalGuards, NoResponse
<1>4. CASE MissingToken
  BY <1>4, Statuses DEF MissingToken, Throw, NoResponse
<1>5. CASE Authenticated  BY <1>5 DEF Authenticated, NoResponse
<1>6. CASE StrategyFails  BY <1>6 DEF StrategyFails, NoResponse
<1>7. CASE AllStrategiesFailed
  BY <1>7, Statuses DEF AllStrategiesFailed, Throw, NoResponse
<1>8. CASE ParamRefused
  <2>1. PICK e \in ParamExceptions(request) : ThrowInside(e)  BY <1>8 DEF ParamRefused
  <2>2. Status(e) \in {400, 500}  BY Statuses DEF ParamExceptions
  <2>3. QED  BY <1>8, <2>1, <2>2 DEF ParamRefused, ThrowInside, NoResponse
<1>9. CASE CurrencyRefused
  <2>1. Status(HttpException(400, "currency is not valid")) = 400
    BY DEF Status, HttpException, Exception
  <2>2. stage = "params" \/ stage = "handler"  BY <1>9 DEF CurrencyRefused
  <2>3. QED  BY <1>9, <2>1, <2>2 DEF CurrencyRefused, ThrowInside, NoResponse
<1>10. CASE CallHandler  BY <1>10 DEF CallHandler, NoResponse
<1>11. CASE HandlerReturns  BY <1>11 DEF HandlerReturns, MayInsert, NoResponse
<1>12. CASE InsufficientBalance
  <2>1. Status(HttpException(400, "Insufficient Balance")) = 400
    BY DEF Status, HttpException, Exception
  <2>2. stage = "params" \/ stage = "handler"  BY <1>12 DEF InsufficientBalance
  <2>3. QED  BY <1>12, <2>1, <2>2 DEF InsufficientBalance, ThrowInside, NoResponse
<1>13. CASE DuplicateKey
  BY <1>13, Statuses DEF DuplicateKey, ThrowInside, NoResponse
<1>14. CASE QueryFails
  BY <1>14, Statuses DEF QueryFails, MayInsert, ThrowInside, NoResponse
<1>15. CASE InterserviceFails
  <2>1. PICK e \in {HttpException(500, "AUTH_TOKEN_NOT_GENERATED"), AxiosError, OtherError} : ThrowInside(e)
    BY <1>15 DEF InterserviceFails
  <2>2. Status(e) = 500  BY Statuses
  <2>3. QED  BY <1>15, <2>1, <2>2 DEF InterserviceFails, ThrowInside, NoResponse
<1>16. CASE ResponseInterceptor
  BY <1>16 DEF ResponseInterceptor, SuccessStatus
<1>17. CASE GlobalExceptionFilter
  <2>1. /\ response'.status = Status(exception) /\ stage = "filter" /\ stage' = "answered"
        /\ UNCHANGED <<request, row>>
    BY <1>17 DEF GlobalExceptionFilter
  <2>2. Status(exception) \in {400, 401, 404, 500} /\ (row = "own" => Status(exception) = 500)
    BY <2>1
  <2> QED BY <2>1, <2>2
<1>18. CASE InterceptRequest  BY <1>18 DEF InterceptRequest, NoResponse
<1>19. CASE CatchError  BY <1>19 DEF CatchError, NoResponse
<1>20. CASE UNCHANGED vars  BY <1>20 DEF vars
<1>22. CASE BodyParsed  BY <1>22 DEF BodyParsed, NoResponse
<1>23. CASE BodyRefused
  <2>1. PICK e \in {HttpException(400, "Unexpected token"), OtherError} : Throw(e)
    BY <1>23 DEF BodyRefused
  <2>2. Status(HttpException(400, "Unexpected token")) = 400
    BY DEF Status, HttpException, Exception
  <2>3. Status(OtherError) = 500  BY Statuses
  <2>4. e = HttpException(400, "Unexpected token") \/ e = OtherError  BY <2>1, Zenon
  <2>5. Status(e) \in {400, 500}
    <3>1. CASE e = HttpException(400, "Unexpected token")  BY <2>2, <3>1, Zenon
    <3>2. CASE e = OtherError  BY <2>3, <3>2, Zenon
    <3> QED BY <2>4, <3>1, <3>2
  <2> QED BY <1>23, <2>1, <2>5 DEF BodyRefused, Throw, NoResponse
<1>24. CASE NoAmount
  BY <1>24, Statuses DEF NoAmount, ThrowInside, NoResponse
<1>21. QED
  BY <1>1, <1>2, <1>3, <1>4, <1>5, <1>6, <1>7, <1>8, <1>9, <1>10, <1>11, <1>12, <1>13,
     <1>14, <1>15, <1>16, <1>17, <1>18, <1>19, <1>20, <1>22, <1>23, <1>24 DEF Next, Step, Answered

(* What is known of the table at each stage.                               *)
THEOREM StatusInvariant == Spec => []StatusInv
<1>1. Init => StatusInv  BY StatusInvInit
<1>2. StatusInv /\ [Next]_vars => StatusInv'  BY StatusInvNext
<1>3. QED  BY <1>1, <1>2, PTL DEF Spec

(* A request answered with a 4xx has recorded nothing (the exceptions of   *)
(* the guards, the pipes and the balance check, and _getStatus).           *)
THEOREM ClientErrorsAreHarmless == Spec => []ClientErrorRecordsNothing
<1>1. StatusInv => ClientErrorRecordsNothing  BY DEF StatusInv
<1>2. QED  BY <1>1, StatusInvariant, PTL

(* A charge or a recharge answered with a 2xx is on record.                *)
THEOREM SuccessIsReal == Spec => []SuccessIsOnRecord
<1>1. StatusInv => SuccessIsOnRecord  BY DEF StatusInv
<1>2. QED  BY <1>1, StatusInvariant, PTL

-----------------------------------------------------------------------------
(***************************************************************************)
(* What the request leaves behind.  Inside the interceptors nothing is     *)
(* captured yet and the log has the request line; a guard throws past      *)
(* them, but never a 5xx, and the body parser before there is anything to  *)
(* report to.                                                              *)
(***************************************************************************)
Before == {"received", "identified", "routed", "strategies", "guarded"}
Inside == {"params", "handler", "interceptor", "catchError"}

OnlyRequestLine == logged = IF IsLogAllowed THEN <<RequestLine>> ELSE <<>>

ReportInv ==
  /\ stage \in Stages
  /\ stage \in Before => captured = 0 /\ logged = <<>> /\ ~handled
  /\ stage \in {"received", "identified"} => transaction = "none"
  /\ stage \in Inside => captured = 0 /\ OnlyRequestLine
  /\ stage = "filter" =>
       \/ /\ Status(exception) \in 400 .. 499 \/ transaction = "none"
          /\ logged = <<>> /\ ~handled
       \/ captured = 1 /\ transaction = "finished" /\ OnlyRequestLine
  /\ stage # "answered" => response = NoResponse
  /\ ServerErrorsAreReported
  /\ LogTellsTheAnswer

(* A line after the request line.                                          *)
LEMMA SecondLine ==
  ASSUME NEW status \in Nat
  PROVE  Append(<<RequestLine>>, status) = <<RequestLine, status>>
<1>1. ASSUME NEW first \in Seq(Nat), Len(first) = 1, first[1] = RequestLine
      PROVE  Append(first, status) = <<RequestLine, status>>
  <2>1. /\ Append(first, status) \in Seq(Nat) /\ Len(Append(first, status)) = Len(first) + 1
        /\ \A i \in 1 .. Len(first) : Append(first, status)[i] = first[i]
        /\ Append(first, status)[Len(first) + 1] = status
    BY AppendProperties, SMTT(30)
  <2>2. ASSUME NEW both \in Seq(Nat), Len(both) = 2, both[1] = RequestLine, both[2] = status
        PROVE  both = <<RequestLine, status>>
    BY <2>2
  <2>3. Append(first, status)[1] = RequestLine /\ Append(first, status)[2] = status
    BY <1>1, <2>1
  <2>4. Len(Append(first, status)) = 2  BY <1>1, <2>1
  <2> QED BY <2>1, <2>2, <2>3, <2>4, Zenon
<1>2. <<RequestLine>> \in Seq(Nat) /\ Len(<<RequestLine>>) = 1 /\ <<RequestLine>>[1] = RequestLine
  BY DEF RequestLine
<1> QED BY <1>1, <1>2, Zenon

LEMMA ReportInvInit == ASSUME Init PROVE ReportInv
BY DEF Init, ReportInv, Stages, Before, Inside, NoResponse, ServerErrorsAreReported, LogTellsTheAnswer

(* The steps among the guards, and those from the parameters to the end of *)
(* the handler, leave the reports alone.                                   *)
LEMMA QuietReports ==
  ASSUME ReportInv, UNCHANGED <<request, response, reports>>, stage' \in Stages,
         \/ /\ stage \in Before /\ stage' \in Before /\ UNCHANGED handled
            /\ stage' \in {"received", "identified"} => stage = "received"
         \/ stage \in Inside /\ stage' \in Inside
  PROVE  ReportInv'
<1>1. stage # "answered" /\ stage' # "answered" /\ stage' # "filter"
  BY DEF Stages, Before, Inside
<1>2. OnlyRequestLine' <=> OnlyRequestLine
  BY DEF reports, OnlyRequestLine, IsLogAllowed
<1>3. response'.status = 0
  BY <1>1 DEF ReportInv, NoResponse
<1> QED BY <1>1, <1>2, <1>3 DEF ReportInv, reports, Before, Inside,
             ServerErrorsAreReported, LogTellsTheAnswer

(* What a guard throws, or the router, is a 4xx; what the body parser      *)
(* throws comes before the transaction.                                    *)
LEMMA ThrownBefore ==
  ASSUME ReportInv, stage \in Before, NEW e, Throw(e),
         Status(e) \in 400 .. 499 \/ transaction = "none",
         UNCHANGED <<request, response, handled, reports>>
  PROVE  ReportInv'
BY DEF ReportInv, Throw, reports, Stages, Before, Inside, NoResponse,
       ServerErrorsAreReported, LogTellsTheAnswer

LEMMA ReportInvNext == ASSUME StatusInv, ReportInv, [Next]_vars PROVE ReportInv'
<1> USE DEF ReportInv, NoResponse, ServerErrorsAreReported, LogTellsTheAnswer
<1>1. CASE RequestIdMiddleware
  BY <1>1, QuietReports DEF RequestIdMiddleware, Stages, Before
<1>2. CASE RouteNotFound
  BY <1>2, Statuses, ThrownBefore DEF RouteNotFound, Before
<1>3. CASE GlobalGuards
  BY <1>3 DEF GlobalGuards, Stages, Before, Inside
<1>4. CASE MissingToken
  BY <1>4, Statuses, ThrownBefore DEF MissingToken, Before
<1>5. CASE Authenticated
  BY <1>5, QuietReports DEF Authenticated, Stages, Before
<1>6. CASE StrategyFails
  BY <1>6, QuietReports DEF StrategyFails, Stages, Before
<1>7. CASE AllStrategiesFailed
  BY <1>7, Statuses, ThrownBefore DEF AllStrategiesFailed, Before
<1>8. CASE InterceptRequest
  <2>1. logged = <<>>  BY <1>8 DEF InterceptRequest, Before
  <2>2. Append(<<>>, RequestLine) = <<RequestLine>>  OBVIOUS
  <2>3. OnlyRequestLine'
    BY <1>8, <2>1, <2>2 DEF InterceptRequest, LogLine, IsLogAllowed, OnlyRequestLine, RequestLine
  <2> QED BY <1>8, <2>3 DEF InterceptRequest, Stages, Before, Inside
<1>9. CASE ParamRefused
  BY <1>9, QuietReports DEF ParamRefused, ThrowInside, Stages, Inside
<1>10. CASE CurrencyRefused
  BY <1>10, QuietReports DEF CurrencyRefused, ThrowInside, Stages, Inside
<1>11. CASE CallHandler
  BY <1>11, QuietReports DEF CallHandler, Stages, Inside
<1>12. CASE HandlerReturns
  BY <1>12, QuietReports DEF HandlerReturns, Stages, Inside
<1>13. CASE InsufficientBalance
  BY <1>13, QuietReports DEF InsufficientBalance, ThrowInside, Stages, Inside
<1>14. CASE DuplicateKey
  BY <1>14, QuietReports DEF DuplicateKey, ThrowInside, Stages, Inside
<1>15. CASE QueryFails
  BY <1>15, QuietReports DEF QueryFails, ThrowInside, Stages, Inside
<1>16. CASE InterserviceFails
  BY <1>16, QuietReports DEF InterserviceFails, ThrowInside, Stages, Inside
<1>17. CASE CatchError
  <2>1. captured' = 1 /\ transaction' = "finished"
    BY <1>17 DEF CatchError, CaptureException, FinishTransaction, Inside
  <2>2. OnlyRequestLine'
    BY <1>17 DEF CatchError, LogNoResponse, OnlyRequestLine, IsLogAllowed, Inside
  <2> QED BY <1>17, <2>1, <2>2 DEF CatchError, Stages, Before, Inside
<1>18. CASE ResponseInterceptor
  <2>1. SuccessStatus \in {200, 201} /\ response'.status = SuccessStatus
    BY <1>18 DEF ResponseInterceptor, SuccessStatus
  <2>2. Append(<<RequestLine>>, SuccessStatus) = <<RequestLine, SuccessStatus>>
    BY <2>1, SecondLine
  <2>3. logged' = IF IsLogAllowed THEN <<RequestLine, response'.status>> ELSE <<>>
    BY <1>18, <2>1, <2>2 DEF ResponseInterceptor, LogLine, OnlyRequestLine, Inside
  <2> QED BY <1>18, <2>1, <2>3 DEF ResponseInterceptor, IsLogAllowed, Stages, Before, Inside, RequestLine
<1>19. CASE GlobalExceptionFilter
  <2>1. response'.status = Status(exception) /\ logged' = Append(logged, Status(exception))
    BY <1>19 DEF GlobalExceptionFilter
  <2>2. /\ Append(<<>>, Status(exception)) = <<Status(exception)>>
        /\ Append(<<RequestLine>>, Status(exception)) = <<RequestLine, Status(exception)>>
    <3>1. Status(exception) \in Nat  BY <1>19 DEF GlobalExceptionFilter, StatusInv
    <3> QED BY <3>1, SecondLine
  <2>3. LogTellsTheAnswer'
    BY <1>19, <2>1, <2>2 DEF GlobalExceptionFilter, OnlyRequestLine, IsLogAllowed, RequestLine
  <2>4. ServerErrorsAreReported'
    <3>1. \/ Status(exception) \in 400 .. 499
          \/ transaction = "none"
          \/ captured = 1 /\ transaction = "finished"
      BY <1>19 DEF GlobalExceptionFilter
    <3>2. UNCHANGED <<captured, transaction>>  BY <1>19 DEF GlobalExceptionFilter
    <3>3. \A n \in 400 .. 499 : ~(n >= 500)  OBVIOUS
    <3> QED BY <2>1, <3>1, <3>2, <3>3
  <2> QED BY <1>19, <2>3, <2>4 DEF GlobalExceptionFilter, Stages, Before, Inside
<1>20. CASE UNCHANGED vars
  BY <1>20 DEF vars, reports, OnlyRequestLine, IsLogAllowed
<1>22. CASE BodyParsed
  BY <1>22, QuietReports DEF BodyParsed, Stages, Before
<1>23. CASE BodyRefused
  <2>1. PICK e \in {HttpException(400, "Unexpected token"), OtherError} : Throw(e)
    BY <1>23 DEF BodyRefused
  <2>2. transaction = "none" /\ stage \in Before  BY <1>23 DEF BodyRefused, Before
  <2> QED BY <1>23, <2>1, <2>2, ThrownBefore DEF BodyRefused
<1>24. CASE NoAmount
  BY <1>24, QuietReports DEF NoAmount, ThrowInside, Stages, Inside
<1>21. QED
  BY <1>1, <1>2, <1>3, <1>4, <1>5, <1>6, <1>7, <1>8, <1>9, <1>10, <1>11, <1>12, <1>13,
     <1>14, <1>15, <1>16, <1>17, <1>18, <1>19, <1>20, <1>22, <1>23, <1>24 DEF Next, Step, Answered

(* What is in Sentry and in the log at each stage.                         *)
THEOREM ReportInvariant == Spec => []ReportInv
<1>1. Init => ReportInv  BY ReportInvInit
<1>2. StatusInv /\ ReportInv /\ [Next]_vars => ReportInv'  BY ReportInvNext
<1>3. QED  BY <1>1, <1>2, StatusInvariant, PTL DEF Spec

(* Whatever is answered with a 5xx after its transaction was started has   *)
(* been captured, once (catchError of SentryInterceptor).                  *)
THEOREM NoServerErrorIsLost == Spec => []ServerErrorsAreReported
<1>1. ReportInv => ServerErrorsAreReported  BY DEF ReportInv
<1>2. QED  BY <1>1, ReportInvariant, PTL

(* The log has one response line for every answer, with its status, but    *)
(* for the successes of requests with "health" in their url                *)
(* (LoggingInterceptor and _logErrorResponse).                             *)
THEOREM TheLogIsTrue == Spec => []LogTellsTheAnswer
<1>1. ReportInv => LogTellsTheAnswer  BY DEF ReportInv
<1>2. QED  BY <1>1, ReportInvariant, PTL

-----------------------------------------------------------------------------
(***************************************************************************)
(* Types.                                                                  *)
(***************************************************************************)
StrategyLists == {<<>>, <<"service">>, <<"consumer">>, <<"service", "consumer">>}

(* What is left of the strategies of a route.                              *)
LEMMA TailsAreLists ==
  ASSUME NEW s \in StrategyLists, s # <<>>
  PROVE  Tail(s) \in StrategyLists /\ Head(s) \in {"service", "consumer"}
<1>1. CASE s = <<"service">>
  <2>1. Tail(s) = <<>> /\ Head(s) = "service"  BY <1>1
  <2> QED BY <2>1 DEF StrategyLists
<1>2. CASE s = <<"consumer">>
  <2>1. Tail(s) = <<>> /\ Head(s) = "consumer"  BY <1>2
  <2> QED BY <2>1 DEF StrategyLists
<1>3. CASE s = <<"service", "consumer">>
  <2>1. Tail(s) = <<"consumer">> /\ Head(s) = "service"  BY <1>3
  <2> QED BY <2>1 DEF StrategyLists
<1> QED BY <1>1, <1>2, <1>3 DEF StrategyLists

LEMMA TypedInit == Init => TypeOK
<1> SUFFICES ASSUME Init PROVE TypeOK
  OBVIOUS
<1>1. row \in {"none", "earlier", "own"}  BY DEF Init
<1>2. response.status = 0  BY DEF Init, NoResponse
<1>3. strategies = <<>> /\ stage \in Stages  BY DEF Init, Stages
<1> QED BY <1>1, <1>2, <1>3 DEF Init, TypeOK

LEMMA TypedNext == StatusInv /\ TypeOK /\ [Next]_vars => TypeOK'
<1> SUFFICES ASSUME StatusInv, TypeOK, [Next]_vars PROVE TypeOK'
  OBVIOUS
<1> USE DEF TypeOK, reports
<1>1. CASE RequestIdMiddleware  BY <1>1 DEF RequestIdMiddleware, Stages
<1>2. CASE RouteNotFound  BY <1>2 DEF RouteNotFound, Throw, Stages
<1>3. CASE GlobalGuards
  <2>1. StrategiesOf(request.route) \in StrategyLists
    BY Zenon DEF StrategiesOf, StrategyLists
  <2>2. stage' \in Stages  BY <1>3 DEF GlobalGuards, Stages
  <2> QED BY <1>3, <2>1, <2>2 DEF GlobalGuards, StartTransaction, StrategyLists
<1>4. CASE MissingToken  BY <1>4 DEF MissingToken, Throw, Stages
<1>5. CASE Authenticated
  <2>1. strategies \in StrategyLists  BY DEF StrategyLists
  <2>2. user' \in {"service", "consumer"}
    BY <1>5, <2>1, TailsAreLists DEF Authenticated
  <2> QED BY <1>5, <2>2 DEF Authenticated, Stages
<1>6. CASE StrategyFails
  <2>1. strategies \in StrategyLists  BY DEF StrategyLists
  <2>2. strategies' \in StrategyLists
    BY <1>6, <2>1, TailsAreLists DEF StrategyFails
  <2> QED BY <1>6, <2>2 DEF StrategyFails, StrategyLists
<1>7. CASE AllStrategiesFailed  BY <1>7 DEF AllStrategiesFailed, Throw, Stages
<1>8. CASE ParamRefused  BY <1>8 DEF ParamRefused, ThrowInside, Stages
<1>9. CASE CurrencyRefused
  <2>1. /\ stage' = "catchError"
        /\ UNCHANGED <<request, strategies, user, handled, row, response, reports>>
    BY <1>9, Zenon DEF CurrencyRefused, ThrowInside
  <2> QED BY <2>1 DEF Stages
<1>10. CASE CallHandler  BY <1>10 DEF CallHandler, Stages
<1>11. CASE HandlerReturns  BY <1>11 DEF HandlerReturns, MayInsert, Stages
<1>12. CASE InsufficientBalance
  <2>1. /\ stage' = "catchError"
        /\ UNCHANGED <<request, strategies, user, handled, row, response, reports>>
    BY <1>12, Zenon DEF InsufficientBalance, ThrowInside
  <2> QED BY <2>1 DEF Stages
<1>13. CASE DuplicateKey  BY <1>13 DEF DuplicateKey, ThrowInside, Stages
<1>14. CASE QueryFails  BY <1>14 DEF QueryFails, MayInsert, ThrowInside, Stages
<1>15. CASE InterserviceFails  BY <1>15 DEF InterserviceFails, ThrowInside, Stages
<1>16. CASE InterceptRequest  BY <1>16 DEF InterceptRequest, Stages
<1>17. CASE CatchError
  BY <1>17 DEF CatchError, CaptureException, FinishTransaction, Stages
<1>18. CASE ResponseInterceptor
  BY <1>18 DEF ResponseInterceptor, SuccessStatus, FinishTransaction, Stages
<1>19. CASE GlobalExceptionFilter
  <2>1. Status(exception) \in {400, 401, 404, 500}
    BY <1>19 DEF StatusInv, GlobalExceptionFilter
  <2>2. response'.status = Status(exception)  BY <1>19 DEF GlobalExceptionFilter
  <2> QED BY <1>19, <2>1, <2>2 DEF GlobalExceptionFilter, Stages
<1>20. CASE UNCHANGED vars  BY <1>20 DEF vars
<1>21. CASE BodyParsed  BY <1>21 DEF BodyParsed, Stages
<1>22. CASE BodyRefused
  <2>1. /\ stage' = "filter"
        /\ UNCHANGED <<request, strategies, user, handled, row, response, reports>>
    BY <1>22, Zenon DEF BodyRefused, Throw
  <2> QED BY <2>1 DEF Stages
<1>23. CASE NoAmount  BY <1>23 DEF NoAmount, ThrowInside, Stages
<1> QED
  BY <1>1, <1>2, <1>3, <1>4, <1>5, <1>6, <1>7, <1>8, <1>9, <1>10, <1>11, <1>12, <1>13,
     <1>14, <1>15, <1>16, <1>17, <1>18, <1>19, <1>20, <1>21, <1>22, <1>23 DEF Next, Step, Answered

(* Every variable has its type: no other status is ever answered           *)
(* (_getStatus).                                                           *)
THEOREM PipelineIsTyped == Spec => []TypeOK
<1>1. Init => TypeOK  BY TypedInit
<1>2. StatusInv /\ TypeOK /\ [Next]_vars => TypeOK'  BY TypedNext
<1>3. QED  BY <1>1, <1>2, StatusInvariant, PTL DEF Spec

-----------------------------------------------------------------------------
(***************************************************************************)
(* What EveryRequestIsAnswered rests on beside fairness: a request goes    *)
(* forward with every step, strategy by strategy, and no exception takes   *)
(* it back.                                                                *)
(***************************************************************************)
\* The steps a request still has before it, at most.
StepsLeft ==
  CASE stage = "received"    -> 11
    [] stage = "identified"  -> 10
    [] stage = "routed"      -> 9
    [] stage = "strategies"  -> 6 + Len(strategies)
    [] stage = "guarded"     -> 5
    [] stage = "params"      -> 4
    [] stage = "handler"     -> 3
    [] stage = "interceptor" -> 1
    [] stage = "catchError"  -> 2
    [] stage = "filter"      -> 1
    [] stage = "answered"    -> 0

(* What is left of the strategies is one less each time.                   *)
LEMMA TailsAreShorter ==
  ASSUME NEW s \in StrategyLists
  PROVE  /\ Len(s) \in 0 .. 2
         /\ s # <<>> => Len(Tail(s)) = Len(s) - 1
BY DEF StrategyLists

\* Every step, failures included, leaves fewer to come (the pipeline of
\* bootstrap, the guards of a route and the filter).
Advances == StepsLeft' < StepsLeft

THEOREM RequestsOnlyAdvance == Spec => [][Advances]_vars
<1>1. ASSUME TypeOK, Step PROVE Advances
  <2>1. strategies \in StrategyLists /\ Len(strategies) \in 0 .. 2
    BY <1>1, TailsAreShorter DEF TypeOK, StrategyLists
  <2>2. CASE RequestIdMiddleware  BY <2>2 DEF RequestIdMiddleware, Advances, StepsLeft
  <2>3. CASE RouteNotFound  BY <2>3 DEF RouteNotFound, Throw, Advances, StepsLeft
  <2>4. CASE GlobalGuards
    <3> DEFINE n == Len(strategies')
    <3>1. StrategiesOf(request.route) \in StrategyLists
      BY Zenon DEF StrategiesOf, StrategyLists
    <3>2. stage = "routed" /\ strategies' \in StrategyLists
      BY <2>4, <3>1 DEF GlobalGuards
    <3>3. stage' = "guarded" \/ stage' = "strategies"
      BY <2>4 DEF GlobalGuards
    <3>4. n \in 0 .. 2  BY <3>2, TailsAreShorter
    <3>5. StepsLeft = 9  BY <3>2 DEF StepsLeft
    <3>6. CASE stage' = "guarded"
      <4>1. StepsLeft' = 5  BY <3>6 DEF StepsLeft
      <4> QED BY <3>5, <4>1 DEF Advances
    <3>7. CASE stage' = "strategies"
      <4>1. StepsLeft' = 6 + n  BY <3>7, Zenon DEF StepsLeft
      <4> HIDE DEF n
      <4>2. 6 + n < 9  BY <3>4
      <4> QED BY <3>5, <4>1, <4>2, Zenon DEF Advances
    <3> QED BY <3>3, <3>6, <3>7
  <2>5. CASE MissingToken  BY <2>1, <2>5 DEF MissingToken, Throw, Advances, StepsLeft
  <2>6. CASE Authenticated  BY <2>1, <2>6 DEF Authenticated, Advances, StepsLeft
  <2>7. CASE StrategyFails
    <3>1. Len(strategies') = Len(strategies) - 1
      BY <2>1, <2>7, TailsAreShorter DEF StrategyFails
    <3> QED BY <2>1, <2>7, <3>1 DEF StrategyFails, Advances, StepsLeft
  <2>8. CASE AllStrategiesFailed
    BY <2>1, <2>8 DEF AllStrategiesFailed, Throw, Advances, StepsLeft
  <2>9. CASE InterceptRequest  BY <2>9 DEF InterceptRequest, Advances, StepsLeft
  <2>10. CASE ParamRefused
    <3>1. stage = "params" /\ stage' = "catchError"
      BY <2>10, Zenon DEF ParamRefused, ThrowInside
    <3> QED BY <3>1 DEF Advances, StepsLeft
  <2>11. CASE CurrencyRefused
    <3>1. stage = "params" /\ stage' = "catchError"
      BY <2>11, Zenon DEF CurrencyRefused, ThrowInside
    <3> QED BY <3>1 DEF Advances, StepsLeft
  <2>12. CASE CallHandler  BY <2>12 DEF CallHandler, Advances, StepsLeft
  <2>13. CASE HandlerReturns
    <3>1. stage = "handler" /\ stage' = "interceptor"
      BY <2>13, Zenon DEF HandlerReturns
    <3> QED BY <3>1 DEF Advances, StepsLeft
  <2>14. CASE InsufficientBalance
    <3>1. stage = "handler" /\ stage' = "catchError"
      BY <2>14, Zenon DEF InsufficientBalance, ThrowInside
    <3> QED BY <3>1 DEF Advances, StepsLeft
  <2>15. CASE DuplicateKey  BY <2>15 DEF DuplicateKey, ThrowInside, Advances, StepsLeft
  <2>16. CASE QueryFails  BY <2>16 DEF QueryFails, ThrowInside, Advances, StepsLeft
  <2>17. CASE InterserviceFails
    BY <2>17 DEF InterserviceFails, ThrowInside, Advances, StepsLeft
  <2>18. CASE CatchError  BY <2>18 DEF CatchError, Advances, StepsLeft
  <2>19. CASE ResponseInterceptor  BY <2>19 DEF ResponseInterceptor, Advances, StepsLeft
  <2>20. CASE GlobalExceptionFilter
    BY <2>20 DEF GlobalExceptionFilter, Advances, StepsLeft
  <2>21. CASE BodyParsed  BY <2>21 DEF BodyParsed, Advances, StepsLeft
  <2>22. CASE BodyRefused
    <3>1. stage = "identified" /\ stage' = "filter"
      BY <2>22, Zenon DEF BodyRefused, Throw
    <3> QED BY <3>1 DEF Advances, StepsLeft
  <2>23. CASE NoAmount  BY <2>23 DEF NoAmount, ThrowInside, Advances, StepsLeft
  <2> QED
    BY <1>1, <2>2, <2>3, <2>4, <2>5, <2>6, <2>7, <2>8, <2>9, <2>10, <2>11, <2>12, <2>13,
       <2>14, <2>15, <2>16, <2>17, <2>18, <2>19, <2>20, <2>21, <2>22, <2>23 DEF Step
<1>2. TypeOK /\ [Next]_vars => [Advances]_vars
  BY <1>1 DEF Next, Answered
<1> QED BY <1>2, PipelineIsTyped, PTL DEF Spec
=============================================================================
