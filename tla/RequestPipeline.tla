-------------------------- MODULE RequestPipeline --------------------------
(***************************************************************************)
(* One HTTP request, from the middleware to the answer: the body parser,   *)
(* the strategies of its route, the parameters of its handler under the    *)
(* ValidationPipe, the handler, and the exception filter, which turns      *)
(* whatever was thrown into a status and the names of the errors; and what *)
(* the request leaves in Sentry and in the log, which is all an operator   *)
(* sees of it.                                                             *)
(*                                                                         *)
(* The handlers of charge and recharge are those of WalletService, reduced *)
(* to how they end.  Every route is @Public(), so the global JwtAuthGuard  *)
(* and RolesGuard let every request pass.                                  *)
(***************************************************************************)
EXTENDS Integers, Sequences

CONSTANTS
  Numbers,     \* amounts and pages of a body, None for one that is missing
  Currencies,  \* CurrencyCodeEnum
  OtherText,   \* a string that is no currency
  Inherited,   \* one that is none, but a name every JavaScript object has
  EmptyList,   \* a list in the place of an object, with nothing in it to check
  None         \* what is missing, or is neither an object nor a list

ASSUME PipelineAssumption ==
  /\ Numbers \subseteq Int \cup {None}
  /\ {OtherText, Inherited} \cap Currencies = {}
  /\ OtherText # Inherited
  /\ None \notin Int \cup Currencies \cup {OtherText, Inherited, EmptyList}

WriteRoutes == {"charge", "recharge"}
PageRoutes  == {"walletUsers", "walletTransactions"}
ReadRoutes  == {"balance", "transactions"}
Routes      == WriteRoutes \cup PageRoutes \cup ReadRoutes \cup {"health", "unknown"}

Texts == Currencies \cup {OtherText, Inherited, None}

\* @ValidateNested takes a list element by element, so that an object is checked
\* the same where it is an element of a list (list) and where it is not.
Objects(fields) == {None, EmptyList} \cup fields

Moneys      == Objects([amount : Numbers, currency : Texts, list : BOOLEAN])
Paginations == Objects([totalPages : Numbers, perPage : Numbers, currentPage : Numbers,
                        list : BOOLEAN])

\* What a handler finds the properties of a body's object in.
IsObject(o) == o \notin {None, EmptyList} /\ ~o.list

\* optionals: what may be missing of the rest of the body is well-formed.
WriteBodies == [retailerId : BOOLEAN, optionals : BOOLEAN, money : Moneys]
PageBodies  == [retailerId : BOOLEAN, optionals : BOOLEAN, pagination : Paginations]

\* A token is what the authorization header holds; key says whether there is an
\* idempotency-key header, currency is the query parameter, and health says
\* whether "health" occurs in the url, where the client may write it as well.
Request(routes, keys, currencies, bodies, healths) ==
  [route : routes, token : {None, "service", "consumer", "refused"},
   key : keys, currency : currencies, body : bodies, health : healths]

Requests ==
  Request(WriteRoutes, BOOLEAN, {None}, WriteBodies, BOOLEAN)
    \cup Request(PageRoutes, {FALSE}, {None}, PageBodies, BOOLEAN)
    \cup Request(ReadRoutes, {FALSE}, Texts, {None}, BOOLEAN)
    \cup Request({"unknown"}, {FALSE}, {None}, {None}, BOOLEAN)
    \cup Request({"health"}, {FALSE}, {None}, {None}, {TRUE})

VARIABLES
  request,
  stage,       \* where the request is
  strategies,  \* strategies of the route yet to be tried
  user,        \* request.user: the kind of token that was verified
  handled,     \* the handler has called the service
  row,         \* the row of the request's key: none, an earlier one, its own
  exception,   \* what was thrown
  response,    \* [status, names]
  transaction, \* the Sentry transaction of the request: none, started, finished
  captured,    \* exceptions sent to Sentry
  logged       \* the log: RequestLine, and the status of every response line

reports == <<transaction, captured, logged>>
vars    == <<request, stage, strategies, user, handled, row, exception, response, reports>>

-----------------------------------------------------------------------------
(***************************************************************************)
(* Exceptions, and what the filter makes of them.                          *)
(***************************************************************************)
Exception(classes, status, names) ==
  [classes |-> classes, status |-> status, names |-> names]

ApiException(status, key) == Exception({"HttpException", "ApiException"}, status, {key})
ValidationFailed(properties) ==
  Exception({"HttpException", "ValidationFailedException"}, 400, properties)
HttpException(status, message) == Exception({"HttpException"}, status, {message})
Unauthorized == Exception({"HttpException", "UnauthorizedException"}, 401, {"Unauthorized"})
NotFound     == Exception({"HttpException", "NotFoundException"}, 404, {"Cannot GET"})
AxiosError   == Exception({"AxiosError"}, 500, {"INTERSERVICE_ERROR"})
OtherError   == Exception({}, 500, {"UNEXPECTED_ERROR"})

Nothing    == Exception({}, 0, {})

NoResponse == [status |-> 0, names |-> {}]

FromApiException(e)  == e.names   \* its key
FromHttpException(e) == e.names   \* its message
UnAuthorizedError     == {"UNAUTHORIZED"}
ResourceNotFoundError == {"RESOURCE_NOT_FOUND"}

\* The branches of the filter, in their order.
ErrorNames(e) ==
  IF "AxiosError" \in e.classes THEN AxiosError.names
  ELSE IF "ApiException" \in e.classes THEN FromApiException(e)
  ELSE IF "ValidationFailedException" \in e.classes THEN e.names
  ELSE IF "HttpException" \in e.classes THEN FromHttpException(e)
  ELSE IF "UnauthorizedException" \in e.classes THEN UnAuthorizedError
  ELSE IF "NotFoundException" \in e.classes THEN ResourceNotFoundError
  ELSE OtherError.names

\* Variant: what is no HttpException is blamed on the client.
StatusBlamingTheClient(e) == IF "HttpException" \in e.classes THEN e.status ELSE 400

Status(e) == IF "HttpException" \in e.classes THEN e.status ELSE 500

-----------------------------------------------------------------------------
(***************************************************************************)
(* The constraints of the DTOs.                                            *)
(***************************************************************************)
Positive(n) == n # None /\ n > 0

\* @ValidateIf(o => o.totalPages >= o.currentPage); with undefined on a side the
\* comparison is false.
CurrentPageIsValidated(p) ==
  /\ p.totalPages # None /\ p.currentPage # None
  /\ p.totalPages >= p.currentPage

\* Of a nested object the filter names the first property that fails (with the
\* index of its element in a list, which is left out here).
PaginationErrors(p) ==
  IF p = None THEN {"pagination"}
  ELSE IF p = EmptyList THEN {}
  ELSE IF ~Positive(p.totalPages) THEN {"pagination.totalPages"}
  ELSE IF ~Positive(p.perPage) THEN {"pagination.perPage"}
  ELSE IF CurrentPageIsValidated(p) /\ ~Positive(p.currentPage) THEN {"pagination.currentPage"}
  ELSE {}

\* In an inherited currency the amount has become NaN, which is not positive.
MoneyErrors(m) ==
  IF m = None THEN {"money"}
  ELSE IF m = EmptyList THEN {}
  ELSE IF ~Positive(m.amount) \/ m.currency \notin Currencies THEN {"money.amount"}
  ELSE {}

\* @IsOptional, and what else is said of it.
OptionalsOf(route) ==
  CASE route \in WriteRoutes          -> {"transactionType"}
    [] route = "walletUsers"          -> {"currency"}
    [] route = "walletTransactions"   -> {"filter"}
    [] OTHER                          -> {}

OptionalErrors(q) == IF q.body.optionals THEN {} ELSE OptionalsOf(q.route)

RetailerErrors(q) == IF q.body.retailerId THEN {} ELSE {"retailerId"}

BodyErrors(q) ==
  CASE q.route \in WriteRoutes ->
         MoneyErrors(q.body.money) \cup RetailerErrors(q) \cup OptionalErrors(q)
    [] q.route = "walletTransactions" ->
         PaginationErrors(q.body.pagination) \cup RetailerErrors(q) \cup OptionalErrors(q)
    [] q.route = "walletUsers" -> PaginationErrors(q.body.pagination) \cup OptionalErrors(q)
    [] OTHER -> {}

\* Before a body is validated it is transformed, and the transformation of an
\* amount reads the denomination of its currency.
TransformThrows(q) ==
  /\ q.route \in WriteRoutes
  /\ q.body.money \notin {None, EmptyList}
  /\ q.body.money.currency \notin Currencies \cup {Inherited}

HeaderErrors(q) == IF q.route \in WriteRoutes /\ ~q.key THEN {"idempotencyKey"} ELSE {}

\* The exceptions of the parameters that are refused.  Parameters are resolved
\* together, and the one that is refused first decides.
ParamExceptions(q) ==
  {ValidationFailed(names) : names \in {HeaderErrors(q)} \ {{}}}
    \cup (IF TransformThrows(q) THEN {OtherError}
          ELSE {ValidationFailed(names) : names \in {BodyErrors(q)} \ {{}}})

-----------------------------------------------------------------------------
(***************************************************************************)
(* The pipeline.                                                           *)
(***************************************************************************)
StrategiesOf(route) ==
  CASE route \in WriteRoutes -> <<"service">>
    [] route = "balance"     -> <<"service", "consumer">>
    [] route = "health"      -> <<>>
    [] OTHER                 -> <<"consumer">>

Init ==
  /\ request \in Requests
  /\ stage = "received"
  /\ strategies = <<>>
  /\ user = None
  /\ handled = FALSE
  /\ row \in (IF request.route \in WriteRoutes THEN {"none", "earlier"} ELSE {"none"})
  /\ exception = Nothing
  /\ response = NoResponse
  /\ transaction = "none"
  /\ captured = 0
  /\ logged = <<>>

\* Outside the interceptors.
Throw(e) ==
  /\ exception' = e
  /\ stage' = "filter"

\* Pipes and handlers run inside the interceptors.
ThrowInside(e) ==
  /\ exception' = e
  /\ stage' = "catchError"

\* The request id is set, and next is called.
RequestIdMiddleware ==
  /\ stage = "received"
  /\ stage' = "identified"
  /\ UNCHANGED <<request, strategies, user, handled, row, exception, response, reports>>

\* Nest's body parser, which NestFactory.create leaves on.
BodyParsed ==
  /\ stage = "identified"
  /\ stage' = "routed"
  /\ UNCHANGED <<request, strategies, user, handled, row, exception, response, reports>>

\* A body that is no JSON: Nest makes an HttpException of the SyntaxError.  What
\* else the parser throws (of a body that is too large) is none.
BodyRefused ==
  /\ stage = "identified"
  /\ \E e \in {HttpException(400, "Unexpected token"), OtherError} : Throw(e)
  /\ UNCHANGED <<request, strategies, user, handled, row, response, reports>>

RouteNotFound ==
  /\ stage = "routed"
  /\ request.route = "unknown"
  /\ Throw(NotFound)
  /\ UNCHANGED <<request, strategies, user, handled, row, response, reports>>

\* @Public() on the controllers: the global guards return true.
IsPublic(route) == route # "unknown"

StartTransaction == transaction' = "started"

\* The providers of the request scope are made, SentryService among them, and
\* then the guards run.
GlobalGuards ==
  /\ stage = "routed"
  /\ IsPublic(request.route)
  /\ StartTransaction
  /\ strategies' = StrategiesOf(request.route)
  /\ stage' = IF request.route = "health" THEN "guarded" ELSE "strategies"
  /\ UNCHANGED <<request, user, handled, row, exception, response, captured, logged>>

\* Without a token the first strategy throws, and no other is tried.
MissingToken ==
  /\ stage = "strategies"
  /\ request.token = None
  /\ Throw(ApiException(401, "MISSING_AUTH_TOKEN"))
  /\ UNCHANGED <<request, strategies, user, handled, row, response, reports>>

\* Variant: what a strategy is given is what it returns.
AuthenticatedUnverified ==
  /\ stage = "strategies"
  /\ strategies # <<>>
  /\ request.token # None
  /\ user' = request.token
  /\ stage' = "guarded"
  /\ UNCHANGED <<request, strategies, handled, row, exception, response, reports>>

\* The library verifies the token.
Authenticated ==
  /\ stage = "strategies"
  /\ strategies # <<>>
  /\ request.token = Head(strategies)
  /\ user' = request.token
  /\ stage' = "guarded"
  /\ UNCHANGED <<request, strategies, handled, row, exception, response, reports>>

\* Variant: the same strategy is tried again.
StrategyTriesAgain ==
  /\ stage = "strategies"
  /\ strategies # <<>>
  /\ request.token # None
  /\ UNCHANGED vars

\* The library throws, for a token it refuses or because it cannot check it now:
\* validate returns false and the next strategy is tried.
StrategyFails ==
  /\ stage = "strategies"
  /\ strategies # <<>>
  /\ request.token # None
  /\ strategies' = Tail(strategies)
  /\ UNCHANGED <<request, stage, user, handled, row, exception, response, reports>>

\* Variant: the guard returns the user it was given, false or not.
LetPass ==
  /\ stage = "strategies"
  /\ strategies = <<>>
  /\ stage' = "guarded"
  /\ UNCHANGED <<request, strategies, user, handled, row, exception, response, reports>>

AllStrategiesFailed ==
  /\ stage = "strategies"
  /\ strategies = <<>>
  /\ Throw(Unauthorized)
  /\ UNCHANGED <<request, strategies, user, handled, row, response, reports>>

-----------------------------------------------------------------------------
(***************************************************************************)
(* The interceptors: LoggingInterceptor, in it ResponseInterceptor, in it  *)
(* SentryInterceptor, and in that the parameters and the handler.          *)
(***************************************************************************)
RequestLine == 0

IsLogAllowed == ~request.health

LogLine(line) == logged' = IF IsLogAllowed THEN Append(logged, line) ELSE logged

InterceptRequest ==
  /\ stage = "guarded"
  /\ LogLine(RequestLine)
  /\ stage' = "params"
  /\ UNCHANGED <<request, strategies, user, handled, row, exception, response>>
  /\ UNCHANGED <<transaction, captured>>

FinishTransaction == transaction' = "finished"

\* Variant: an exception is captured for its status only.
CaptureByStatus ==
  IF "HttpException" \in exception.classes /\ exception.status >= 500
  THEN captured' = captured + 1 ELSE UNCHANGED captured

\* Sentry.captureException: whatever the exception is.
CaptureException == captured' = captured + 1

\* Variant: the response is logged whether or not there is an exception.
LogEveryResponse == LogLine(exception.status)

\* LoggingInterceptor leaves the response line of an exception to the filter.
LogNoResponse == UNCHANGED logged

CatchError ==
  /\ stage = "catchError"
  /\ CaptureException
  /\ FinishTransaction
  /\ LogNoResponse
  /\ stage' = "filter"
  /\ UNCHANGED <<request, strategies, user, handled, row, exception, response>>

ParamRefused ==
  /\ stage = "params"
  /\ \E e \in ParamExceptions(request) : ThrowInside(e)
  /\ UNCHANGED <<request, strategies, user, handled, row, response, reports>>

\* CurrencyCodeEnum[currency] is there: of an object, or of every object.
IsCurrencyName(text) == text \in Currencies \cup {Inherited}

\* getBalance checks the currency itself, before it calls the service.
CurrencyRefused ==
  /\ stage = "params"
  /\ request.route = "balance"
  /\ ~IsCurrencyName(request.currency)
  /\ ThrowInside(HttpException(400, "currency is not valid"))
  /\ UNCHANGED <<request, strategies, user, handled, row, response, reports>>

CallHandler ==
  /\ stage = "params"
  /\ ParamExceptions(request) = {}
  /\ request.route = "balance" => IsCurrencyName(request.currency)
  /\ handled' = TRUE
  /\ stage' = "handler"
  /\ UNCHANGED <<request, strategies, user, row, exception, response, reports>>

-----------------------------------------------------------------------------
(***************************************************************************)
(* How handlers end.                                                       *)
(***************************************************************************)
\* The row that is inserted has the amount and the currency of an object.
MayInsert == request.route \in WriteRoutes /\ row = "none" /\ IsObject(request.body.money)

\* A recharge finds the row of its key, or inserts one; a charge inserts one.
HandlerReturns ==
  /\ stage = "handler"
  /\ IF request.route \in WriteRoutes
     THEN \/ MayInsert /\ row' = "own"
          \/ request.route = "recharge" /\ row # "none" /\ UNCHANGED row
     ELSE UNCHANGED row
  /\ stage' = "interceptor"
  /\ UNCHANGED <<request, strategies, user, handled, exception, response, reports>>

InsufficientBalance ==
  /\ stage = "handler"
  /\ request.route = "charge"
  /\ IsObject(request.body.money)
  /\ ThrowInside(HttpException(400, "Insufficient Balance"))
  /\ UNCHANGED <<request, strategies, user, handled, row, response, reports>>

\* A list has no amount: a charge calls greaterThan of it, which it has not, and
\* a recharge inserts a row without an amount, which MySQL refuses.
NoAmount ==
  /\ stage = "handler"
  /\ request.route \in WriteRoutes
  /\ ~IsObject(request.body.money)
  /\ request.route = "recharge" => row = "none"
  /\ ThrowInside(OtherError)
  /\ UNCHANGED <<request, strategies, user, handled, row, response, reports>>

\* Another attempt's row has the key.
DuplicateKey ==
  /\ stage = "handler"
  /\ request.route \in WriteRoutes
  /\ IsObject(request.body.money)
  /\ request.route = "recharge" => row = "none"
  /\ ThrowInside(OtherError)
  /\ row' = "earlier"
  /\ UNCHANGED <<request, strategies, user, handled, response, reports>>

\* Variant: LogDecorator logs the error and does not throw it again.
QueryErrorIsLogged ==
  /\ stage = "handler"
  /\ request.route # "health"
  /\ stage' = "interceptor"
  /\ UNCHANGED <<request, strategies, user, handled, row, exception, response, reports>>

\* A query or a COMMIT fails, or its reply is lost.
QueryFails ==
  /\ stage = "handler"
  /\ request.route # "health"
  /\ ThrowInside(OtherError)
  /\ \/ UNCHANGED row
     \/ MayInsert /\ row' = "own"
  /\ UNCHANGED <<request, strategies, user, handled, response, reports>>

\* walletUsers: the service token, and the user service.
InterserviceFails ==
  /\ stage = "handler"
  /\ request.route = "walletUsers"
  /\ \E e \in {HttpException(500, "AUTH_TOKEN_NOT_GENERATED"), AxiosError, OtherError} : ThrowInside(e)
  /\ UNCHANGED <<request, strategies, user, handled, row, response, reports>>

-----------------------------------------------------------------------------
(***************************************************************************)
(* The answer.                                                             *)
(***************************************************************************)
SuccessStatus == IF request.route \in WriteRoutes THEN 201 ELSE 200

\* What the handler returned passes through the interceptors.
ResponseInterceptor ==
  /\ stage = "interceptor"
  /\ response' = [status |-> SuccessStatus, names |-> {"SUCCESS"}]
  /\ LogLine(SuccessStatus)
  /\ FinishTransaction
  /\ stage' = "answered"
  /\ UNCHANGED <<request, strategies, user, handled, row, exception, captured>>

\* _logErrorResponse logs every route.
GlobalExceptionFilter ==
  /\ stage = "filter"
  /\ response' = [status |-> Status(exception), names |-> ErrorNames(exception)]
  /\ logged' = Append(logged, Status(exception))
  /\ stage' = "answered"
  /\ UNCHANGED <<request, strategies, user, handled, row, exception, transaction, captured>>

Answered == stage = "answered" /\ UNCHANGED vars

-----------------------------------------------------------------------------
Step ==
  \/ RequestIdMiddleware
  \/ BodyParsed
  \/ BodyRefused
  \/ RouteNotFound
  \/ GlobalGuards
  \/ MissingToken
  \/ Authenticated
  \/ StrategyFails
  \/ AllStrategiesFailed
  \/ InterceptRequest
  \/ ParamRefused
  \/ CurrencyRefused
  \/ CallHandler
  \/ HandlerReturns
  \/ InsufficientBalance
  \/ NoAmount
  \/ DuplicateKey
  \/ QueryFails
  \/ InterserviceFails
  \/ CatchError
  \/ ResponseInterceptor
  \/ GlobalExceptionFilter

Next == Step \/ Answered

Spec == Init /\ [][Next]_vars

\* The event loop runs the continuation of an await that has ended; that the
\* awaits of the handlers end is EveryCallEnds and CallEnds.
FairSpec == Spec /\ WF_vars(Step)

-----------------------------------------------------------------------------
(***************************************************************************)
(* Properties.                                                             *)
(***************************************************************************)
Stages == {"received", "identified", "routed", "strategies", "guarded", "params", "handler",
           "interceptor", "catchError", "filter", "answered"}

\* Every variable has its type.
TypeOK ==
  /\ request \in Requests
  /\ stage \in Stages
  /\ strategies \in {<<>>, <<"service">>, <<"consumer">>, <<"service", "consumer">>}
  /\ user \in {None, "service", "consumer"}
  /\ handled \in BOOLEAN
  /\ row \in {"none", "earlier", "own"}
  /\ response.status \in {0, 200, 201, 400, 401, 404, 500}
  /\ transaction \in {"none", "started", "finished"}
  /\ captured \in Nat

\* A service is called only for a request whose token a strategy of its route has
\* verified and, where money is to be moved, that has a key, and only with an
\* object that was checked.  A list of such objects gets to the handler as well,
\* and an empty one unchecked, but no row is recorded for either.
NothingUnchecked ==
  /\ handled =>
       /\ request.route # "health" =>
            \E i \in DOMAIN StrategiesOf(request.route) : user = StrategiesOf(request.route)[i]
       /\ request.route \in WriteRoutes =>
            /\ request.key
            /\ IsObject(request.body.money) =>
                 /\ Positive(request.body.money.amount)
                 /\ request.body.money.currency \in Currencies
       /\ request.route \in PageRoutes /\ IsObject(request.body.pagination) =>
            Positive(request.body.pagination.perPage)
  /\ row = "own" => handled /\ IsObject(request.body.money)

\* After a 4xx a client knows that this request has recorded nothing, however
\* far it got (after a 5xx it does not know).
ClientErrorRecordsNothing == response.status \in 400 .. 499 => row # "own"

\* After a 2xx to a charge or a recharge the key is on record: no error on the
\* way from the query to the interceptor is lost.
SuccessIsOnRecord ==
  request.route \in WriteRoutes /\ response.status \in 200 .. 299 => row # "none"

\* Every request gets an answer.
EveryRequestIsAnswered == <>(stage = "answered")

\* An operator learns of every 5xx of a request that got to its route: whatever
\* threw it, it is in Sentry once, under a transaction that has ended.  (What the
\* body parser throws comes before the transaction, and Sentry does not see it.)
ServerErrorsAreReported ==
  response.status >= 500 /\ transaction # "none" =>
    captured = 1 /\ transaction = "finished"

\* The log tells how every request ended: it has one response line, with the
\* status answered, whoever wrote it, and before it the request line of every
\* request that reached a handler.  Of a request with "health" in its url it has
\* the response line of a failure, and nothing else.
LogTellsTheAnswer ==
  stage = "answered" =>
    \/ IsLogAllowed /\ logged = <<RequestLine, response.status>>
    \/ logged = <<response.status>> /\ (handled => ~IsLogAllowed)
    \/ logged = <<>> /\ ~IsLogAllowed /\ response.status < 400

\* @IsEnum(CurrencyCodeEnum) of the money of a charge or a recharge: any other
\* currency makes the body invalid, which the pipe reports as a 400.
UnknownCurrencyIsInvalid ==
  /\ response.status = 500 /\ transaction # "none" /\ ~handled
  /\ request.route \in WriteRoutes /\ IsObject(request.body.money)
  => request.body.money.currency \in Currencies
=============================================================================
