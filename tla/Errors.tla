------------------------------- MODULE Errors -------------------------------
(***************************************************************************)
(* The tree of exceptions (src/aslmp/errors/__init__.py), the classes of   *)
(* the end codes (errors/endcodes.py) and the tables that lead to them     *)
(* (errors/routing.py).  What a caller may do next hangs on the class:     *)
(* after a usage error nothing left this process, a transport error may be *)
(* retried, an unknown outcome has to be looked into.                      *)
(*                                                                         *)
(* A class is its name.  The wording of the reports is left out.           *)
(***************************************************************************)
EXTENDS Integers, TLC

\* Classes that have these bases and no others.
Deriving(classes, bases) == [class \in classes |-> bases]

Builtins == Deriving({"Exception", "ValueError", "TimeoutError"}, {})

Roots ==
    Deriving({"SlmpError"}, {"Exception"})
    @@ Deriving({"SlmpUsageError"}, {"SlmpError", "ValueError"})
    @@ Deriving({"SlmpTransportError", "SlmpProtocolError", "SlmpEndCodeError", "SlmpSemanticError",
                 "SlmpOutcomeUnknownError"}, {"SlmpError"})

UsageErrors ==
    Deriving({"SlmpAddressSyntaxError", "SlmpUnknownDeviceError", "SlmpDeviceRadixError",
              "SlmpDeviceNotOnCpuError", "SlmpAddressRangeError", "SlmpPointLimitError",
              "SlmpDeviceNotAllowedHereError", "SlmpCapabilityError",
              "SlmpEncodingNotSupportedError", "SlmpMonitoringTimerError", "SlmpBlockLayoutError",
              "SlmpValueRangeError", "SlmpConfigurationError", "SlmpConcurrentTransactionError"},
             {"SlmpUsageError"})

TransportErrors ==
    Deriving({"SlmpConnectionEntryBusyError", "SlmpNotConnectedError", "SlmpConnectionLostError",
              "SlmpHandshakeError", "SlmpNotSentError"}, {"SlmpTransportError"})
    @@ Deriving({"SlmpConnectionClosedError"}, {"SlmpConnectionLostError"})

SilenceErrors ==
    Deriving({"SlmpDatagramSourceError", "SlmpDatagramLostError"}, {"SlmpTransportError"})
    @@ Deriving({"SlmpTimeoutError"}, {"SlmpTransportError", "TimeoutError"})

ProtocolErrors ==
    Deriving({"SlmpFrameFormatError", "SlmpSerialMismatchError", "SlmpRouteMismatchError",
              "SlmpShortDatagramError", "SlmpTrailingDataError", "SlmpUnsolicitedFrameError",
              "SlmpPayloadShapeError"}, {"SlmpProtocolError"})

EndCodeErrors ==
    Deriving({"SlmpUnsupportedCommandError", "SlmpDeviceRangeError", "SlmpDeviceNotAccessibleError",
              "SlmpPointCountError", "SlmpRequestContentError", "SlmpPlcFramingError",
              "SlmpAsciiConversionError", "SlmpDataLengthError", "SlmpPlcTimeoutError",
              "SlmpBusyError", "SlmpMonitorNotRegisteredError", "SlmpWriteProtectedError",
              "SlmpRoutingError", "SlmpConnectionStateError", "SlmpRemotePasswordError"},
             {"SlmpEndCodeError"})
    @@ Deriving({"SlmpBitPointCountError", "SlmpWordPointCountError", "SlmpRandomPointCountError"},
                {"SlmpPointCountError"})
    @@ Deriving({"SlmpRemotePasswordLockedError", "SlmpRemotePasswordLockoutError"},
                {"SlmpRemotePasswordError"})

CpuErrors ==
    Deriving({"SlmpCpuError"}, {"SlmpEndCodeError"})
    @@ Deriving({"SlmpCpuUnsupportedRequestError", "SlmpCpuDataTooLargeError",
                 "SlmpCpuRunningError", "SlmpCpuFileError", "SlmpCpuDeviceSpecError",
                 "SlmpCpuModuleError", "SlmpCpuRemoteDisabledError"}, {"SlmpCpuError"})

SemanticErrors ==
    Deriving({"SlmpRemoteStateNotReachedError", "SlmpVerificationError", "SlmpProfileMismatchError",
              "SlmpTargetChangedError", "SlmpSinkError", "SlmpImplausibleValueError"},
             {"SlmpSemanticError"})

\* What the wire layer raises has to be translated: an error of its own codec is no SlmpError.
Untranslated == Deriving({"SlmpCodecValueError", "SlmpRouteError"}, {"ValueError"})

Bases ==
    Builtins @@ Roots @@ UsageErrors @@ TransportErrors @@ SilenceErrors @@ ProtocolErrors
    @@ EndCodeErrors @@ CpuErrors @@ SemanticErrors @@ Untranslated

\* What an except clause would have to name to catch it.
Lineage[class \in DOMAIN Bases] == {class} \cup UNION {Lineage[base] : base \in Bases[class]}
IsA(class, base) == base \in Lineage[class]

\* The lines that a caller tells apart; one class is of one of them.
Lines ==
    {"SlmpUsageError", "SlmpTransportError", "SlmpProtocolError", "SlmpEndCodeError",
     "SlmpSemanticError", "SlmpOutcomeUnknownError"}
OfLine(class, line) == Lineage[class] \cap ({"SlmpError"} \cup Lines) = {"SlmpError", line}

-----------------------------------------------------------------------------
(***************************************************************************)
(* END_CODES, the class of each row.  A row may have none of its own.      *)
(***************************************************************************)

Rows(codes, class) == [code \in codes |-> class]
Plain(codes) == Rows(codes, "SlmpEndCodeError")

CpuRequestRows ==
    Rows({\h4000, \h4006}, "SlmpCpuError")
    @@ Rows({\h4001, \h4002}, "SlmpCpuUnsupportedRequestError")
    @@ Rows({\h4005}, "SlmpCpuDataTooLargeError")

CpuRunningRows == Rows({\h4010, \h4013}, "SlmpCpuRunningError")
CpuFileRows == Rows({\h4021, \h4022, \h4025, \h4027, \h4029, \h402C}, "SlmpCpuFileError")

CpuDeviceRows ==
    Rows({\h4030, \h4031, \h4032}, "SlmpCpuDeviceSpecError") @@ Rows({\h4034}, "SlmpCpuError")

CpuModuleRows == Rows({\h4040, \h4041, \h4042, \h4043}, "SlmpCpuModuleError")

CpuAccessRows == Rows({\h4053, \h4060, \h4064, \h4068, \h4080, \h4081}, "SlmpCpuError")

CpuRemoteRows ==
    Rows({\h408B}, "SlmpCpuRemoteDisabledError")
    @@ Rows({\h40A0, \h40A1, \h40A7, \h40A8, \h40B0, \h40B1}, "SlmpCpuError")

ConnectionRows == Rows({\hC001, \hC012, \hC013, \hC015, \hC018}, "SlmpConnectionStateError")

LengthRows ==
    Rows({\hC020}, "SlmpDataLengthError") @@ Plain({\hC021})
    @@ Rows({\hC022, \hC035, \hC040}, "SlmpPlcTimeoutError")

PointCountRows ==
    Rows({\hC050}, "SlmpAsciiConversionError")
    @@ Rows({\hC051}, "SlmpBitPointCountError")
    @@ Rows({\hC052}, "SlmpWordPointCountError")
    @@ Rows({\hC053, \hC054}, "SlmpRandomPointCountError")

RequestRows ==
    Rows({\hC055}, "SlmpDataLengthError") @@ Rows({\hC056}, "SlmpDeviceRangeError")
    @@ Rows({\hC057, \hC058}, "SlmpPlcFramingError")
    @@ Rows({\hC059}, "SlmpUnsupportedCommandError")
    @@ Rows({\hC05A}, "SlmpDeviceNotAccessibleError")

ContentRows ==
    Rows({\hC05B}, "SlmpDeviceNotAccessibleError")
    @@ Rows({\hC05C, \hC060}, "SlmpRequestContentError")
    @@ Rows({\hC05D}, "SlmpMonitorNotRegisteredError")
    @@ Rows({\hC05E}, "SlmpPlcTimeoutError")
    @@ Rows({\hC05F}, "SlmpRoutingError")

FramingRows ==
    Rows({\hC061}, "SlmpPlcFramingError") @@ Rows({\hC062}, "SlmpWriteProtectedError")
    @@ Plain({\hC06F})

RelayRows ==
    Plain({\hC070}) @@ Rows({\hC071}, "SlmpPointCountError")
    @@ Rows({\hC072}, "SlmpRequestContentError")
    @@ Rows({\hC073, \hC074}, "SlmpRoutingError")
    @@ Rows({\hC075}, "SlmpDataLengthError")

StationRows ==
    Rows({\hC0B2, \hC0BD}, "SlmpBusyError") @@ Plain({\hC0B3, \hC0B6})
    @@ Rows({\hC0B5}, "SlmpRequestContentError")
    @@ Rows({\hC0B9, \hC0BA, \hC0BC}, "SlmpConnectionStateError")

BlockRows ==
    Rows({\hC0D8}, "SlmpPointCountError") @@ Rows({\hC0D9}, "SlmpUnsupportedCommandError")
    @@ Rows({\hC0DE}, "SlmpPlcTimeoutError")

ModuleRows ==
    Rows({\hC1A4}, "SlmpUnsupportedCommandError")
    @@ Rows({\hC1A5, \hC1A7, \hC1A8}, "SlmpRoutingError")
    @@ Plain({\hC1A6}) @@ Rows({\hC1A9}, "SlmpDeviceRangeError")
    @@ Rows({\hC1AA}, "SlmpDeviceNotAccessibleError")

PasswordRows ==
    Rows({\hC200, \hC202, \hC203, \hC204, \hC205}, "SlmpRemotePasswordError")
    @@ Rows({\hC201}, "SlmpRemotePasswordLockedError")

LockoutRows ==
    Rows({\hC810}, "SlmpRemotePasswordError")
    @@ Rows({\hC815, \hC816}, "SlmpRemotePasswordLockoutError")
    @@ Rows({\hC86C}, "SlmpBusyError")

SensorRows == Plain({\hCEE0, \hCEE1, \hCEE2, \hCF10, \hCF20})

END_CODES ==
    CpuRequestRows @@ CpuRunningRows @@ CpuFileRows @@ CpuDeviceRows @@ CpuModuleRows
    @@ CpuAccessRows @@ CpuRemoteRows @@ ConnectionRows @@ LengthRows @@ PointCountRows
    @@ RequestRows @@ ContentRows @@ FramingRows @@ RelayRows @@ StationRows @@ BlockRows
    @@ ModuleRows @@ PasswordRows @@ LockoutRows @@ SensorRows

\* Where the tree has them: an error of the codec is of no line.
ASSUME TreeAssumption ==
    /\ \A class \in DOMAIN UsageErrors : OfLine(class, "SlmpUsageError")
    /\ \A class \in DOMAIN ProtocolErrors : OfLine(class, "SlmpProtocolError")
    /\ \A class \in DOMAIN SemanticErrors : OfLine(class, "SlmpSemanticError")
    /\ \A code \in DOMAIN END_CODES : OfLine(END_CODES[code], "SlmpEndCodeError")
    /\ OfLine("SlmpCpuError", "SlmpEndCodeError") /\ OfLine("SlmpEndCodeError", "SlmpEndCodeError")
    /\ OfLine("SlmpTimeoutError", "SlmpTransportError")
    /\ OfLine("SlmpOutcomeUnknownError", "SlmpOutcomeUnknownError")
    /\ \A class \in DOMAIN Untranslated : Lineage[class] \cap ({"SlmpError"} \cup Lines) = {}

\* `end_code_info`: a code nobody has written down still has a class.
EndCodeClass(code) ==
    CASE code \in DOMAIN END_CODES -> END_CODES[code]
      [] code \in \h4000 .. \h4FFF -> "SlmpCpuError"
      [] OTHER -> "SlmpEndCodeError"

-----------------------------------------------------------------------------
(***************************************************************************)
(* From the refusals of the model to the classes.                          *)
(***************************************************************************)

\* Refusals before a request is sent, those of the wire layer by `_USAGE_MAP`.
UsageClass(refusal) ==
    CASE refusal = "syntax"         -> "SlmpAddressSyntaxError"
      [] refusal = "unknown_device" -> "SlmpUnknownDeviceError"
      [] refusal = "radix"          -> "SlmpDeviceRadixError"
      [] refusal = "range"          -> "SlmpAddressRangeError"
      [] refusal = "capability"     -> "SlmpCapabilityError"
      [] refusal = "encoding"       -> "SlmpEncodingNotSupportedError"
      [] refusal = "not_on_cpu"     -> "SlmpDeviceNotOnCpuError"
      [] refusal = "not_allowed"    -> "SlmpDeviceNotAllowedHereError"
      [] refusal = "point_limit"    -> "SlmpPointLimitError"
      [] refusal = "value"          -> "SlmpValueRangeError"
      [] refusal = "layout"         -> "SlmpBlockLayoutError"
      [] refusal = "codec"          -> "SlmpCodecValueError"
      [] OTHER                      -> "SlmpConfigurationError"

\* `_PROTOCOL_MAP`.  A route that is none is no frame error, and stays what it is.
ProtocolClass(fault) ==
    CASE fault = "short"       -> "SlmpShortDatagramError"
      [] fault = "trailing"    -> "SlmpTrailingDataError"
      [] fault = "serial"      -> "SlmpSerialMismatchError"
      [] fault = "unsolicited" -> "SlmpUnsolicitedFrameError"
      [] fault = "route"       -> "SlmpRouteError"
      [] OTHER                 -> "SlmpFrameFormatError"

\* After an end code of zero: a payload that is not the command's, and answers that are
\* not what the caller declared or asked for.
MeaningClass(fault) ==
    CASE fault = "format"        -> "SlmpFrameFormatError"
      [] fault = "shape"         -> "SlmpPayloadShapeError"
      [] fault = "implausible"   -> "SlmpImplausibleValueError"
      [] fault = "verification"  -> "SlmpVerificationError"
      [] fault = "not_reached"   -> "SlmpRemoteStateNotReachedError"
      [] fault = "configuration" -> "SlmpConfigurationError"

\* A fault for FailedExchange: who asked is not looked at.
FailedAsARead(class, mutates) == class

\* `Txn._fail`: a command that may have moved something has an unknown outcome.
FailedExchange(class, mutates) == IF mutates THEN "SlmpOutcomeUnknownError" ELSE class
=============================================================================
