------------------------------ MODULE FnsvcCall ------------------------------
(***************************************************************************)
(* The part of src/common/fnsvc.c that every service call goes through:    *)
(* the diagnostics a caller reads after a call, and service_call() over    *)
(* the platform's fnctl_nio_call().                                        *)
(***************************************************************************)
EXTENDS Naturals

CONSTANTS U16,           \* 2^16: lengths and positions are uint16_t
          IoBufSize,     \* FNSVC_IO_BUF_SIZE, the size of req_buf and resp_buf
          RawErrors,     \* what fnctl_last_dos_error() may hold after a failure
          ErrStatuses    \* the statuses other than FNSVC_STATUS_OK a service answers

MaxData == 512           \* FNCTL_MAX_DATA
OK == 0                  \* FNSVC_STATUS_OK

(* A buffer larger than FNCTL_MAX_DATA is refused by every fnctl_nio_call; a
   position in a buffer and the longest entry after it fit a uint16_t. *)
ASSUME CallAssumption == /\ IoBufSize \in Nat /\ IoBufSize <= MaxData
                         /\ U16 \in Nat /\ 2 * MaxData < U16
                         /\ RawErrors \subseteq Nat
                         /\ ErrStatuses \subseteq 1..255

FNSVC_ERR_NONE == 0
FNSVC_ERR_INVALID_ARG == 1
FNSVC_ERR_REQUEST_TOO_LARGE == 2
FNSVC_ERR_TRANSPORT == 3
FNSVC_ERR_STATUS == 4
FNSVC_ERR_BAD_VERSION == 5
FNSVC_ERR_SHORT_RESPONSE == 6
FNSVC_ERR_ENTRIES_BOUNDS == 7
FNSVC_ERR_ENTRY_BOUNDS == 8

VARIABLES last_error, last_status, last_raw_error, last_response_len

diag == <<last_error, last_status, last_raw_error, last_response_len>>

DiagTypeOK == /\ last_error \in 0..8
              /\ last_status \in {OK} \cup ErrStatuses
              /\ last_raw_error \in 0..255
              /\ last_response_len \in 0..IoBufSize

(* The statics of a program that has just been loaded. *)
DiagInit == /\ last_error = FNSVC_ERR_NONE /\ last_status = OK
            /\ last_raw_error = 0 /\ last_response_len = 0

(* The four assignments a call makes once its arguments are accepted; err is
   what last_error holds when the step is over. *)
ResetDiag(err) == /\ last_error' = err /\ last_status' = OK
                  /\ last_raw_error' = 0 /\ last_response_len' = 0

(* Arguments refused before the diagnostics are reset: only last_error moves. *)
RefuseArgs(err) == /\ last_error' = err
                   /\ UNCHANGED <<last_status, last_raw_error, last_response_len>>

(* Variants of the definitions of this module, and further on of others, with a
   slip in them: each breaks a property that the definition keeps. *)
UncutTransportFails(e) == /\ last_error' = FNSVC_ERR_TRANSPORT
                          /\ last_raw_error' = e
                          /\ UNCHANGED <<last_status, last_response_len>>
UncutOnlyExchangeFails(e) == /\ last_error' = FNSVC_ERR_TRANSPORT /\ last_status' = OK
                             /\ last_raw_error' = e /\ last_response_len' = 0

(* service_call() fails: the raw error is cut to eight bits and the status and
   the length keep what the previous exchange left there. *)
TransportFails(e) == /\ last_error' = FNSVC_ERR_TRANSPORT
                     /\ last_raw_error' = e % 256
                     /\ UNCHANGED <<last_status, last_response_len>>

(* The same for a call of one exchange, whose diagnostics were just reset. *)
OnlyExchangeFails(e) == /\ last_error' = FNSVC_ERR_TRANSPORT /\ last_status' = OK
                        /\ last_raw_error' = e % 256 /\ last_response_len' = 0

(* service_call() returned a reply and the caller has judged it: err is the
   failure it found, or FNSVC_ERR_NONE, which the reset left, when it goes on. *)
ReplyArrives(status, len, err) ==
  /\ last_error' = err /\ last_status' = status
  /\ last_response_len' = len /\ last_raw_error' = 0
=============================================================================
