---------------------------- MODULE ShmTransfer ----------------------------
(***************************************************************************)
(* KV caches on their way through the shared-memory connector: the manager *)
(* of the sending stage puts each with retries, that of the receiving one  *)
(* polls for it until a deadline.  A put and a get are several system      *)
(* calls on a named segment and on a lock file, and the two processes      *)
(* interleave between any two of them.                                     *)
(*                                                                         *)
(* The kernel is external: names, flock, and the three steps in which      *)
(* SharedMemory creates a segment (it exists, it has its size, the bytes   *)
(* are written).  Requests have distinct ids, hence distinct names, and    *)
(* one process receives (Bagel, the model that receives KV, has no         *)
(* parallel mode), so a name is never in use by an earlier payload.        *)
(***************************************************************************)
EXTENDS Naturals

CONSTANTS
  KVRequests,
  NoRequest,
  MaxRetries,  \* max_retries of _transfer_with_retry
  MaxTries     \* gets that miss before recv_timeout has passed

ASSUME ShmAssumption ==
  /\ NoRequest \notin KVRequests
  /\ MaxRetries \in Nat \ {0} /\ MaxTries \in Nat \ {0}

VARIABLES
  putting, put_step, attempt,  \* the put under way
  put_result,                        \* what became of each put
  segment, lock_file,          \* what is in /dev/shm for each key
  getting, get_step, tries,    \* the get under way
  data_bytes,                  \* what the get has copied
  received                     \* what became of each receive

putVars == <<putting, put_step, attempt, put_result>>
getVars == <<getting, get_step, tries, data_bytes, received>>
shmVars == <<putVars, segment, lock_file, getVars>>

ShmInit ==
  /\ putting = NoRequest /\ put_step = "idle" /\ attempt = 0
  /\ put_result = [r \in KVRequests |-> "no"]
  /\ segment = [r \in KVRequests |-> "none"]
  /\ lock_file = [r \in KVRequests |-> FALSE]
  /\ getting = NoRequest /\ get_step = "idle" /\ tries = 0
  /\ data_bytes = "none"
  /\ received = [r \in KVRequests |-> "no"]

-----------------------------------------------------------------------------
(* The sending stage.                                                      *)

TransferKVCache(r) ==
  /\ put_step = "idle" /\ put_result[r] = "no"
  /\ putting' = r /\ put_step' = "attempt" /\ attempt' = 1
  /\ UNCHANGED <<put_result, segment, lock_file, getVars>>

PutEnds(result) ==
  /\ put_result' = [put_result EXCEPT ![putting] = result]
  /\ putting' = NoRequest /\ put_step' = "idle" /\ attempt' = 0

Putting(from, to) ==
  /\ put_step = from /\ put_step' = to
  /\ UNCHANGED <<putting, attempt, put_result, getVars>>

(* flock(LOCK_EX) waits for a reader that holds the lock.                  *)
ReaderHolds(r) == getting = r /\ get_step \in {"locked", "copied", "unlinked"}
OpenLock ==
  /\ Putting("attempt", "locked")
  /\ ~ReaderHolds(putting)
  /\ lock_file' = [lock_file EXCEPT ![putting] = TRUE]
  /\ UNCHANGED segment

Writes(from, to, state) ==
  /\ Putting(from, to)
  /\ segment' = [segment EXCEPT ![putting] = state]
  /\ UNCHANGED lock_file

CreateSegment == Writes("locked", "created", "empty")
TruncateSegment == Writes("created", "sized", "sized")
WriteBytes == Writes("sized", "written", "written")

PutSucceeds ==
  /\ put_step = "written"
  /\ PutEnds("stored")
  /\ UNCHANGED <<segment, lock_file, getVars>>

(* Serializing, opening the lock file or creating the segment raises;      *)
(* SharedMemory unlinks a segment it could not finish.  After the last     *)
(* attempt the failure is logged, and acknowledged like a success.         *)
PutFails ==
  /\ put_step \in {"attempt", "locked", "created"}
  /\ segment' = [segment EXCEPT ![putting] = "none"]
  /\ IF attempt < MaxRetries
     THEN /\ attempt' = attempt + 1 /\ put_step' = "attempt"
          /\ UNCHANGED <<putting, put_result>>
     ELSE PutEnds("failed")
  /\ UNCHANGED <<lock_file, getVars>>

-----------------------------------------------------------------------------
(* The receiving stage.                                                    *)

ReceiveKVCache(r) ==
  /\ get_step = "idle" /\ received[r] = "no"
  /\ getting' = r /\ get_step' = "polling" /\ tries' = 0
  /\ UNCHANGED <<data_bytes, received, segment, lock_file, putVars>>

ReceiveEnds(result) ==
  /\ received' = [received EXCEPT ![getting] = result]
  /\ getting' = NoRequest /\ get_step' = "idle" /\ tries' = 0 /\ data_bytes' = "none"

Getting(from, to) ==
  /\ get_step = from /\ get_step' = to
  /\ UNCHANGED <<getting, received, putVars>>

(* Faulty: a get that finds nothing removes the lock file.                 *)
MissAndCleanUp ==
  /\ Getting("polling", "missed")
  /\ segment[getting] = "none"
  /\ lock_file' = [lock_file EXCEPT ![getting] = FALSE]
  /\ tries' = tries + 1
  /\ UNCHANGED <<data_bytes, segment>>

(* All 30 attempts to open the segment fail.                               *)
Miss ==
  /\ Getting("polling", "missed")
  /\ segment[getting] = "none"
  /\ tries' = tries + 1
  /\ UNCHANGED <<data_bytes, segment, lock_file>>

(* Faulty: the deadline is checked whatever the get returned.              *)
TimeoutAnyTime ==
  /\ get_step \in {"polling", "missed"}
  /\ ReceiveEnds("timeout")
  /\ UNCHANGED <<segment, lock_file, putVars>>

(* The deadline has passed; it is looked at only after a miss.             *)
Timeout ==
  /\ get_step = "missed"
  /\ ReceiveEnds("timeout")
  /\ UNCHANGED <<segment, lock_file, putVars>>

PollAgain ==
  /\ tries < MaxTries
  /\ Getting("missed", "polling")
  /\ UNCHANGED <<tries, data_bytes, segment, lock_file>>

(* Opening a segment that has no size yet raises ValueError, which is not  *)
(* the exception that is retried, and the manager gives up.                *)
OpenSegment ==
  /\ get_step = "polling" /\ segment[getting] # "none"
  /\ IF segment[getting] = "empty" THEN ReceiveEnds("error")
     ELSE /\ get_step' = "opened"
          /\ UNCHANGED <<getting, tries, data_bytes, received>>
  /\ UNCHANGED <<segment, lock_file, putVars>>

(* The lock file is opened, not created: without one the get raises.       *)
OpenLockFile ==
  /\ get_step = "opened"
  /\ IF ~lock_file[getting] THEN ReceiveEnds("error")
     ELSE /\ get_step' = "waiting"
          /\ UNCHANGED <<getting, tries, data_bytes, received>>
  /\ UNCHANGED <<segment, lock_file, putVars>>

(* Faulty: the writer does not lock.                                       *)
WriterHoldsNothing(r) == FALSE

WriterHolds(r) == putting = r /\ put_step \in {"locked", "created", "sized", "written"}

LockShared ==
  /\ Getting("waiting", "locked")
  /\ ~WriterHolds(getting)
  /\ UNCHANGED <<tries, data_bytes, segment, lock_file>>

(* shm_read_bytes opens the segment by its name once more, copies it and   *)
(* unlinks it.                                                             *)
ReadBytes ==
  /\ Getting("locked", "copied")
  /\ data_bytes' = segment[getting]
  /\ UNCHANGED <<tries, segment, lock_file>>

Unlink ==
  /\ Getting("copied", "unlinked")
  /\ segment' = [segment EXCEPT ![getting] = "none"]
  /\ UNCHANGED <<tries, data_bytes, lock_file>>

RemoveLockFile ==
  /\ get_step = "unlinked"
  /\ lock_file' = [lock_file EXCEPT ![getting] = FALSE]
  /\ ReceiveEnds(IF data_bytes = "written" THEN "kv" ELSE "torn")
  /\ UNCHANGED <<segment, putVars>>

-----------------------------------------------------------------------------
Send ==
  \/ OpenLock \/ CreateSegment \/ TruncateSegment \/ WriteBytes
  \/ PutSucceeds \/ PutFails
Receive ==
  \/ Miss \/ Timeout \/ PollAgain \/ OpenSegment \/ OpenLockFile
  \/ LockShared \/ ReadBytes \/ Unlink \/ RemoveLockFile

ShmNext ==
  \/ Send \/ Receive
  \/ \E r \in KVRequests : TransferKVCache(r) \/ ReceiveKVCache(r)

ShmSafety == ShmInit /\ [][ShmNext]_shmVars

(* Both managers go on with what they have begun.                          *)
ShmSpec == ShmSafety /\ WF_shmVars(Send) /\ WF_shmVars(Receive)

-----------------------------------------------------------------------------
PutSteps == {"attempt", "locked", "created", "sized", "written"}
GetSteps == {"polling", "missed", "opened", "waiting", "locked", "copied", "unlinked"}
SegmentStates == {"none", "empty", "sized", "written"}

(* The type of the state; a side is at a step exactly while it has a       *)
(* request.                                                                *)
ShmTypeOK ==
  /\ \/ putting = NoRequest /\ put_step = "idle" /\ attempt = 0
     \/ putting \in KVRequests /\ put_step \in PutSteps /\ attempt \in 1..MaxRetries
  /\ put_result \in [KVRequests -> {"no", "stored", "failed"}]
  /\ segment \in [KVRequests -> SegmentStates]
  /\ lock_file \in [KVRequests -> BOOLEAN]
  /\ \/ getting = NoRequest /\ get_step = "idle" /\ tries = 0 /\ data_bytes = "none"
     \/ getting \in KVRequests /\ get_step \in GetSteps /\ tries \in 0..MaxTries
  /\ data_bytes \in SegmentStates
  /\ received \in [KVRequests -> {"no", "kv", "torn", "timeout", "error"}]

(* Nobody receives a part of a KV cache, although a segment can be opened  *)
(* before its bytes are there (stage_utils.py:150): the lock the writer    *)
(* took before it created the segment holds the reader until it is whole.  *)
ReceivedIsWhole ==
  /\ \A r \in KVRequests : received[r] # "torn"
  /\ get_step \in {"copied", "unlinked"} => data_bytes = "written"

(* Whoever finds a segment finds its lock file (shm_connector.py:133), and *)
(* what was received is gone, segment and lock file, for good: no retry    *)
(* brings it back.                                                         *)
KeysAreClean ==
  \A r \in KVRequests :
    /\ segment[r] # "none" => lock_file[r]
    /\ received[r] = "kv" => put_result[r] = "stored" /\ segment[r] = "none" /\ ~lock_file[r]

(* A receive ends, whether or not anything was put, since it holds up all  *)
(* the requests behind it (diffusion_model_runner.py:175); and what is     *)
(* stored when the receiver looks again is received, at the last moment    *)
(* before the deadline, too.                                               *)
ReceivesEnd ==
  \A r \in KVRequests :
    /\ getting = r ~> received[r] # "no"
    /\ (put_result[r] = "stored" /\ getting = r /\ get_step = "polling") ~> received[r] = "kv"
=============================================================================
