------------------------- MODULE ProcessMemoryAccess -------------------------
(* The tools ioctls that act on the VA space's GPUs: the process-memory    *)
(* read and write of tools_access_process_memory, and the processor UUID  *)
(* table.  An access copies one page-bounded chunk per loop iteration     *)
(* under the VA space lock (RM flavour, read mode).  Before the chunk it  *)
(* maps its staging page on every GPU of the VA space, retaining each GPU *)
(* once, so that the staging memory is freed before any GPU it is mapped  *)
(* on goes away.  Between iterations, and between freeing the staging     *)
(* page and releasing the GPUs, the lock is free: GPUs may then be added  *)
(* to or removed from the VA space, which needs the lock for write.       *)
(* A GPU object lives while its reference count is positive: one          *)
(* reference for the VA space registration, one per retaining access.     *)
(* Read and write differ only in the direction of the byte copies, which  *)
(* touch no state modelled here, so they are one operation.               *)
EXTENDS Naturals, FiniteSets

CONSTANTS
  Accessors,   \* threads issuing tools ioctls on the VA space
  Gpus,        \* GPU ids (uvm_id_value), a set of positive integers
  PAGE_SIZE,   \* bytes per page, small
  MaxSize,     \* bound: largest size argument of one access
  MaxCalls     \* bound: ioctls issued by one thread

ASSUME Gpus \subseteq Nat \ {0} /\ PAGE_SIZE \in Nat \ {0}

VARIABLES
  vaGpus,      \* GPUs registered in the VA space
  gpuRef,      \* per GPU: its reference count; 0 means the GPU is gone
  cc,          \* Confidential Computing mode, fixed when the driver loads
  held,        \* per thread: how many times it holds the VA space lock
  pc,          \* per thread: where it is in the ioctl
  status,      \* per thread: NV_OK or an error
  size, off,   \* per thread: the size argument and target_va's page offset
  bytes,       \* per thread: *bytes
  todo,        \* per thread: GPUs of global_gpus the loop has not visited
  retained,    \* per thread: retained_global_gpus
  mapped,      \* per thread: GPUs the staging page is mapped on
  calls,       \* per thread: ioctls issued
  uuidCount    \* per thread: params->count of its last UUID table ioctl

vars == <<vaGpus, gpuRef, cc, held, pc, status, size, off, bytes, todo,
          retained, mapped, calls, uuidCount>>

Pcs == {"idle", "loop", "gpus", "unlock_and_exit", "exit", "release"}

MinGpu(S) == CHOOSE g \in S : \A h \in S : g <= h
MaxOf(S)  == CHOOSE n \in S : \A m \in S : m <= n

-----------------------------------------------------------------------------
(* The outcome of tools_access_va_block: the read or write of the block   *)
(* under UVM_VA_BLOCK_LOCK_RETRY either completes or fails.               *)
tools_access_va_block == {"ok", "failed"}

(* Entry of uvm_api_tools_read/write_process_memory into                  *)
(* tools_access_process_memory: four allocations.  If the retained mask   *)
(* cannot be allocated the call returns at once; a later failure jumps to *)
(* exit; otherwise *bytes = 0 and the copy loop starts.                   *)
Setup(a, n, o) ==
  /\ pc[a] = "idle" /\ calls[a] < MaxCalls
  /\ size' = [size EXCEPT ![a] = n]
  /\ off' = [off EXCEPT ![a] = o]
  /\ \/ /\ pc' = [pc EXCEPT ![a] = "idle"]
        /\ status' = [status EXCEPT ![a] = "err"]
        /\ calls' = [calls EXCEPT ![a] = @ + 1]
        /\ UNCHANGED bytes
     \/ /\ pc' = [pc EXCEPT ![a] = "exit"]
        /\ status' = [status EXCEPT ![a] = "err"]
        /\ UNCHANGED <<bytes, calls>>
     \/ /\ pc' = [pc EXCEPT ![a] = "loop"]
        /\ status' = [status EXCEPT ![a] = "ok"]
        /\ bytes' = [bytes EXCEPT ![a] = 0]
        /\ UNCHANGED calls
  /\ UNCHANGED <<vaGpus, gpuRef, cc, held, todo, retained, mapped, uuidCount>>

(* The two ioctl entry points, with their size and target_va arguments.  *)
ProcessMemoryCall(a) ==
  \E n \in 0 .. MaxSize, o \in 0 .. PAGE_SIZE - 1 : Setup(a, n, o)

(* Head of the copy loop: leave it with NV_OK when every byte is done;    *)
(* otherwise take the VA space lock, find or create the block (which may  *)
(* fail) and snapshot the VA space's GPUs into global_gpus.               *)
Loop(a) ==
  /\ pc[a] = "loop"
  /\ \/ /\ bytes[a] >= size[a]
        /\ pc' = [pc EXCEPT ![a] = "unlock_and_exit"]
        /\ UNCHANGED <<held, status, todo>>
     \/ /\ bytes[a] < size[a]
        /\ held' = [held EXCEPT ![a] = @ + 1]
        /\ \/ /\ pc' = [pc EXCEPT ![a] = "gpus"]
              /\ todo' = [todo EXCEPT ![a] = vaGpus]
              /\ UNCHANGED status
           \/ /\ pc' = [pc EXCEPT ![a] = "unlock_and_exit"]
              /\ status' = [status EXCEPT ![a] = "err"]
              /\ UNCHANGED todo
  /\ UNCHANGED <<vaGpus, gpuRef, cc, size, off, bytes, retained, mapped,
                 calls, uuidCount>>

(* Mutant: the GPU loop maps the staging page without retaining the GPU. *)
RetainAndMapNoRetain(a) ==
  /\ pc[a] = "gpus" /\ todo[a] /= {}
  /\ LET g == MinGpu(todo[a]) IN
     \/ /\ cc
        /\ todo' = [todo EXCEPT ![a] = {}]
        /\ UNCHANGED <<pc, status, mapped>>
     \/ /\ ~cc
        /\ \/ /\ mapped' = [mapped EXCEPT ![a] = @ \cup {g}]
              /\ todo' = [todo EXCEPT ![a] = @ \ {g}]
              /\ UNCHANGED <<pc, status>>
           \/ /\ pc' = [pc EXCEPT ![a] = "unlock_and_exit"]
              /\ status' = [status EXCEPT ![a] = "err"]
              /\ UNCHANGED <<todo, mapped>>
  /\ UNCHANGED <<vaGpus, gpuRef, retained, cc, held, size, off, bytes, calls, uuidCount>>

(* Mutant: no test_and_set, so a GPU is retained again on every page.    *)
RetainAndMapEveryPage(a) ==
  /\ pc[a] = "gpus" /\ todo[a] /= {}
  /\ LET g == MinGpu(todo[a]) IN
     \/ /\ cc
        /\ todo' = [todo EXCEPT ![a] = {}]
        /\ UNCHANGED <<pc, status, gpuRef, retained, mapped>>
     \/ /\ ~cc
        /\ retained' = [retained EXCEPT ![a] = @ \cup {g}]
        /\ gpuRef' = [gpuRef EXCEPT ![g] = @ + 1]
        /\ mapped' = [mapped EXCEPT ![a] = @ \cup {g}]
        /\ todo' = [todo EXCEPT ![a] = @ \ {g}]
        /\ UNCHANGED <<pc, status>>
  /\ UNCHANGED <<vaGpus, cc, held, size, off, bytes, calls, uuidCount>>

(* One iteration of for_each_global_gpu_in_mask, in id order: under       *)
(* Confidential Computing break out; skip a GPU already retained;         *)
(* otherwise retain it and map the staging page on it, which may fail.    *)
RetainAndMap(a) ==
  /\ pc[a] = "gpus" /\ todo[a] /= {}
  /\ LET g == MinGpu(todo[a]) IN
     \/ /\ cc
        /\ todo' = [todo EXCEPT ![a] = {}]
        /\ UNCHANGED <<pc, status, gpuRef, retained, mapped>>
     \/ /\ ~cc /\ g \in retained[a]
        /\ todo' = [todo EXCEPT ![a] = @ \ {g}]
        /\ UNCHANGED <<pc, status, gpuRef, retained, mapped>>
     \/ /\ ~cc /\ g \notin retained[a]
        /\ retained' = [retained EXCEPT ![a] = @ \cup {g}]
        /\ gpuRef' = [gpuRef EXCEPT ![g] = @ + 1]
        /\ \/ /\ mapped' = [mapped EXCEPT ![a] = @ \cup {g}]
              /\ todo' = [todo EXCEPT ![a] = @ \ {g}]
              /\ UNCHANGED <<pc, status>>
           \/ /\ pc' = [pc EXCEPT ![a] = "unlock_and_exit"]
              /\ status' = [status EXCEPT ![a] = "err"]
              /\ UNCHANGED <<todo, mapped>>
  /\ UNCHANGED <<vaGpus, cc, held, size, off, bytes, calls, uuidCount>>

(* Bytes of this iteration: up to the end of the target's page.           *)
BytesNow(a) ==
  LET left == size[a] - bytes[a]
      room == PAGE_SIZE - ((off[a] + bytes[a]) % PAGE_SIZE)
  IN  IF left < room THEN left ELSE room

(* Mutant: a failed HMM residency update jumps to exit, past the unlock.  *)
AccessBlockHmmToExit(a) ==
  /\ pc[a] = "gpus" /\ todo[a] = {}
  /\ \E hmmFails \in BOOLEAN :
       IF hmmFails
         THEN /\ pc' = [pc EXCEPT ![a] = "exit"]
              /\ status' = [status EXCEPT ![a] = "err"]
              /\ UNCHANGED <<held, bytes>>
         ELSE /\ held' = [held EXCEPT ![a] = @ - 1]
              /\ bytes' = [bytes EXCEPT ![a] = @ + BytesNow(a)]
              /\ pc' = [pc EXCEPT ![a] = "loop"]
              /\ UNCHANGED status
  /\ UNCHANGED <<vaGpus, gpuRef, cc, size, off, todo, retained, mapped,
                 calls, uuidCount>>

(* The rest of the iteration: the HMM residency update (may fail, still   *)
(* locked), the block access and the ECC check, the unlock, and on        *)
(* success the copy-out and *bytes += bytes_now.                          *)
AccessBlock(a) ==
  /\ pc[a] = "gpus" /\ todo[a] = {}
  /\ \E hmmFails \in BOOLEAN, r \in tools_access_va_block, eccOk \in BOOLEAN :
       IF hmmFails
         THEN /\ pc' = [pc EXCEPT ![a] = "unlock_and_exit"]
              /\ status' = [status EXCEPT ![a] = "err"]
              /\ UNCHANGED <<held, bytes>>
         ELSE /\ held' = [held EXCEPT ![a] = @ - 1]
              /\ IF r = "ok" /\ eccOk
                   THEN /\ bytes' = [bytes EXCEPT ![a] = @ + BytesNow(a)]
                        /\ pc' = [pc EXCEPT ![a] = "loop"]
                        /\ UNCHANGED status
                   ELSE /\ pc' = [pc EXCEPT ![a] = "exit"]
                        /\ status' = [status EXCEPT ![a] = "err"]
                        /\ UNCHANGED bytes
  /\ UNCHANGED <<vaGpus, gpuRef, cc, size, off, todo, retained, mapped,
                 calls, uuidCount>>

(* Mutant: unlock_and_exit drops the lock whatever the status.           *)
UnlockAndExitAlways(a) ==
  /\ pc[a] = "unlock_and_exit"
  /\ held' = [held EXCEPT ![a] = @ - 1]
  /\ pc' = [pc EXCEPT ![a] = "exit"]
  /\ UNCHANGED <<vaGpus, gpuRef, cc, status, size, off, bytes, todo,
                 retained, mapped, calls, uuidCount>>

(* unlock_and_exit: the lock is still held exactly when status is an      *)
(* error, since the loop only ends normally after an up_read.             *)
UnlockAndExit(a) ==
  /\ pc[a] = "unlock_and_exit"
  /\ IF status[a] /= "ok"
       THEN held' = [held EXCEPT ![a] = @ - 1]
       ELSE UNCHANGED held
  /\ pc' = [pc EXCEPT ![a] = "exit"]
  /\ UNCHANGED <<vaGpus, gpuRef, cc, status, size, off, bytes, todo,
                 retained, mapped, calls, uuidCount>>

(* exit: free the block context and the staging memory, which unmaps it   *)
(* from every GPU.                                                         *)
FreeStage(a) ==
  /\ pc[a] = "exit"
  /\ mapped' = [mapped EXCEPT ![a] = {}]
  /\ pc' = [pc EXCEPT ![a] = "release"]
  /\ UNCHANGED <<vaGpus, gpuRef, cc, held, status, size, off, bytes, todo,
                 retained, calls, uuidCount>>

(* uvm_global_mask_release: drop the reference of every retained GPU,     *)
(* free the masks and return.                                              *)
ReleaseRetained(a) ==
  /\ pc[a] = "release"
  /\ gpuRef' = [g \in Gpus |-> IF g \in retained[a] THEN gpuRef[g] - 1 ELSE gpuRef[g]]
  /\ retained' = [retained EXCEPT ![a] = {}]
  /\ pc' = [pc EXCEPT ![a] = "idle"]
  /\ calls' = [calls EXCEPT ![a] = @ + 1]
  /\ UNCHANGED <<vaGpus, cc, held, status, size, off, bytes, todo, mapped,
                 uuidCount>>

(* uvm_api_tools_get_processor_uuid_table: under the VA space lock, fill  *)
(* the CPU's entry and one per GPU of the VA space; count is one past the *)
(* highest id filled.  The allocation of the table may fail.              *)
GetProcessorUuidTable(a) ==
  /\ pc[a] = "idle" /\ calls[a] < MaxCalls
  /\ \/ /\ uuidCount' = [uuidCount EXCEPT ![a] = MaxOf({0} \cup vaGpus) + 1]
        /\ status' = [status EXCEPT ![a] = "ok"]
     \/ /\ status' = [status EXCEPT ![a] = "err"]
        /\ UNCHANGED uuidCount
  /\ calls' = [calls EXCEPT ![a] = @ + 1]
  /\ UNCHANGED <<vaGpus, gpuRef, cc, held, pc, size, off, bytes, todo,
                 retained, mapped>>

-----------------------------------------------------------------------------
(* Environment: a GPU is registered in or unregistered from the VA space, *)
(* under the VA space lock for write, so only while no thread holds it.   *)
(* Registering a GPU that is gone brings up a new GPU object.             *)
NoReaders == \A a \in Accessors : held[a] = 0

RegisterGpu(g) ==
  /\ NoReaders /\ g \notin vaGpus
  /\ vaGpus' = vaGpus \cup {g}
  /\ gpuRef' = [gpuRef EXCEPT ![g] = @ + 1]
  /\ UNCHANGED <<cc, held, pc, status, size, off, bytes, todo, retained,
                 mapped, calls, uuidCount>>

UnregisterGpu(g) ==
  /\ NoReaders /\ g \in vaGpus
  /\ vaGpus' = vaGpus \ {g}
  /\ gpuRef' = [gpuRef EXCEPT ![g] = @ - 1]
  /\ UNCHANGED <<cc, held, pc, status, size, off, bytes, todo, retained,
                 mapped, calls, uuidCount>>

-----------------------------------------------------------------------------
Init ==
  /\ vaGpus \in SUBSET Gpus
  /\ gpuRef = [g \in Gpus |-> IF g \in vaGpus THEN 1 ELSE 0]
  /\ cc \in BOOLEAN
  /\ held = [a \in Accessors |-> 0]
  /\ pc = [a \in Accessors |-> "idle"]
  /\ status = [a \in Accessors |-> "ok"]
  /\ size = [a \in Accessors |-> 0]
  /\ off = [a \in Accessors |-> 0]
  /\ bytes = [a \in Accessors |-> 0]
  /\ todo = [a \in Accessors |-> {}]
  /\ retained = [a \in Accessors |-> {}]
  /\ mapped = [a \in Accessors |-> {}]
  /\ calls = [a \in Accessors |-> 0]
  /\ uuidCount = [a \in Accessors |-> 0]

Next ==
  \/ \E a \in Accessors :
       \/ ProcessMemoryCall(a) \/ Loop(a) \/ RetainAndMap(a) \/ AccessBlock(a)
       \/ UnlockAndExit(a) \/ FreeStage(a) \/ ReleaseRetained(a)
       \/ GetProcessorUuidTable(a)
  \/ \E g \in Gpus : RegisterGpu(g) \/ UnregisterGpu(g)

Spec == Init /\ [][Next]_vars

-----------------------------------------------------------------------------
TypeOK ==
  /\ vaGpus \subseteq Gpus
  /\ gpuRef \in [Gpus -> Nat]
  /\ cc \in BOOLEAN
  /\ held \in [Accessors -> 0 .. 1]
  /\ pc \in [Accessors -> Pcs]
  /\ status \in [Accessors -> {"ok", "err"}]
  /\ bytes \in [Accessors -> 0 .. MaxSize]
  /\ todo \in [Accessors -> SUBSET Gpus]
  /\ retained \in [Accessors -> SUBSET Gpus]
  /\ mapped \in [Accessors -> SUBSET Gpus]
  /\ calls \in [Accessors -> 0 .. MaxCalls]

(* The promise of the comment at lines 1775-1777: a thread's staging page *)
(* is never mapped on a GPU that has gone away, across GPU removals from  *)
(* the VA space between loop iterations and between freeing the staging  *)
(* page and releasing the retained GPUs.                                  *)
StageOnLiveGpus ==
  \A a \in Accessors : \A g \in mapped[a] : gpuRef[g] > 0

(* Each GPU is retained once per access (the test_and_set at 1772), so a  *)
(* GPU's reference count is exactly its VA space registration plus the    *)
(* accesses that retain it, and uvm_global_mask_release drops them all.   *)
GpuRefsBalanced ==
  \A g \in Gpus :
    gpuRef[g] = (IF g \in vaGpus THEN 1 ELSE 0)
                + Cardinality({a \in Accessors : g \in retained[a]})

(* Every path out of the copy loop, through each of its five error exits *)
(* and the two labels they jump to, releases the VA space lock exactly    *)
(* once: no thread holds it once it has reached exit.                     *)
LockReleasedAtExit ==
  \A a \in Accessors : pc[a] \in {"exit", "release", "idle"} => held[a] = 0
=============================================================================
