--------------------------- MODULE ToolsLifecycle ---------------------------
(***************************************************************************)
(* Module load and unload of the tools layer: uvm_tools_init and           *)
(* uvm_tools_exit in uvm_tools.c.  Init creates six slab caches in turn,   *)
(* starts the g_tools_queue worker thread and creates the                  *)
(* /dev/nvidia-uvm-tools special file; each step may fail and jumps to the *)
(* error label that undoes what came before.  Exit stops the worker and    *)
(* destroys the caches.  Both run once, on one thread.                     *)
(***************************************************************************)
EXTENDS Integers

CONSTANTS
  NumCaches,     \* the kmem caches created by uvm_tools_init
  QInitResults   \* values nv_kthread_q_init may return: 0 or a -errno

ASSUME /\ NumCaches \in Nat \ {0}
       /\ 0 \in QInitResults
       /\ \A r \in QInitResults : r <= 0

ENOMEM == 12

VARIABLES
  pc,       \* where uvm_tools_init / uvm_tools_exit is
  caches,   \* number of the g_tools_*_cache pointers that are non-NULL
  queue,    \* g_tools_queue: "none", "running" or "stopped"
  qStops,   \* nv_kthread_q_stop calls made on g_tools_queue
  devFile,  \* /dev/nvidia-uvm-tools exists
  ret       \* the local ret of uvm_tools_init

vars == <<pc, caches, queue, qStops, devFile, ret>>

(* uvm_tools_init's return: the loader keeps the module only on 0.         *)
Returned(r) == pc' = IF r = 0 THEN "loaded" ELSE "failed"

(* err_cache_destroy: _uvm_tools_destroy_cache_all destroys every          *)
(* non-NULL cache and sets its pointer to NULL.                            *)
DestroyCacheAll == caches' = 0

(* err_stop_thread: nv_kthread_q_stop, then the cache cleanup.             *)
StopQueue ==
  /\ queue' = "stopped"
  /\ qStops' = qStops + 1

-----------------------------------------------------------------------------
Init ==
  /\ pc = "caches"
  /\ caches = 0
  /\ queue = "none"
  /\ qStops = 0
  /\ devFile = FALSE
  /\ ret = -ENOMEM

(* NV_KMEM_CACHE_CREATE of the next cache; a NULL result goes to           *)
(* err_cache_destroy with ret still -ENOMEM.                               *)
CreateCache ==
  /\ pc = "caches"
  /\ caches < NumCaches
  /\ \/ /\ caches' = caches + 1
        /\ UNCHANGED pc
     \/ /\ DestroyCacheAll
        /\ Returned(ret)
  /\ UNCHANGED <<queue, qStops, devFile, ret>>

(* ret = nv_kthread_q_init(&g_tools_queue, ...); a negative result goes to *)
(* err_cache_destroy and is returned.                                      *)
QueueInit ==
  /\ pc = "caches"
  /\ caches = NumCaches
  /\ \E r \in QInitResults :
       /\ ret' = r
       /\ IF r < 0
            THEN /\ DestroyCacheAll
                 /\ Returned(r)
                 /\ UNCHANGED queue
            ELSE /\ queue' = "running"
                 /\ pc' = "file"
                 /\ UNCHANGED caches
  /\ UNCHANGED <<qStops, devFile>>

(* create_special_file; on failure goto err_stop_thread, which falls       *)
(* through to err_cache_destroy and returns ret.  Either way ret is what   *)
(* nv_kthread_q_init left in it.                                           *)
CreateSpecialFile ==
  /\ pc = "file"
  /\ \/ /\ devFile' = TRUE
        /\ UNCHANGED <<caches, queue, qStops>>
     \/ /\ StopQueue
        /\ DestroyCacheAll
        /\ UNCHANGED devFile
  /\ Returned(ret)
  /\ UNCHANGED ret

(* uvm_tools_exit, run at unload of a module whose init returned 0.  The   *)
(* asserts on g_tools_enabled_event_count and g_tools_va_space_list are    *)
(* about the subscription registry, which is idle at unload.              *)
Exit ==
  /\ pc = "loaded"
  /\ StopQueue
  /\ DestroyCacheAll
  /\ pc' = "unloaded"
  /\ UNCHANGED <<devFile, ret>>

Next == CreateCache \/ QueueInit \/ CreateSpecialFile \/ Exit

Spec == Init /\ [][Next]_vars

-----------------------------------------------------------------------------
TypeOK ==
  /\ pc \in {"caches", "file", "loaded", "failed", "unloaded"}
  /\ caches \in 0 .. NumCaches
  /\ queue \in {"none", "running", "stopped"}
  /\ qStops \in Nat
  /\ devFile \in BOOLEAN
  /\ ret \in QInitResults \cup {-ENOMEM}

(* Init reports success only when it has set everything up: when          *)
(* uvm_tools_init returns 0, every cache exists, g_tools_queue is running  *)
(* and the tools device file has been created, so that the loaded module   *)
(* can serve opens and a later uvm_tools_exit stops a running queue.       *)
InitSuccessMeansReady ==
  pc = "loaded" => /\ caches = NumCaches
                   /\ queue = "running"
                   /\ devFile

=============================================================================
