------------------------------- MODULE Lifecycle -------------------------------
(***************************************************************************)
(* The kernel module is loaded and removed (lkm/sb_lkm.c, smoke_bomb_init  *)
(* and smoke_bomb_exit) while threads write commands to its proc file:     *)
(* INIT and EXIT of a section, PRIME and PROBE, which walk the buffers     *)
(* that the module allocates and frees.                                    *)
(***************************************************************************)
EXTENDS Integers

CONSTANTS Threads,   \* each with a row of its own
          Ways       \* of the L1 cache: 0 .. n

VARIABLES loader,           \* the next step of insmod or rmmod
          proc,             \* does the proc file exist?
          hook,             \* is the handler of LDRFLUSH registered?
          resolved,         \* has kallsyms_lookup_name found all functions?
          l1_ways,
          prime_probe_arr,  \* way -> NULL, allocated, failed or freed
          sdata_region,     \* thread -> is its row registered?
          cmd, i,           \* thread -> its command and loop counter
          early,            \* thread -> has its command begun before
                            \* smoke_bomb_init returned?
          granted           \* thread -> has it opened a section since then?

module == <<loader, proc, hook, resolved, l1_ways, prime_probe_arr>>
threads == <<cmd, i, early, granted>>
vars == <<module, sdata_region, threads>>

(* Module data are zero whenever the module is loaded.                     *)
Init == /\ loader = "absent" /\ proc = FALSE /\ hook = FALSE /\ resolved = FALSE
        /\ l1_ways = 0 /\ prime_probe_arr = [w \in Ways |-> "NULL"]
        /\ sdata_region = [t \in Threads |-> FALSE]
        /\ cmd = [t \in Threads |-> "user"] /\ i = [t \in Threads |-> 0]
        /\ early = [t \in Threads |-> FALSE] /\ granted = [t \in Threads |-> FALSE]

Step(from, to) == loader = from /\ loader' = to

-----------------------------------------------------------------------------
(* smoke_bomb_init                                                         *)

ProcCreate == /\ Step("absent", "fix")
              /\ proc' = TRUE
              /\ UNCHANGED <<hook, resolved, l1_ways, prime_probe_arr, sdata_region, threads>>

(* The result is only printed.                                             *)
FixUnresolved == /\ Step("fix", "register")
                 /\ resolved' \in BOOLEAN
                 /\ UNCHANGED <<proc, hook, l1_ways, prime_probe_arr, sdata_region, threads>>

(* A function that was not found is a null pointer: if it is               *)
(* register_undef_hook, insmod dies in the kernel and the proc file stays. *)
RegisterExHandler ==
    /\ \/ Step("register", "info") /\ hook' = TRUE
       \/ ~resolved /\ Step("register", "dead") /\ UNCHANGED hook
    /\ UNCHANGED <<proc, resolved, l1_ways, prime_probe_arr, sdata_region, threads>>

SetCacheInfo == /\ Step("info", "alloc")
                /\ \E n \in Ways : l1_ways' = n + 1 /\ n + 1 \notin Ways
                /\ UNCHANGED <<proc, hook, resolved, prime_probe_arr, sdata_region, threads>>

(* The cache of buffers or any of them may not be had.                     *)
InitPrimeProbeArr ==
    /\ loader = "alloc"
    /\ \/ /\ prime_probe_arr[0] = "NULL"
          /\ prime_probe_arr' = [w \in Ways |-> "failed"]
          /\ loader' = "memset"
       \/ \E w \in Ways :
             /\ prime_probe_arr[w] = "NULL"
             /\ \A v \in 0 .. (w - 1) : prime_probe_arr[v] # "NULL"
             /\ \E p \in {"allocated", "failed"} :
                   prime_probe_arr' = [prime_probe_arr EXCEPT ![w] = p]
             /\ loader' = IF w + 1 = l1_ways THEN "memset" ELSE "alloc"
    /\ UNCHANGED <<proc, hook, resolved, l1_ways, sdata_region, threads>>

(* The end of smoke_bomb_init.                                             *)
InitAllSdataArr == /\ Step("memset", "live")
                   /\ sdata_region' = [t \in Threads |-> FALSE]
                   /\ UNCHANGED <<proc, hook, resolved, l1_ways, prime_probe_arr, threads>>

-----------------------------------------------------------------------------
(* smoke_bomb_exit                                                         *)

(* Mutant: the proc file goes with the module.                             *)
RemoveProcLast == /\ Step("live", "unregister")
                  /\ UNCHANGED <<proc, hook, resolved, l1_ways, prime_probe_arr,
                                 sdata_region, threads>>

(* remove_proc_entry: no command begins any more ...                       *)
RemoveProc == /\ Step("live", "rundown")
              /\ proc' = FALSE
              /\ UNCHANGED <<hook, resolved, l1_ways, prime_probe_arr, sdata_region, threads>>

(* ... and those in progress are waited for.                               *)
Rundown == /\ Step("rundown", "unregister")
           /\ \A t \in Threads : cmd[t] = "user"
           /\ UNCHANGED <<proc, hook, resolved, l1_ways, prime_probe_arr, sdata_region, threads>>

UnregisterExHandler ==
    /\ Step("unregister", "free")
    /\ hook' = FALSE
    /\ UNCHANGED <<proc, resolved, l1_ways, prime_probe_arr, sdata_region, threads>>

FinalizePrimeProbeArr ==
    /\ loader = "free"
    /\ \E w \in Ways :
          /\ prime_probe_arr[w] # "freed" /\ \A v \in 0 .. (w - 1) : prime_probe_arr[v] = "freed"
          /\ prime_probe_arr' = [prime_probe_arr EXCEPT ![w] = "freed"]
          /\ loader' = IF w + 1 = l1_ways THEN "unload" ELSE "free"
    /\ UNCHANGED <<proc, hook, resolved, l1_ways, sdata_region, threads>>

(* The module's data go with it, a section left open is not one any more.  *)
Unload == /\ Step("unload", "absent")
          /\ proc' = FALSE /\ hook' = FALSE /\ resolved' = FALSE /\ l1_ways' = 0
          /\ prime_probe_arr' = [w \in Ways |-> "NULL"]
          /\ sdata_region' = [t \in Threads |-> FALSE]
          /\ granted' = [t \in Threads |-> FALSE]
          /\ UNCHANGED <<cmd, i, early>>

-----------------------------------------------------------------------------
(* smoke_bomb_write                                                        *)

Write(t, c) ==
    /\ proc /\ cmd[t] = "user"
    /\ cmd' = [cmd EXCEPT ![t] = c] /\ i' = [i EXCEPT ![t] = 0]
    /\ early' = [early EXCEPT ![t] = loader # "live"]
    /\ granted' = [granted EXCEPT ![t] = @ /\ c # "EXIT"]
    /\ UNCHANGED <<module, sdata_region>>

(* Refused if the row is registered.                                       *)
CmdInit(t) == /\ cmd[t] = "INIT"
              /\ granted' = [granted EXCEPT ![t] = @ \/ (~early[t] /\ ~sdata_region[t])]
              /\ sdata_region' = [sdata_region EXCEPT ![t] = TRUE]
              /\ cmd' = [cmd EXCEPT ![t] = "user"]
              /\ UNCHANGED <<module, i, early>>

CmdExit(t) == /\ cmd[t] = "EXIT"
              /\ sdata_region' = [sdata_region EXCEPT ![t] = FALSE]
              /\ cmd' = [cmd EXCEPT ![t] = "user"]
              /\ UNCHANGED <<module, i, early, granted>>

(* One turn of the loop of PRIME and of PROBE.                             *)
PrimeWay(t) == /\ cmd[t] = "PRIME" /\ i[t] < l1_ways
               /\ i' = [i EXCEPT ![t] = @ + 1]
               /\ UNCHANGED <<module, sdata_region, cmd, early, granted>>

PrimeReturn(t) == /\ cmd[t] = "PRIME" /\ i[t] >= l1_ways
                  /\ cmd' = [cmd EXCEPT ![t] = "user"]
                  /\ UNCHANGED <<module, sdata_region, i, early, granted>>

Next == \/ ProcCreate \/ FixUnresolved \/ RegisterExHandler \/ SetCacheInfo
        \/ InitPrimeProbeArr \/ InitAllSdataArr
        \/ RemoveProc \/ Rundown \/ UnregisterExHandler \/ FinalizePrimeProbeArr \/ Unload
        \/ \E t \in Threads :
              \/ \E c \in {"INIT", "EXIT", "PRIME"} : Write(t, c)
              \/ CmdInit(t) \/ CmdExit(t) \/ PrimeWay(t) \/ PrimeReturn(t)

Spec == Init /\ [][Next]_vars

-----------------------------------------------------------------------------
(* Properties.                                                             *)

(* A command that begins when smoke_bomb_init has returned runs under the  *)
(* handler of LDRFLUSH and on buffers that are there (null only where      *)
(* kmem_cache_alloc failed), also while the module is being removed; and a *)
(* section it opens stays registered until the program closes it or the    *)
(* module goes (sb_lkm.c:379-403).                                         *)
CommandsServed ==
    \A t \in Threads :
        /\ cmd[t] # "user" /\ ~early[t] => hook
        /\ cmd[t] = "PRIME" /\ ~early[t] /\ i[t] < l1_ways =>
              prime_probe_arr[i[t]] \in {"allocated", "failed"}
        /\ granted[t] => sdata_region[t]
=============================================================================
