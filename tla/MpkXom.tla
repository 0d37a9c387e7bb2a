------------------------------- MODULE MpkXom -------------------------------
(***************************************************************************)
(* libmpk_xom.so: the constructor mpk_xom_init, which makes the executable *)
(* segments of the program execute-only with a protection key, among what  *)
(* the rest of the process does meanwhile.                                 *)
(*                                                                         *)
(* The library is preloaded, so its constructor runs after those of the    *)
(* libraries the program needs: these may have allocated keys and started  *)
(* threads, and the threads run on while the constructor does.  PKRU, the  *)
(* register with the rights to each key, belongs to a thread; a new thread *)
(* inherits it.  One action is one system call or one pass of a loop.      *)
(***************************************************************************)
EXTENDS Naturals, Sequences

CONSTANTS
  Threads, Main,  \* the threads, and the one that runs the constructors
  NULL,
  PageSize,       \* sysconf (_SC_PAGESIZE)
  MaxPage,        \* bound: the pages are 0 .. MaxPage
  Keys,           \* protection keys besides 0, the key of every new page
  Programs,       \* program header tables of main programs
  Libraries,      \* program header tables of shared objects
  MaxObjs         \* bound: loaded objects

Pages == 0 .. MaxPage
Addrs == 0 .. (PageSize * (MaxPage + 1) - 1)

\* Access rights as in PKRU: access disable and write disable.
Rights == SUBSET {"AD", "WD"}

\* A program header: PT_LOAD or not, PF_R, PF_W, PF_X, and the address and
\* size in memory, dlpi_addr included.  A segment lies in the address space.
Phdr == {h \in [load: BOOLEAN, flags: SUBSET {"r", "w", "x"},
                lo: Addrs, memsz: Nat] :
           h.load => h.lo + h.memsz <= PageSize * (MaxPage + 1)}

ASSUME MpkConstantsOK ==
  /\ Main \in Threads
  /\ PageSize \in Nat \ {0}
  /\ MaxPage \in Nat
  /\ Keys \subseteq Nat \ {0}
  /\ NULL \notin Keys
  /\ Programs \subseteq Seq(Phdr)
  /\ Libraries \subseteq Seq(Phdr)

VARIABLES
  pc,        \* where mpk_xom_init is: "start", "alloc", "iterate", "check",
             \* "seal", then "main" (the program runs) or "exit"
  g_pkey, g_protect_all, g_protected_segments,
  obj, i     \* the object and the header protect_object looks at

VARIABLES
  objs,      \* the header tables of the loaded objects, the program first
  prot,      \* the permissions of a page
  key,       \* the protection key of a page
  live,      \* the threads that run
  pkru,      \* the PKRU of a thread, by key
  allocated, \* the allocated keys
  freed,     \* history: keys that were freed once
  listed     \* history: the objects dl_iterate_phdr finds

initVars == <<pc, g_pkey, g_protect_all, g_protected_segments, obj, i>>
procVars == <<objs, prot, key, live, pkru, allocated, freed, listed>>
vars     == <<initVars, procVars>>

----------------------------------------------------------------------------
(***************************************************************************)
(* The process and the kernel, outside the code.                           *)
(***************************************************************************)

\* The pages with a byte of the segment.
PagesOf(h) ==
  IF ~h.load THEN {}
  ELSE {a \div PageSize : a \in h.lo .. (h.lo + h.memsz - 1)}

Headers(h) == {h[m] : m \in DOMAIN h}

\* The pages of the loaded objects.
Occupied(os) ==
  UNION {PagesOf(h) : h \in UNION {Headers(os[n]) : n \in DOMAIN os}}

\* The loader gives every segment pages of its own.
Disjoint(h) ==
  \A m, n \in 1 .. Len(h) : m # n => PagesOf(h[m]) \cap PagesOf(h[n]) = {}

\* The loader maps the segments of h with their own permissions.
Mapped(pr, h) ==
  [p \in Pages |->
     IF \E m \in 1 .. Len(h) : p \in PagesOf(h[m])
     THEN h[CHOOSE m \in 1 .. Len(h) : p \in PagesOf(h[m])].flags
     ELSE pr[p]]

\* Linux starts a process with every key but 0 disabled.
InitialPkru == [k \in Keys |-> {"AD"}]

\* The hardware lets t read a mapped page by the rights to its key alone.
CanRead(t, p) ==
  /\ prot[p] # {}
  /\ key[p] = 0 \/ "AD" \notin pkru[t][key[p]]

\* The main thread is in a constructor of another library, or in the program;
\* the other threads run at any time.
Runs(t) ==
  /\ t \in live
  /\ pc # "exit"
  /\ t = Main => pc \in {"start", "main"}

\* t starts u.
Spawn(t, u) ==
  /\ Runs(t)
  /\ u \notin live
  /\ live' = live \cup {u}
  /\ pkru' = [pkru EXCEPT ![u] = pkru[t]]
  /\ UNCHANGED <<initVars, objs, prot, key, allocated, freed, listed>>

\* Another library allocates k and puts a page of its own under it.
LibAlloc(t, k, rights, p) ==
  /\ Runs(t)
  /\ k \in Keys \ allocated
  /\ p \notin Occupied(objs)
  /\ key[p] = 0
  /\ allocated' = allocated \cup {k}
  /\ pkru' = [pkru EXCEPT ![t][k] = rights]
  /\ key' = [key EXCEPT ![p] = k]
  /\ UNCHANGED <<initVars, objs, prot, live, freed, listed>>

\* It takes the page back and frees the key; no PKRU changes.
LibFree(t, k) ==
  /\ Runs(t)
  /\ k \in allocated \ {g_pkey}
  /\ allocated' = allocated \ {k}
  /\ freed' = freed \cup {k}
  /\ key' = [p \in Pages |-> IF key[p] = k THEN 0 ELSE key[p]]
  /\ UNCHANGED <<initVars, objs, prot, live, pkru, listed>>

\* dlopen; dl_iterate_phdr keeps it out while it calls back.
Load(t, h) ==
  /\ Runs(t)
  /\ pc # "iterate"
  /\ Len(objs) < MaxObjs
  /\ Disjoint(h)
  /\ \A m \in 1 .. Len(h) :
       /\ PagesOf(h[m]) \cap Occupied(objs) = {}
       /\ \A p \in PagesOf(h[m]) : key[p] = 0
  /\ objs' = Append(objs, h)
  /\ prot' = Mapped(prot, h)
  /\ UNCHANGED <<initVars, key, live, pkru, allocated, freed, listed>>

----------------------------------------------------------------------------
(***************************************************************************)
(* mpk_xom.c                                                               *)
(***************************************************************************)

\* _exit, with whatever status: no thread goes on.
Exit ==
  /\ pc' = "exit"
  /\ UNCHANGED <<g_protect_all, g_protected_segments, obj, i, objs, prot, key,
                 live, freed, listed>>

\* The environment variable is read and the page size asked for, which fails
\* or does not.
Start ==
  /\ pc = "start"
  /\ \/ Exit /\ UNCHANGED <<g_pkey, pkru, allocated>>
     \/ /\ pc' = "alloc"
        /\ g_protect_all' \in BOOLEAN
        /\ UNCHANGED <<g_pkey, g_protected_segments, obj, i, procVars>>

\* A fault: the result of pkey_alloc is not looked at.
PkeyAllocFails_Goes ==
  /\ pc' = "iterate"
  /\ listed' = objs
  /\ UNCHANGED <<g_pkey, g_protect_all, g_protected_segments, obj, i, objs,
                 prot, key, live, pkru, allocated, freed>>

\* There is no key left or no support for keys.
PkeyAllocFails == Exit /\ UNCHANGED <<g_pkey, pkru, allocated>>

\* x_pkey_alloc (0, 0): the kernel gives a free key and opens it for the
\* calling thread.
PkeyAlloc ==
  /\ pc = "alloc"
  /\ \/ PkeyAllocFails
     \/ \E k \in Keys \ allocated :
          /\ pc' = "iterate"
          /\ g_pkey' = k
          /\ allocated' = allocated \cup {k}
          /\ pkru' = [pkru EXCEPT ![Main][k] = {}]
          /\ obj' = 1
          /\ i' = 1
          /\ listed' = objs
          /\ UNCHANGED <<g_protect_all, g_protected_segments, objs, prot, key,
                         live, freed>>

\* protect_object: the object is the program, or all are asked for.
InScope(n) == n = 1 \/ g_protect_all

\* A fault: a segment without bytes is not skipped.
Selected_Empty(h) == h.load /\ "x" \in h.flags

\* ... and the segment is executable, is loaded and has bytes.
Selected(h) == h.load /\ "x" \in h.flags /\ h.memsz # 0

\* The pages from start to end: lo rounded down and hi rounded up to the page
\* size.
RangeOf(h) ==
  (h.lo \div PageSize) ..
    (((h.lo + h.memsz + PageSize - 1) \div PageSize) - 1)

\* A fault: PF_W is forgotten.
prot_from_phdr_ReadExec(h) == h.flags \ {"w"}

\* prot_from_phdr
prot_from_phdr(h) == h.flags

\* dl_iterate_phdr goes to the next object when protect_object returns, at
\* once if the object is not in scope.
NextObject ==
  /\ pc = "iterate"
  /\ obj <= Len(listed)
  /\ ~InScope(obj) \/ i > Len(listed[obj])
  /\ obj' = obj + 1
  /\ i' = 1
  /\ UNCHANGED <<pc, g_pkey, g_protect_all, g_protected_segments, procVars>>

\* A fault: `continue' without the increment.
NextHeader_Same(n) == n

\* The increment of the loop over the headers.
NextHeader(n) == n + 1

\* A header that is no executable segment with bytes is passed over.
SkipHeader ==
  /\ pc = "iterate"
  /\ obj <= Len(listed)
  /\ InScope(obj)
  /\ i <= Len(listed[obj])
  /\ ~Selected(listed[obj][i])
  /\ i' = NextHeader(i)
  /\ UNCHANGED <<pc, g_pkey, g_protect_all, g_protected_segments, obj,
                 procVars>>

\* A fault: a failing pkey_mprotect is only reported.
PkeyMprotectFails_Goes ==
  /\ i' = i + 1
  /\ g_protected_segments' = g_protected_segments + 1
  /\ UNCHANGED <<pc, g_pkey, g_protect_all, obj, procVars>>

\* pkey_mprotect fails: the process ends, the segments before stay protected.
PkeyMprotectFails == Exit /\ UNCHANGED <<g_pkey, pkru, allocated>>

\* A selected segment gets the key, and the permissions its header has.
ProtectSegment ==
  /\ pc = "iterate"
  /\ obj <= Len(listed)
  /\ InScope(obj)
  /\ i <= Len(listed[obj])
  /\ Selected(listed[obj][i])
  /\ \/ PkeyMprotectFails
     \/ LET h == listed[obj][i]
        IN  /\ key' = [p \in Pages |-> IF p \in RangeOf(h) THEN g_pkey
                                       ELSE key[p]]
            /\ prot' = [p \in Pages |-> IF p \in RangeOf(h)
                                        THEN prot_from_phdr(h) ELSE prot[p]]
            /\ g_protected_segments' = g_protected_segments + 1
            /\ i' = NextHeader(i)
            /\ UNCHANGED <<pc, g_pkey, g_protect_all, obj, objs, live, pkru,
                           allocated, freed, listed>>

\* dl_iterate_phdr returns.
IterateReturns ==
  /\ pc = "iterate"
  /\ obj > Len(listed)
  /\ pc' = "check"
  /\ UNCHANGED <<g_pkey, g_protect_all, g_protected_segments, obj, i,
                 procVars>>

\* A program without any executable segment is not run.
CheckProtected ==
  /\ pc = "check"
  /\ \/ /\ g_protected_segments = 0
        /\ Exit
        /\ UNCHANGED <<g_pkey, pkru, allocated>>
     \/ /\ g_protected_segments # 0
        /\ pc' = "seal"
        /\ UNCHANGED <<g_pkey, g_protect_all, g_protected_segments, obj, i,
                       procVars>>

\* A fault: the rights to the other keys are overwritten.
x_pkey_set_All(reg, k, rights) ==
  [j \in Keys |-> IF j = k THEN rights ELSE {}]

\* x_pkey_set: the two bits of k are replaced, the others kept.
x_pkey_set(reg, k, rights) == [reg EXCEPT ![k] = rights]

\* Access is disabled in the PKRU of this thread, if that has bits for the
\* key.  Then main is called.
Seal ==
  /\ pc = "seal"
  /\ pc' = IF g_pkey \in 0 .. 15 THEN "main" ELSE "exit"
  /\ pkru' = IF g_pkey \in 0 .. 15
             THEN [pkru EXCEPT ![Main] = x_pkey_set(@, g_pkey, {"AD"})]
             ELSE pkru
  /\ UNCHANGED <<g_pkey, g_protect_all, g_protected_segments, obj, i, objs,
                 prot, key, live, allocated, freed, listed>>

\* The process is gone, or the program does nothing the model is about.
Done == pc \in {"main", "exit"} /\ UNCHANGED vars

----------------------------------------------------------------------------
Init ==
  /\ pc = "start"
  /\ g_pkey = NULL
  /\ g_protect_all = FALSE
  /\ g_protected_segments = 0
  /\ obj = 1
  /\ i = 1
  /\ \E h \in {x \in Programs : Disjoint(x)} :
       /\ objs = <<h>>
       /\ prot = Mapped([p \in Pages |-> {"r", "w"}], h)
  /\ key = [p \in Pages |-> 0]
  /\ live = {Main}
  /\ pkru = [t \in Threads |-> InitialPkru]
  /\ allocated = {}
  /\ freed = {}
  /\ listed = <<>>

\* A step of mpk_xom_init.
InitStep ==
  \/ Start
  \/ PkeyAlloc
  \/ NextObject
  \/ SkipHeader
  \/ ProtectSegment
  \/ IterateReturns
  \/ CheckProtected
  \/ Seal

\* A step of the rest of the process.
ProcessStep ==
  \/ \E t, u \in Threads : Spawn(t, u)
  \/ \E t \in Threads, k \in Keys, r \in Rights, p \in Pages :
       LibAlloc(t, k, r, p)
  \/ \E t \in Threads, k \in Keys : LibFree(t, k)
  \/ \E t \in Threads, h \in Libraries : Load(t, h)

Next == InitStep \/ ProcessStep \/ Done

\* The constructor is not suspended for good.
Spec == Init /\ [][Next]_vars /\ WF_vars(InitStep)

----------------------------------------------------------------------------
(***************************************************************************)
(* Properties.                                                             *)
(***************************************************************************)

\* The types of the state.
MpkTypeOK ==
  /\ pc \in {"start", "alloc", "iterate", "check", "seal", "main", "exit"}
  /\ g_pkey \in Keys \cup {NULL}
  /\ g_protect_all \in BOOLEAN
  /\ g_protected_segments \in Nat
  /\ obj \in Nat /\ i \in Nat
  /\ objs \in Seq(Seq(Phdr)) /\ listed \in Seq(Seq(Phdr))
  /\ prot \in [Pages -> SUBSET {"r", "w", "x"}]
  /\ key \in [Pages -> Keys \cup {0}]
  /\ live \subseteq Threads
  /\ pkru \in [Threads -> [Keys -> Rights]]
  /\ allocated \subseteq Keys
  /\ freed \subseteq Keys

\* The pages with a byte of an executable segment in scope, of the objects
\* dl_iterate_phdr finds.
CodePages ==
  UNION {PagesOf(h) : h \in
           {x \in UNION {Headers(listed[n]) :
                           n \in {o \in DOMAIN listed : InScope(o)}} :
              "x" \in x.flags}}

\* When the program runs, no thread can read a byte of the code that was to
\* be protected: not the main thread, nor the threads that ran before and
\* have a PKRU of their own, nor the threads any of them starts.  This takes
\* a key no library has freed before: freeing leaves the PKRU of the threads
\* as it is.  (The last message of mpk_xom_init.)
CodeUnreadable ==
  (pc = "main" /\ g_pkey \notin freed) =>
    \A t \in live, p \in CodePages : ~CanRead(t, p)

\* A page without a byte of that code never gets the key, whatever the
\* addresses and sizes of the segments: data stays accessible.
OnlyCodeKeyed ==
  \A p \in Pages : (g_pkey # NULL /\ key[p] = g_pkey) => p \in CodePages

\* The permissions of the pages are those the loader gave them ("preserve
\* the ELF segment's normal permissions").
PermissionsKept == [][objs' = objs => prot' = prot]_vars

\* No step of the constructor lets a thread read a page it could not read
\* before; in particular the rights to the keys of other libraries are kept.
NoRightsGained ==
  [][InitStep =>
       \A t \in live, p \in Pages : CanRead(t, p)' => CanRead(t, p)]_vars

\* The constructor comes to an end: the program runs or has been ended.
InitEnds == <>(pc \in {"main", "exit"})
----------------------------------------------------------------------------
(***************************************************************************)
(* The inductive invariant behind the safety properties.                   *)
(***************************************************************************)

\* The constructor has its key from pkey_alloc on, and keeps it allocated; no
\* page is under a key that is not allocated.
KeyKept ==
  /\ pc \in {"start", "alloc"} => g_pkey = NULL
  /\ pc \in {"iterate", "check", "seal", "main"} => g_pkey # NULL
  /\ g_pkey # NULL => g_pkey \in allocated
  /\ \A p \in Pages : key[p] \in allocated \cup {0}

\* A thread has a right to a key only if the key was allocated, now or before:
\* the threads other than the main one, which does not run meanwhile, never
\* get any to the key of the constructor.
RightsGranted ==
  /\ Main \in live
  /\ \A k \in Keys \ (allocated \cup freed), t \in Threads :
       "AD" \in pkru[t][k]
  /\ (g_pkey # NULL /\ g_pkey \notin freed) =>
       \A t \in Threads : (t # Main \/ pc = "main") =>
         "AD" \in pkru[t][g_pkey]

\* The objects dl_iterate_phdr finds are still loaded, and the pages of all
\* loaded objects have the permissions of their headers and no key of another
\* library.
ObjectsMapped ==
  /\ \A n \in DOMAIN listed : n \in DOMAIN objs /\ listed[n] = objs[n]
  /\ \A n \in DOMAIN objs : \A m \in DOMAIN objs[n] :
       \A p \in PagesOf(objs[n][m]) :
         prot[p] = objs[n][m].flags /\ key[p] \in {0, g_pkey}

\* The headers of the objects in scope that protect_object has passed.
Passed(n, m) == n < obj \/ (n = obj /\ m < i)

\* The code that protect_object has passed is under the key.
CodeKeyed ==
  /\ obj > 0 /\ i > 0
  /\ pc \in {"check", "seal", "main"} => obj > Len(listed)
  /\ pc \in {"iterate", "check", "seal", "main"} =>
       \A n \in DOMAIN listed : \A m \in DOMAIN listed[n] :
         (/\ InScope(n) /\ Passed(n, m)
          /\ "x" \in listed[n][m].flags) =>
           \A p \in PagesOf(listed[n][m]) : key[p] = g_pkey

MpkInv == KeyKept /\ RightsGranted /\ ObjectsMapped /\ CodeKeyed
=============================================================================
