------------------------------- MODULE Issue --------------------------------
(***************************************************************************)
(* kube-csr issue: processes that run Operation.Run against one API        *)
(* server, each with its own private key, CSR and certificate file.        *)
(*                                                                         *)
(* A run performs the steps its configuration selects, in the fixed order  *)
(* query, generate, submit, approve, fetch, delete.  A step of the model   *)
(* is one API call or one file system effect, because other processes act, *)
(* and the process may die, between any two of them.                       *)
(***************************************************************************)
EXTENDS CSRApi, Operation, FiniteSets

CONSTANTS
  Issuers,    \* the kube-csr processes
  Configs,    \* issuer -> the configurations it may be started with
  NoKey,      \* no key held in memory
  Absent,     \* the file does not exist
  Truncated,  \* the file exists and is empty
  Faults,     \* subset of AllFaults
  MaxRuns     \* bound on the runs of one issuer

VARIABLES
  conf,       \* issuer -> configuration of its current or last run
  pc,         \* issuer -> next step of Operation.Run
  mem,        \* issuer -> key (or request) held in memory
  obj,        \* issuer -> CSR object held in memory (the variable r)
  files,      \* issuer -> file -> content
  minted,     \* keys in use so far
  runs,       \* issuer -> runs started
  delivered   \* history: <<uid, issuer, run>> of each certificate written

vars == <<apiVars, conf, pc, mem, obj, files, minted, runs, delivered>>

(* crash: the process dies, or gets SIGTERM where no handler is installed. *)
(* transport: an API call errs, before or after the server has applied it. *)
(* timeout, signal: the fetch loop's timer fires or it receives a signal.  *)
(* disk: a file cannot be opened, or not be written once it is truncated.  *)
AllFaults == {"crash", "transport", "timeout", "signal", "disk"}

Files   == {"key", "csr", "cert"}
Opening  == [key |-> "open_key",  csr |-> "open_csr",  cert |-> "open_cert"]
Flushing == [key |-> "flush_key", csr |-> "flush_csr", cert |-> "flush_cert"]

ApiCalls == {"query", "create", "replace_delete", "replace_create", "get",
             "approve", "poll", "annotate", "delete"}
Resting  == {"idle", "done", "failed"}
Steps    == Resting \cup ApiCalls \cup {"generate"}
              \cup {Opening[f] : f \in Files} \cup {Flushing[f] : f \in Files}

Flags  == {"query", "generate", "load", "submit", "approve", "fetch",
           "annotate", "delete", "override"}
Config == [name : Names, flags : SUBSET Flags]

ASSUME IssueAssumption ==
  /\ Configs \in [Issuers -> SUBSET Config]
  /\ \A i \in Issuers : Configs[i] # {}
  /\ NoKey \notin Keys
  /\ Absent \notin Keys /\ Truncated \notin Keys /\ Absent # Truncated
  /\ Faults \subseteq AllFaults
  /\ MaxRuns \in Nat

Has(i, flag) == flag \in conf[i].flags
Name(i)      == conf[i].name
Running(i)   == pc[i] \notin Resting

-----------------------------------------------------------------------------
(* The process moves to a step, holding key k and object r.                *)
Goto(i, step, k, r) ==
  /\ pc'  = [pc  EXCEPT ![i] = step]
  /\ mem' = [mem EXCEPT ![i] = k]
  /\ obj' = [obj EXCEPT ![i] = r]

Fail(i) == Goto(i, "failed", NoKey, NoCSR)

(* A call the server has applied: the reply arrives, or is lost and the    *)
(* call returns an error.                                                  *)
Reply(i, step, k, r) ==
  \/ Goto(i, step, k, r)
  \/ "transport" \in Faults /\ Fail(i)

Init ==
  /\ ApiInit
  /\ conf = [i \in Issuers |-> CHOOSE c \in Configs[i] : TRUE]
  /\ pc   = [i \in Issuers |-> "idle"]
  /\ mem  = [i \in Issuers |-> NoKey]
  /\ obj  = [i \in Issuers |-> NoCSR]
  /\ \E given \in [Issuers -> Keys \cup {Absent}] :   \* a key made elsewhere
       /\ files = [i \in Issuers |-> [f \in Files |->
                     IF f = "key" THEN given[i] ELSE Absent]]
       /\ minted = {given[i] : i \in Issuers} \cap Keys
  /\ runs = [i \in Issuers |-> 0]
  /\ delivered = {}

(* A run starts: the command line, or a restart of the container.          *)
Start(i) ==
  /\ ~Running(i)
  /\ runs[i] < MaxRuns
  /\ \E c \in Configs[i] :
       /\ conf' = [conf EXCEPT ![i] = c]
       /\ Goto(i, FirstStep(c.flags), NoKey, NoCSR)
  /\ runs' = [runs EXCEPT ![i] = runs[i] + 1]
  /\ UNCHANGED <<apiVars, files, minted, delivered>>

(* Query: succeeds, or ends the run with its error or its timeout.         *)
Query(i) ==
  /\ pc[i] = "query"
  /\ \/ Goto(i, AfterQuery(conf[i].flags), NoKey, NoCSR)
     \/ "timeout" \in Faults /\ Fail(i)
  /\ UNCHANGED <<apiVars, conf, files, minted, runs, delivered>>

-----------------------------------------------------------------------------
(* generateCryptoData: the key a run may go on with, made anew or loaded.  *)
(* Mutants: a file that does not decode is taken; the CSR is made from a   *)
(* new key although one is to be loaded.                                   *)
KeyChoices_Undecoded(i) ==
  IF Has(i, "load") THEN {files[i]["key"]} \ {Absent} ELSE Keys \ minted
KeyChoices_AlwaysNew(i) == Keys \ minted
KeyChoices(i) ==
  IF Has(i, "load") THEN {files[i]["key"]} \cap Keys ELSE Keys \ minted

(* Generate: with the key in memory, write the CSR, then the key.          *)
Generate(i) ==
  /\ pc[i] = "generate"
  /\ \/ \E k \in KeyChoices(i) :
          /\ minted' = minted \cup {k}
          /\ Goto(i, "open_csr", k, NoCSR)
     \/ /\ Has(i, "load")
        /\ KeyChoices(i) = {}
        /\ Fail(i)
        /\ UNCHANGED minted
  /\ UNCHANGED <<apiVars, conf, files, runs, delivered>>

(* WritePem and WriteFile: refuse to replace a file unless told to         *)
(* override, open with O_TRUNC; the content is on disk after the flush.    *)
(* Mutant: the override flag is not passed down.                           *)
MayWrite_Never(i, f) == files[i][f] = Absent
MayWrite(i, f) == files[i][f] = Absent \/ Has(i, "override")

OpenFile(i, f) ==
  /\ pc[i] = Opening[f]
  /\ \/ /\ MayWrite(i, f)
        /\ files' = [files EXCEPT ![i][f] = Truncated]
        /\ Goto(i, Flushing[f], mem[i], obj[i])
     \/ /\ ~MayWrite(i, f)
        /\ Fail(i)
        /\ UNCHANGED files
  /\ UNCHANGED <<apiVars, conf, minted, runs, delivered>>

FlushCSR(i) ==
  /\ pc[i] = Flushing["csr"]
  /\ files' = [files EXCEPT ![i]["csr"] = mem[i]]
  /\ IF Has(i, "load")
       THEN Goto(i, AfterGenerate(conf[i].flags), NoKey, NoCSR)
       ELSE Goto(i, "open_key", mem[i], NoCSR)
  /\ UNCHANGED <<apiVars, conf, minted, runs, delivered>>

FlushKey(i) ==
  /\ pc[i] = Flushing["key"]
  /\ files' = [files EXCEPT ![i]["key"] = mem[i]]
  /\ Goto(i, AfterGenerate(conf[i].flags), NoKey, NoCSR)
  /\ UNCHANGED <<apiVars, conf, minted, runs, delivered>>

FlushCert(i) ==
  /\ pc[i] = Flushing["cert"]
  /\ files' = [files EXCEPT ![i]["cert"] = obj[i].cert.key]
  /\ delivered' = delivered \cup {<<obj[i].uid, i, runs[i]>>}
  /\ Goto(i, AfterFetch(conf[i].flags), NoKey, NoCSR)
  /\ UNCHANGED <<apiVars, conf, minted, runs>>

-----------------------------------------------------------------------------
(* Submit: read the CSR file and create the object; with override, an      *)
(* object of that name is deleted and created anew.  The server refuses an *)
(* empty request.                                                          *)
SubmitCreate(i) ==
  /\ pc[i] = "create"
  /\ \/ /\ files[i]["csr"] \notin Keys
        /\ Fail(i)
        /\ UNCHANGED apiVars
     \/ /\ files[i]["csr"] \in Keys
        /\ ~Exists(Name(i))
        /\ CreateCSR(Name(i), files[i]["csr"])
        /\ Reply(i, AfterSubmit(conf[i].flags), NoKey, NewCSR(files[i]["csr"]))
     \/ /\ files[i]["csr"] \in Keys
        /\ Exists(Name(i))
        /\ IF Has(i, "override")
             THEN Goto(i, "replace_delete", files[i]["csr"], NoCSR)
             ELSE Fail(i)
        /\ UNCHANGED apiVars
  /\ UNCHANGED <<conf, files, minted, runs, delivered>>

ReplaceDelete(i) ==
  /\ pc[i] = "replace_delete"
  /\ \/ /\ Exists(Name(i))
        /\ DeleteCSR(Name(i))
        /\ Reply(i, "replace_create", mem[i], NoCSR)
     \/ /\ ~Exists(Name(i))
        /\ Fail(i)
        /\ UNCHANGED apiVars
  /\ UNCHANGED <<conf, files, minted, runs, delivered>>

ReplaceCreate(i) ==
  /\ pc[i] = "replace_create"
  /\ \/ /\ ~Exists(Name(i))
        /\ CreateCSR(Name(i), mem[i])
        /\ Reply(i, AfterSubmit(conf[i].flags), NoKey, NewCSR(mem[i]))
     \/ /\ Exists(Name(i))
        /\ Fail(i)
        /\ UNCHANGED apiVars
  /\ UNCHANGED <<conf, files, minted, runs, delivered>>

(* GetAndApproveCSR, when this run has not submitted: read the object.     *)
GetCSR(i) ==
  /\ pc[i] = "get"
  /\ IF Exists(Name(i)) THEN Goto(i, "approve", NoKey, store[Name(i)])
                        ELSE Fail(i)
  /\ UNCHANGED <<apiVars, conf, files, minted, runs, delivered>>

(* ApproveCSR: append the condition to the object held, without a time,    *)
(* and send the whole object back.                                         *)
ApproveCSR(i) ==
  /\ pc[i] = "approve"
  /\ \/ /\ Current(Name(i), obj[i])
        /\ UpdateCSR(Name(i), WithCondition(obj[i], "Approved", 0))
        /\ Reply(i, AfterApprove(conf[i].flags), NoKey, NoCSR)
     \/ /\ ~Current(Name(i), obj[i])
        /\ Fail(i)
        /\ UNCHANGED apiVars
  /\ UNCHANGED <<conf, files, minted, runs, delivered>>

-----------------------------------------------------------------------------
(* Fetch, one tick: stop on a missing or denied object, go on with the     *)
(* object once it carries a certificate, wait for the next tick otherwise. *)
FetchTick(i) ==
  LET r == store[Name(i)] IN
  /\ pc[i] = "poll"
  /\ \/ r = NoCSR /\ Fail(i)
     \/ /\ r # NoCSR
        /\ r.cert # NoCert
        /\ Goto(i, IF Has(i, "annotate") THEN "annotate" ELSE "open_cert", NoKey, r)
     \/ /\ r # NoCSR
        /\ r.cert = NoCert
        /\ IF HasCondition(r, "Denied") THEN Fail(i)
                                        ELSE Goto(i, "poll", NoKey, NoCSR)
  /\ UNCHANGED <<apiVars, conf, files, minted, runs, delivered>>

(* Mutants: the timer starts anew at every tick, and never fires; a fetch  *)
(* that gives up removes the certificate there was.                        *)
FetchTimeout_Reset(i) == FALSE
FetchTimeout_Removes(i) ==
  /\ "timeout" \in Faults
  /\ pc[i] = "poll"
  /\ Fail(i)
  /\ files' = [files EXCEPT ![i]["cert"] = Absent]
  /\ UNCHANGED <<apiVars, conf, minted, runs, delivered>>
FetchTimeout(i) ==
  /\ "timeout" \in Faults
  /\ pc[i] = "poll"
  /\ Fail(i)
  /\ UNCHANGED <<apiVars, conf, files, minted, runs, delivered>>

FetchSignal(i) ==
  /\ "signal" \in Faults
  /\ pc[i] = "poll"
  /\ Fail(i)
  /\ UNCHANGED <<apiVars, conf, files, minted, runs, delivered>>

(* updateAnnotations: count the fetch and stamp it before the certificate  *)
(* is written.  Mutant: an error of the update does not stop the fetch.    *)
UpdateAnnotations_ErrorIgnored(i) ==
  /\ pc[i] = "annotate"
  /\ IF Current(Name(i), obj[i])
       THEN UpdateCSR(Name(i), [obj[i] EXCEPT !.fetches = obj[i].fetches + 1])
       ELSE UNCHANGED apiVars
  /\ Goto(i, "open_cert", NoKey, obj[i])
  /\ UNCHANGED <<conf, files, minted, runs, delivered>>

UpdateAnnotations(i) ==
  /\ pc[i] = "annotate"
  /\ \/ /\ Current(Name(i), obj[i])
        /\ UpdateCSR(Name(i), [obj[i] EXCEPT !.fetches = obj[i].fetches + 1,
                                             !.fetchedAt = now])
        /\ Reply(i, "open_cert", NoKey, obj[i])
     \/ /\ ~Current(Name(i), obj[i])
        /\ Fail(i)
        /\ UNCHANGED apiVars
  /\ UNCHANGED <<conf, files, minted, runs, delivered>>

(* Purge.Delete: by name.                                                  *)
Delete(i) ==
  /\ pc[i] = "delete"
  /\ \/ /\ Exists(Name(i))
        /\ DeleteCSR(Name(i))
        /\ Reply(i, "done", NoKey, NoCSR)
     \/ /\ ~Exists(Name(i))
        /\ Fail(i)
        /\ UNCHANGED apiVars
  /\ UNCHANGED <<conf, files, minted, runs, delivered>>

-----------------------------------------------------------------------------
(* An API call errs without effect.                                        *)
TransportError(i) ==
  /\ "transport" \in Faults
  /\ pc[i] \in ApiCalls
  /\ Fail(i)
  /\ UNCHANGED <<apiVars, conf, files, minted, runs, delivered>>

(* Open, or the write after it, errs: WriteFile and WritePem return that.  *)
DiskError(i) ==
  /\ "disk" \in Faults
  /\ \E f \in Files : pc[i] \in {Opening[f], Flushing[f]}
  /\ Fail(i)
  /\ UNCHANGED <<apiVars, conf, files, minted, runs, delivered>>

(* The process dies; what it wrote and what it sent stays.                 *)
Crash(i) ==
  /\ "crash" \in Faults
  /\ Running(i)
  /\ runs[i] < MaxRuns   \* bound: a crash leaves a restart to take
  /\ Fail(i)
  /\ UNCHANGED <<apiVars, conf, files, minted, runs, delivered>>

(* The steps a running process takes of its own.                           *)
Work(i) ==
  \/ Query(i) \/ Generate(i)
  \/ \E f \in Files : OpenFile(i, f)
  \/ FlushCSR(i) \/ FlushKey(i) \/ FlushCert(i)
  \/ SubmitCreate(i) \/ ReplaceDelete(i) \/ ReplaceCreate(i)
  \/ GetCSR(i) \/ ApproveCSR(i)
  \/ FetchTick(i) \/ FetchTimeout(i) \/ UpdateAnnotations(i)
  \/ Delete(i)

Environment ==
  /\ Cluster
  /\ UNCHANGED <<conf, pc, mem, obj, files, minted, runs, delivered>>

IssuerStep(i) ==
  \/ Start(i) \/ Work(i) \/ FetchSignal(i)
  \/ TransportError(i) \/ DiskError(i) \/ Crash(i)

Next == (\E i \in Issuers : IssuerStep(i)) \/ Environment

Spec == Init /\ [][Next]_vars

(* A process that runs goes on running: every API call returns (the client *)
(* sets a timeout of 10 s) and the fetch timer fires.                      *)
FairSpec == Spec /\ \A i \in Issuers : WF_vars(Work(i))

-----------------------------------------------------------------------------
(* The container is started again until its runs are used up, and the      *)
(* signer works.                                                           *)
RestartSpec ==
  /\ FairSpec
  /\ \A i \in Issuers : WF_vars(Start(i))
  /\ \A n \in Names : WF_vars(Sign(n) /\ UNCHANGED <<conf, pc, mem, obj, files,
                                                     minted, runs, delivered>>)

(* Every variable keeps its type: in particular only keys ever reach the   *)
(* files, and a certificate is written only from an object that has one.   *)
TypeOK ==
  /\ ApiTypeOK
  /\ conf \in [Issuers -> Config] /\ \A i \in Issuers : conf[i] \in Configs[i]
  /\ pc \in [Issuers -> Steps]
  /\ mem \in [Issuers -> Keys \cup {NoKey}]
  /\ obj \in [Issuers -> CSR \cup {NoCSR}]
  /\ files \in [Issuers -> [Files -> Keys \cup {Absent, Truncated}]]
  /\ minted \in SUBSET Keys
  /\ runs \in [Issuers -> Nat]
  /\ delivered \in SUBSET (Nat \X Issuers \X Nat)

(* A run that submits and fetches, and reports success, leaves a key file, *)
(* a CSR file and a certificate that belong together.  Operation.Run       *)
(* passes the CSR's name, not the object, from Submit to Fetch, and the    *)
(* CSR file, not the key, from Generate to Submit: every file and every    *)
(* object may change hands in between.                                     *)
DoneMeansPaired ==
  \A i \in Issuers :
    pc[i] = "done" /\ Has(i, "submit") /\ Has(i, "fetch") =>
      /\ files[i]["key"] \in Keys
      /\ files[i]["csr"] = files[i]["key"]
      /\ files[i]["cert"] = files[i]["key"]

(* A run that submits its CSR file adds the Approved condition only to an  *)
(* object that holds that very request and carries no condition yet,       *)
(* whoever deleted, replaced or denied it since (ApproveCSR sends back the *)
(* object Create returned, not the name).                                  *)
ApprovesWhatItSubmitted ==
  [][\A i \in Issuers :
       pc[i] = "approve" /\ Has(i, "submit") /\ pc'[i] # pc[i] /\ store' # store =>
         /\ store[Name(i)].request = files[i]["csr"]
         /\ store[Name(i)].conds = << >>]_vars

(* The fetchCount annotation of an object counts the certificates written  *)
(* from it, up to those being written: no concurrent update loses a count, *)
(* and nothing is counted that is not then written.                        *)
BeingWritten(u) ==
  {i \in Issuers : /\ pc[i] \in {Opening["cert"], Flushing["cert"]}
                   /\ Has(i, "annotate") /\ obj[i].uid = u}

Deliveries(u) ==
  Cardinality({d \in delivered : d[1] = u}) + Cardinality(BeingWritten(u))

CountIsDeliveries ==
  \A n \in Names : Exists(n) => store[n].fetches = Deliveries(store[n].uid)

(* Whatever fails, no certificate is written that was not counted before:  *)
(* a crash, a lost answer or a full disk makes the count too high at most. *)
CountNeverLags ==
  \A n \in Names : Exists(n) => store[n].fetches >= Deliveries(store[n].uid)

(* Whatever fails, a run does to the certificate file, and to the key that *)
(* goes with it, only what the contract allows.  Renew has for a run what  *)
(* the contract allows.                                                    *)
Stage(i) == IF pc[i] = "done" THEN "done"
            ELSE IF ~Running(i) THEN "off"
            ELSE IF pc[i] = Flushing["cert"] THEN "writing"
            ELSE IF pc[i] = "delete" /\ Has(i, "fetch") THEN "after" ELSE "before"
CertFile(i) == IF files[i]["cert"] = Absent THEN "absent"
               ELSE IF files[i]["cert"] = Truncated THEN "empty" ELSE "whole"
Matches(i) == files[i]["cert"] \in Keys /\ files[i]["cert"] = files[i]["key"]

Contract(i) == INSTANCE RunContract WITH
                 stage <- Stage(i), file <- CertFile(i), match <- Matches(i)

KeepsContract ==
  /\ \A i \in Issuers : Contract(i)!Init
  /\ [][\A i \in Issuers : [Contract(i)!Next]_(Contract(i)!contractVars)]_vars

(* Every run ends: each call and each wait of Operation.Run is bounded by  *)
(* a timeout.                                                              *)
RunTerminates == \A i \in Issuers : Running(i) ~> ~Running(i)

(* With --override, whatever earlier runs left behind when they died (a    *)
(* truncated file, an orphaned CSR, a key without its certificate), the    *)
(* run that does not die succeeds.                                         *)
RecoversAfterCrash == <>(\A i \in Issuers : pc[i] = "done" /\ runs[i] = MaxRuns)

=============================================================================
