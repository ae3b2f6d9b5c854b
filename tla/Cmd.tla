--------------------------------- MODULE Cmd ---------------------------------
(***************************************************************************)
(* kube-csr issue from its command line: which operations the flags build, *)
(* how --override and --renew reach them, and how the process ends.  The   *)
(* processes run one after the other in one Pod, on the same files: an     *)
(* init container, the sidecar that renews, and their restarts.            *)
(*                                                                         *)
(* The query of the services is here step by step, because its state and   *)
(* the hosts outlive a run of the renewer.  The other operations are one   *)
(* step each (Issue has theirs), and so is the check for renewal (Renew).  *)
(***************************************************************************)
EXTENDS Query, Operation

CONSTANTS
  Lines,      \* the command lines, as sets of flags
  Args,       \* --subject-alternative-names
  MaxRuns,    \* bound on the runs of Operation.Run
  MaxStarts   \* bound on the processes

VARIABLES
  line,       \* flags of the current or last process
  at,         \* next step, or how the process ended
  first,      \* the renewer has not come to its loop yet
  name,       \* SourceConfig.Name: 0 as given, else made up by the renewer
  hosts,      \* SourceConfig.Hosts
  request,    \* the CSR file, NoRequest if there is none
  present,    \* files that exist
  objects,    \* names of the CSR objects on the server
  used,       \* names made up so far
  runs, starts,
  lost,       \* history: a query of this process has ended in an error
  refused     \* history: a run was stopped by a file or object found there

source  == <<line, name, hosts>>
counts  == <<used, runs, starts>>
left    == <<request, present, objects>>
cmdVars == <<source, at, first, left, counts, lost, refused>>
vars    == <<queryVars, cmdVars>>

Flags == {"query", "generate", "submit", "approve", "fetch", "delete",
          "renew", "override"}
Files == {"key", "csr", "cert"}
Ended == {"new", "exit0", "exit1", "exit2", "panic", "killed"}
Steps == {"query", "generate", "create", "approve", "get", "poll", "done"}

ASSUME CmdAssumption ==
  /\ Lines \subseteq SUBSET Flags
  /\ Args \in Seq(Nat)
  /\ MaxRuns \in Nat /\ MaxStarts \in Nat

Given(flag) == flag \in line

(* The clients newIssueCommand builds from the flags.                      *)
Operations(l) ==
  (l \cap {"query", "generate", "approve"})
    \cup (IF "renew" \in l THEN {"submit", "fetch"} ELSE l \cap {"submit", "fetch"})

(* The override that reaches the files: NewRenewer sets it for the key,    *)
(* the CSR and the certificate; the one of submit is the flag.  Mutant:    *)
(* NewRenewer leaves it.                                                   *)
OverridesFiles_Flag == Given("override")
OverridesFiles == Given("override") \/ Given("renew")
MayWrite(f) == f \notin present \/ OverridesFiles

(* newSubmitClient, and newRenew: a renewer makes up names without it.     *)
OverridesObject == Given("override")
FreshNames      == ~Given("override")

(* checkPaths: the renewer wants the files of an earlier issue.            *)
FilesMissing == present # Files

(* Where a process comes by way of the constructors: NewPurge dies on the  *)
(* missing configuration of newDeleteClient.                               *)
Entry(l) ==
  IF l \subseteq {"query", "override"} THEN "exit1"
  ELSE IF "delete" \in l THEN "panic"
  ELSE IF "renew" \notin l THEN FirstStep(Operations(l))
  ELSE IF FilesMissing THEN "exit1" ELSE "check"

Init ==
  /\ QueryInit
  /\ line = {} /\ at = "new" /\ first = TRUE
  /\ name = 0 /\ hosts = Args
  /\ request = NoRequest /\ present = {}
  /\ objects \in SUBSET {0} /\ used = 0
  /\ runs = 0 /\ starts = 0
  /\ lost = FALSE /\ refused = FALSE

Start ==
  /\ at \in Ended
  /\ starts < MaxStarts /\ runs < MaxRuns
  /\ starts' = starts + 1
  /\ \E l \in Lines :
       /\ line' = l
       /\ at' = Entry(l)
       /\ runs' = IF Entry(l) \in Steps THEN runs + 1 ELSE runs
  /\ first' = TRUE
  /\ name' = 0 /\ hosts' = Args
  /\ NewQuery
  /\ lost' = FALSE /\ refused' = FALSE
  /\ UNCHANGED <<left, used>>

-----------------------------------------------------------------------------
(* A run is over: the process exits, or the renewer goes on.               *)
RunError ==
  /\ at' = IF ~Given("renew") \/ first THEN "exit2" ELSE "loop"
  /\ UNCHANGED first

RunOver ==
  /\ at' = IF ~Given("renew") THEN "exit0" ELSE "loop"
  /\ first' = FALSE

Goto(step) == IF step = "done" THEN RunOver ELSE at' = step /\ UNCHANGED first

(* processRenew: not due yet, or a run, under a name of its own unless     *)
(* --override is given.                                                    *)
Check ==
  /\ at = "check"
  /\ \/ /\ at' = "loop" /\ first' = FALSE
        /\ UNCHANGED <<queryVars, name, used, runs>>
     \/ /\ runs < MaxRuns
        /\ runs' = runs + 1
        /\ at' = FirstStep(Operations(line)) /\ UNCHANGED first
        /\ IF FreshNames
             THEN name' = used + 1 /\ used' = used + 1
             ELSE UNCHANGED <<name, used>>
        /\ Call
  /\ UNCHANGED <<line, hosts, left, starts, lost, refused>>

(* The next tick (Renew has the other ways out of the loop).               *)
Loop ==
  /\ at = "loop"
  /\ at' = "check"
  /\ UNCHANGED <<queryVars, source, first, left, counts, lost, refused>>

-----------------------------------------------------------------------------
QueryStep ==
  /\ at = "query"
  /\ Tick \/ Get \/ TryAgain
  /\ UNCHANGED cmdVars

(* Mutant: what the query returns takes the place of the hosts.            *)
QueryDone_Replaces ==
  /\ at = "query" /\ AllAnswered
  /\ hosts' = sans
  /\ Goto(AfterQuery(Operations(line)))
  /\ UNCHANGED <<queryVars, line, name, left, counts, lost, refused>>
QueryDone ==
  /\ at = "query" /\ AllAnswered
  /\ hosts' = hosts \o sans
  /\ Goto(AfterQuery(Operations(line)))
  /\ UNCHANGED <<queryVars, line, name, left, counts, lost, refused>>

QueryFails ==
  /\ at = "query"
  /\ RunError
  /\ lost' = TRUE
  /\ UNCHANGED <<queryVars, source, left, counts, refused>>

(* A get errs, or the timer fires while the call waits.  Mutant: the timer *)
(* starts anew at each tick.                                               *)
QueryError == turn \in Elts \ ok /\ QueryFails
QueryTimeout_Reset == FALSE
QueryTimeout == turn = 0 /\ QueryFails

-----------------------------------------------------------------------------
(* The CSR, then the key: the run is refused at the first of them that     *)
(* exists and may not be replaced.                                         *)
Generate ==
  /\ at = "generate"
  /\ request' = IF MayWrite("csr") THEN CategorizeHosts(hosts) ELSE request
  /\ present' = present \cup {f \in {"csr", "key"} : MayWrite("csr") /\ MayWrite(f)}
  /\ IF MayWrite("csr") /\ MayWrite("key")
       THEN Goto(AfterGenerate(Operations(line))) /\ UNCHANGED refused
       ELSE RunError /\ refused' = TRUE
  /\ UNCHANGED <<queryVars, source, objects, counts, lost>>

Submit ==
  /\ at = "create"
  /\ \/ /\ "csr" \notin present
        /\ RunError /\ UNCHANGED <<objects, refused>>
     \/ /\ "csr" \in present
        /\ name \notin objects \/ OverridesObject
        /\ objects' = objects \cup {name}
        /\ Goto(AfterSubmit(Operations(line))) /\ UNCHANGED refused
     \/ /\ "csr" \in present
        /\ name \in objects /\ ~OverridesObject
        /\ RunError /\ refused' = TRUE /\ UNCHANGED objects
  /\ UNCHANGED <<queryVars, source, request, present, counts, lost>>

Approve ==
  /\ at \in {"approve", "get"}
  /\ name \in objects
  /\ Goto(AfterApprove(Operations(line)))
  /\ UNCHANGED <<queryVars, source, left, counts, lost, refused>>

Fetch ==
  /\ at = "poll"
  /\ name \in objects
  /\ IF MayWrite("cert")
       THEN /\ present' = present \cup {"cert"}
            /\ Goto(AfterFetch(Operations(line))) /\ UNCHANGED refused
       ELSE RunError /\ refused' = TRUE /\ UNCHANGED present
  /\ UNCHANGED <<queryVars, source, request, objects, counts, lost>>

(* An API call errs, the object is gone or denied, the fetch times out.    *)
StepFails ==
  /\ at \in {"create", "approve", "get", "poll"}
  /\ RunError
  /\ UNCHANGED <<queryVars, source, left, counts, lost, refused>>

Killed ==
  /\ at \notin Ended
  /\ at' = "killed"
  /\ UNCHANGED <<queryVars, source, first, left, counts, lost, refused>>

(* Somebody (the garbage collector) deletes an object.                     *)
ObjectDeleted ==
  /\ \E n \in objects : objects' = objects \ {n}
  /\ UNCHANGED <<queryVars, source, at, first, request, present, counts, lost, refused>>

Process ==
  \/ Check \/ Loop \/ QueryStep \/ QueryDone
  \/ Generate \/ Submit \/ Approve \/ Fetch

Environment == ServiceChanges /\ UNCHANGED cmdVars

Next ==
  \/ Start \/ Process \/ QueryTimeout \/ QueryError \/ StepFails \/ Killed
  \/ ObjectDeleted \/ Environment

Spec == Init /\ [][Next]_vars

(* Every get returns, and the timer of the query, once fired, stays ready *)
(* in a select that picks among ready channels at random.                  *)
FairSpec == Spec /\ WF_vars(QueryStep \/ QueryDone) /\ SF_vars(QueryTimeout)

-----------------------------------------------------------------------------
CmdTypeOK ==
  /\ QueryTypeOK
  /\ line \in SUBSET Flags
  /\ at \in Ended \cup Steps \cup {"check", "loop"}
  /\ first \in BOOLEAN /\ lost \in BOOLEAN /\ refused \in BOOLEAN
  /\ name \in 0 .. used /\ used \in 0 .. MaxRuns
  /\ hosts \in Seq(Nat)
  /\ request \in [dns : Seq(Nat \ IPs), ips : Seq(IPs)]
  /\ present \subseteq Files
  /\ objects \subseteq 0 .. used
  /\ runs \in 0 .. MaxRuns /\ starts \in 0 .. MaxStarts

(* "Override any existing file pem and k8s csr resource": with --override, *)
(* and for a renewer in any case, nothing that an earlier process or run   *)
(* has left stops a run, neither a file nor the object of its name: the    *)
(* override is passed down by three constructors and patched by a fourth,  *)
(* and where it is not passed the name of the object is new.               *)
NeverRefused == refused => ~Given("override") /\ ~Given("renew")

(* A request just generated names the hosts given and all the addresses    *)
(* the services of the query had when they answered, each of them once.    *)
Generated == at \in {"create", "get", "approve", "poll"} /\ Given("generate")
RequestNamesAll ==
  Generated =>
    /\ Given("query") => AllFound
    /\ NamesExactly(request,
         ToSet(Args) \cup (IF Given("query") THEN FoundHosts ELSE {}))

(* The same, unless a query of this process has failed before: a renewer   *)
(* whose runs fail and succeed in any order asks each service once, and    *)
(* must not lose its answer from one run to the next.                      *)
KeepsAnswers == ~lost => RequestNamesAll

(* Every query ends, although its services may never come, or come and go  *)
(* for ever.                                                               *)
QueryEnds == at = "query" ~> at # "query"

=============================================================================
