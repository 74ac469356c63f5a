------------------------------- MODULE Acme --------------------------------
(***************************************************************************)
(* Certificates: the ACME client that obtains and renews them (acme.rs),   *)
(* the part of main that starts it, and the TLS acceptor of the HTTPS      *)
(* ingress with its SIGUSR1 reload (main.rs, tls.rs, ingress.rs).          *)
(*                                                                         *)
(* main loads the acceptor, then asks needs_renewal and, if so, waits for  *)
(* obtain_certificate; only then does it spawn the renewal task and enter  *)
(* the accept loop.  So one attempt is under way at a time: main's first   *)
(* and then the task's.  An attempt is cut at its awaits.  Every call to   *)
(* the CA, to Cloudflare or to the disk may fail, and every failure leaves *)
(* by `?` from where it is, without the clean-up at the end.               *)
(*                                                                         *)
(* A file is written by truncating it and then filling it (fs::write): in  *)
(* between, and for good after a crash or a full disk, it is Torn, or Cut: *)
(* days_until_expiry does not ask for the end of the block, so a           *)
(* certificate cut behind its validity still shows its expiry, although    *)
(* rustls refuses it.  (One cut behind its first block loads: that is a    *)
(* failure of the step after.)  A pair of certificate and key is named by  *)
(* its key: KeyPair::generate makes one that nothing else uses, and the CA *)
(* certifies that key.  The operator has pointed --tls-cert and --tls-key  *)
(* at the files acme.rs writes (the only way to serve them) or asked for a *)
(* self-signed certificate.                                                *)
(***************************************************************************)
EXTENDS Naturals, Sequences, FiniteSets

CONSTANTS
    Domains,      \* the sequence of configured domains
    KeyPairs,     \* names for key pairs, five so that one is always unused
    MaxAttempts,  \* polls of the order: 24
    Life,         \* days a new certificate is valid: 90
    Margin,       \* renewed when fewer days are left: 30
    None, Torn, Cut, SelfSigned

ASSUME AcmeAssumption ==
    /\ Domains \in Seq({Domains[i] : i \in DOMAIN Domains})
    /\ MaxAttempts \in Nat \ {0} /\ Life \in Nat /\ Margin \in 1..Life
    /\ {None, Torn, Cut, SelfSigned} \cap KeyPairs = {}
    /\ Cut \notin {None, Torn}
    /\ IsFiniteSet(KeyPairs) /\ Cardinality(KeyPairs) >= 5

VARIABLES
    args,       \* [dns, self]: a Cloudflare token is given; --tls-self-signed
    pc,         \* where main, later the renewal task, is
    order,      \* the attempt: [i, asked, posted, polls, key], see NoOrder
    account,    \* account.json: None, Torn or "saved"
    certFile,   \* <domain>.crt: None, Torn, Cut or the pair it belongs to
    keyFile,    \* <domain>.key: None, Torn or the pair
    left,       \* days until the certificate on disk expires
    acceptor,   \* the HotAcceptor: <<certificate, key>>
    reload,     \* the SIGUSR1 task: None, or the certificate it has read
    bound,      \* the HTTP-01 server got port 80
    cut,        \* history: a write of the pair was cut short and none has
                \* been completed since
    faults      \* history: how many calls have failed, and crashes

vars == <<args, pc, order, account, certFile, keyFile, left, acceptor, reload,
          bound, cut, faults>>

disk == <<account, certFile, keyFile, left, cut>>
tls == <<acceptor, reload>>

-----------------------------------------------------------------------------

DomainSet == {Domains[i] : i \in DOMAIN Domains}

(* A new order: no authorization looked at yet, no challenge announced     *)
(* (asked) or in place at Cloudflare or in the token map (posted).         *)
NoOrder == [i |-> 1, asked |-> {}, posted |-> {}, polls |-> 0, key |-> None]

Orders == [i : 1..Len(Domains) + 1, asked : SUBSET DomainSet,
           posted : SUBSET DomainSet, polls : 0..MaxAttempts,
           key : KeyPairs \cup {None}]

NoAcceptor == <<None, None>>

Attempting == {"account", "save_account", "fill_account", "order", "authz",
               "announce", "poll", "finalize", "download", "clean",
               "open_cert", "fill_cert", "open_key", "fill_key"}

TypeOK ==
    /\ args \in [dns : BOOLEAN, self : BOOLEAN]
    /\ pc \in {"down", "tls", "check", "sleep"} \cup Attempting
    /\ order \in Orders
    /\ account \in {None, Torn, "saved"}
    /\ certFile \in KeyPairs \cup {None, Torn, Cut}
    /\ keyFile \in KeyPairs \cup {None, Torn}
    /\ left \in 0..Life
    /\ acceptor \in (KeyPairs \cup {None, SelfSigned})
                      \X (KeyPairs \cup {None, SelfSigned})
    /\ reload \in KeyPairs \cup {None, Torn, Cut}
    /\ bound \in BOOLEAN /\ cut \in BOOLEAN /\ faults \in Nat

(* A first start, with an empty acme_dir. *)
Init ==
    /\ args \in [dns : BOOLEAN, self : BOOLEAN]
    /\ pc = "down" /\ order = NoOrder
    /\ account = None /\ certFile = None /\ keyFile = None /\ left = 0
    /\ acceptor = NoAcceptor /\ reload = None /\ bound = FALSE
    /\ cut = FALSE /\ faults = 0

-----------------------------------------------------------------------------
(* The acceptor *)

(* acceptor_from_pem: both files parse, and rustls finds that the key      *)
(* belongs to the certificate.                                             *)
Usable(c, k) == c \in KeyPairs /\ k = c

(* The process is started, with the arguments of the day; main reads the   *)
(* two files (or makes a self-signed pair) before anything can write them, *)
(* and exits with an error when they are of no use.  Port 80 is free for   *)
(* the HTTP-01 server, or not: a failure to bind is logged, nothing more.  *)
Start ==
    /\ pc = "down"
    /\ pc' = "tls"
    /\ \E s \in BOOLEAN : args' = [args EXCEPT !.self = s]
    /\ UNCHANGED <<order, disk, tls, bound, faults>>

LoadTls ==
    /\ pc = "tls"
    /\ args.self \/ Usable(certFile, keyFile)
    /\ acceptor' = IF args.self THEN <<SelfSigned, SelfSigned>>
                   ELSE <<certFile, keyFile>>
    /\ pc' = "check"
    /\ bound' \in BOOLEAN
    /\ UNCHANGED <<args, order, disk, reload, faults>>

LoadTlsFails ==
    /\ pc = "tls"
    /\ ~args.self /\ ~Usable(certFile, keyFile)
    /\ pc' = "down"
    /\ UNCHANGED <<args, order, disk, tls, bound, faults>>

(* SIGUSR1: the task reads the certificate and then the key, while an      *)
(* attempt may be writing them, and installs what it built; a failure      *)
(* keeps the acceptor in force.                                            *)
ReloadReads ==
    /\ acceptor # NoAcceptor /\ reload = None
    /\ ~args.self
    /\ certFile # None
    /\ reload' = certFile
    /\ UNCHANGED <<args, pc, order, disk, acceptor, bound, faults>>

ReloadBuilds ==
    /\ reload # None
    /\ reload' = None
    /\ acceptor' = IF Usable(reload, keyFile) THEN <<reload, keyFile>> ELSE acceptor
    /\ UNCHANGED <<args, pc, order, disk, bound, faults>>

-----------------------------------------------------------------------------
(* The attempt *)

\* Mutant of NeedsRenewal: a certificate that cannot be parsed is not due.
NeedsRenewalParsed == certFile = None \/ (certFile # Torn /\ left < Margin)

\* Mutant of NeedsRenewal: a certificate that is there is never due.
NeedsRenewalAbsent == certFile \in {None, Torn}

(* needs_renewal: no certificate, one that shows no expiry, or one that    *)
(* expires within Margin days.  Neither the key nor the rest of the        *)
(* certificate is looked at.                                               *)
NeedsRenewal == certFile \in {None, Torn} \/ left < Margin

(* main before it enters the accept loop, and the task at each tick. *)
Check ==
    /\ pc = "check"
    /\ pc' = IF NeedsRenewal THEN "account" ELSE "sleep"
    /\ order' = NoOrder
    /\ UNCHANGED <<args, disk, tls, bound, faults>>

(* Every 12 hours. *)
RenewalTick ==
    /\ pc = "sleep"
    /\ pc' = "check"
    /\ UNCHANGED <<args, order, disk, tls, bound, faults>>

(* `?` or bail!: main logs the error and goes on to the accept loop, the   *)
(* task waits for its next tick.  Records at Cloudflare and tokens in the  *)
(* map stay behind; they belong to an order nobody refers to any more.     *)
GiveUp ==
    /\ pc' = "sleep"
    /\ order' = NoOrder

LoadAccount ==
    /\ pc = "account"
    /\ account = "saved"
    /\ pc' = "order"
    /\ UNCHANGED <<args, order, disk, tls, bound, faults>>

(* Credentials that do not parse end this attempt, and every later one. *)
LoadAccountFails ==
    /\ pc = "account"
    /\ account = Torn
    /\ GiveUp
    /\ UNCHANGED <<args, disk, tls, bound, faults>>

CreateAccount ==
    /\ pc = "account"
    /\ account = None
    /\ pc' = "save_account"
    /\ UNCHANGED <<args, order, disk, tls, bound, faults>>

SaveAccount ==
    \/ /\ pc = "save_account"
       /\ account' = Torn /\ pc' = "fill_account"
       /\ UNCHANGED <<args, order, certFile, keyFile, left, cut, tls, bound, faults>>
    \/ /\ pc = "fill_account"
       /\ account' = "saved" /\ pc' = "order"
       /\ UNCHANGED <<args, order, certFile, keyFile, left, cut, tls, bound, faults>>

(* new_order and authorizations. *)
PlaceOrder ==
    /\ pc = "order"
    /\ pc' = "authz"
    /\ UNCHANGED <<args, order, disk, tls, bound, faults>>

(* The loop over the authorizations: one the CA still holds valid is       *)
(* skipped; for a pending one the challenge is put in place, a TXT record  *)
(* at Cloudflare or a token in the map, and announced.                     *)
AuthzValid ==
    /\ pc = "authz" /\ order.i <= Len(Domains)
    /\ order' = [order EXCEPT !.i = @ + 1]
    /\ UNCHANGED <<args, pc, disk, tls, bound, faults>>

PostChallenge ==
    /\ pc = "authz" /\ order.i <= Len(Domains)
    /\ order' = [order EXCEPT !.posted = @ \cup {Domains[order.i]}]
    /\ pc' = "announce"
    /\ UNCHANGED <<args, disk, tls, bound, faults>>

SetReady ==
    /\ pc = "announce"
    /\ order' = [order EXCEPT !.asked = @ \cup {Domains[order.i]}, !.i = @ + 1]
    /\ pc' = "authz"
    /\ UNCHANGED <<args, disk, tls, bound, faults>>

AuthzDone ==
    /\ pc = "authz" /\ order.i > Len(Domains)
    /\ pc' = "poll"
    /\ UNCHANGED <<args, order, disk, tls, bound, faults>>

(* The CA finds a challenge where it looks for it: the TXT record, or the  *)
(* token through run_acme_http_server, which answers from the map when it  *)
(* has port 80.                                                            *)
Answered(d) == d \in order.posted /\ (args.dns \/ bound)

(* The polls, 5 s apart: ready once the CA has validated every challenge   *)
(* announced, pending, or invalid.                                         *)
PollReady ==
    /\ pc = "poll"
    /\ \A d \in order.asked : Answered(d)
    /\ pc' = "finalize"
    /\ UNCHANGED <<args, order, disk, tls, bound, faults>>

\* Mutant of PollPending: the count of polls starts over at its limit.
PollPendingForever ==
    /\ pc = "poll"
    /\ order' = [order EXCEPT !.polls = (@ + 1) % MaxAttempts]
    /\ UNCHANGED <<args, pc, disk, tls, bound, faults>>

PollPending ==
    /\ pc = "poll"
    /\ order.polls + 1 < MaxAttempts
    /\ order' = [order EXCEPT !.polls = @ + 1]
    /\ UNCHANGED <<args, pc, disk, tls, bound, faults>>

PollTimeout ==
    /\ pc = "poll"
    /\ order.polls + 1 = MaxAttempts
    /\ GiveUp
    /\ UNCHANGED <<args, disk, tls, bound, faults>>

PollInvalid ==
    /\ pc = "poll"
    /\ \E d \in order.asked : ~Answered(d)
    /\ GiveUp
    /\ UNCHANGED <<args, disk, tls, bound, faults>>

(* KeyPair::generate: a key that nothing on disk or in memory has. *)
Unused ==
    CHOOSE k \in KeyPairs : k \notin {certFile, keyFile, reload, acceptor[1]}

\* Mutant of Finalize: the new key is stored as soon as it is generated.
FinalizeStoresKey ==
    /\ pc = "finalize"
    /\ order' = [order EXCEPT !.key = Unused]
    /\ keyFile' = Unused
    /\ pc' = "download"
    /\ UNCHANGED <<args, account, certFile, left, cut, tls, bound, faults>>

(* A key pair is generated, and its CSR submitted. *)
Finalize ==
    /\ pc = "finalize"
    /\ order' = [order EXCEPT !.key = Unused]
    /\ pc' = "download"
    /\ UNCHANGED <<args, disk, tls, bound, faults>>

(* The certificate is asked for every 3 s until it is there, without a     *)
(* limit: while the CA is processing the order the loop goes on.           *)
DownloadPending ==
    /\ pc = "download"
    /\ UNCHANGED vars

Download ==
    /\ pc = "download"
    /\ pc' = "clean"
    /\ UNCHANGED <<args, order, disk, tls, bound, faults>>

(* The TXT records are deleted one after the other, a failure being logged *)
(* and passed over, and then the token map is cleared.                     *)
DeleteRecord ==
    /\ pc = "clean" /\ args.dns
    /\ \E d \in order.posted : order' = [order EXCEPT !.posted = @ \ {d}]
    /\ UNCHANGED <<args, pc, disk, tls, bound, faults>>

ClearTokens ==
    /\ pc = "clean"
    /\ args.dns => order.posted = {}
    /\ order' = [order EXCEPT !.posted = {}]
    /\ pc' = "open_cert"
    /\ UNCHANGED <<args, disk, tls, bound, faults>>

(* The certificate is written, and then the key. *)
WriteCert ==
    \/ /\ pc = "open_cert"
       /\ certFile' = Torn /\ left' = 0 /\ pc' = "fill_cert"
       /\ UNCHANGED <<args, order, account, keyFile, cut, tls, bound, faults>>
    \/ /\ pc = "fill_cert"
       /\ certFile' = order.key /\ left' = Life /\ pc' = "open_key"
       /\ UNCHANGED <<args, order, account, keyFile, cut, tls, bound, faults>>

(* The attempt ends.  The task's cert_tx has lost its receiver: what it    *)
(* sends reaches nobody, and the acceptor stays as it is.                  *)
WriteKey ==
    \/ /\ pc = "open_key"
       /\ keyFile' = Torn /\ pc' = "fill_key"
       /\ UNCHANGED <<args, order, account, certFile, left, cut, tls, bound, faults>>
    \/ /\ pc = "fill_key"
       /\ keyFile' = order.key /\ pc' = "sleep" /\ order' = NoOrder /\ cut' = FALSE
       /\ UNCHANGED <<args, account, certFile, left, tls, bound, faults>>

-----------------------------------------------------------------------------
(* Failures and the surroundings *)

Writing == {"fill_cert", "open_key", "fill_key"}

(* A write of the certificate that is cut short leaves it as the           *)
(* truncation did, or with its expiry readable.                            *)
CutShort ==
    \/ UNCHANGED <<certFile, left>>
    \/ pc = "fill_cert" /\ certFile' = Cut /\ left' = Life

(* A call to the CA, to Cloudflare or to the disk fails; "clean" goes on   *)
(* whatever happens.                                                       *)
CallFails ==
    /\ pc \in Attempting \ {"clean"}
    /\ pc # "account" \/ account # Torn
    /\ GiveUp
    /\ CutShort
    /\ cut' = (cut \/ pc \in Writing)
    /\ faults' = faults + 1
    /\ UNCHANGED <<args, account, keyFile, tls, bound>>

(* The process dies; what was being written stays as it is. *)
Crash ==
    /\ pc # "down"
    /\ pc' = "down" /\ order' = NoOrder
    /\ acceptor' = NoAcceptor /\ reload' = None /\ bound' = FALSE
    /\ CutShort
    /\ cut' = (cut \/ pc \in Writing)
    /\ faults' = faults + 1
    /\ UNCHANGED <<args, account, keyFile>>

DayPasses ==
    /\ left > 0
    /\ left' = left - 1
    /\ UNCHANGED <<args, pc, order, account, certFile, keyFile, cut, tls, bound, faults>>

AttemptStep ==
    \/ LoadAccount \/ LoadAccountFails \/ CreateAccount \/ SaveAccount
    \/ PlaceOrder \/ AuthzValid \/ PostChallenge \/ SetReady \/ AuthzDone
    \/ PollReady \/ PollPending \/ PollTimeout \/ PollInvalid
    \/ Finalize \/ DeleteRecord \/ ClearTokens \/ WriteCert \/ WriteKey

Next ==
    \/ Start \/ LoadTls \/ LoadTlsFails \/ Check \/ RenewalTick
    \/ ReloadReads \/ ReloadBuilds
    \/ AttemptStep \/ DownloadPending \/ Download
    \/ CallFails \/ Crash \/ DayPasses

(* main and the renewal task are scheduled, the interval ticks and days    *)
(* pass; an order whose challenges are in place is not pending at every    *)
(* poll of every attempt.  Nothing makes the CA issue the certificate of   *)
(* an order it has accepted: Download is not fair.                         *)
Fairness ==
    /\ WF_vars(LoadTls) /\ WF_vars(LoadTlsFails)
    /\ WF_vars(Check) /\ WF_vars(RenewalTick)
    /\ WF_vars(DayPasses)
    /\ WF_vars(AttemptStep)
    /\ SF_vars(PollReady)

Spec == Init /\ [][Next]_vars /\ Fairness

-----------------------------------------------------------------------------
(* Properties *)

(* The certificate and the key on disk belong together except while an     *)
(* attempt is between the two writes, or after one was cut short there:    *)
(* no other failure, at whatever call, separates them.  (needs_renewal     *)
(* does not notice a pair that a crash has separated; the next start with  *)
(* --tls-cert does, and fails.)                                            *)
PairOnDisk == pc \notin Writing /\ ~cut => certFile = keyFile

(* A challenge is announced for the domain the loop is at.  From the       *)
(* order's CSR on the attempt has a key, and once the certificate is       *)
(* written it is the certificate of that key.                              *)
OrderSound ==
    /\ pc = "announce" => order.i <= Len(Domains)
    /\ pc \in {"download", "clean", "open_cert", "fill_cert", "open_key", "fill_key"}
         => order.key \in KeyPairs
    /\ pc \in {"open_key", "fill_key"} => certFile = order.key

(* The inductive invariant. *)
AcmeInv == TypeOK /\ OrderSound /\ PairOnDisk

(* The CA leaves an accepted order processing for ever: whoever waits for  *)
(* its certificate waits for ever.                                         *)
OrderStuck == <>[](pc = "download")

(* What the attempts cannot mend: the relay is down, the account file does *)
(* not parse, or the CA cannot reach the challenges.                       *)
Hopeless == pc = "down" \/ account = Torn \/ (~args.dns /\ ~bound)

(* A relay whose certificate loads reaches its accept loop unless it       *)
(* crashes or the CA leaves the order processing for ever: main waits for  *)
(* the first attempt, and of its loops only the one for the certificate    *)
(* has no limit.                                                           *)
BootCompletes ==
    \/ pc = "tls" /\ (args.self \/ Usable(certFile, keyFile))
         ~> pc \in {"sleep", "down"}
    \/ OrderStuck

(* A certificate on disk that is missing, cut short or within Margin days  *)
(* of its end is replaced, also after any finite number of failed calls    *)
(* and although needs_renewal takes a Cut one for whole until it is due,   *)
(* unless the attempts are hopeless or one never ends.                     *)
RenewalHappens ==
    \/ pc = "sleep" /\ ~(certFile \in KeyPairs /\ left >= Margin)
         ~> (certFile \in KeyPairs /\ left >= Margin) \/ Hopeless
    \/ OrderStuck

(* A certificate and a key that a failed write has separated are brought   *)
(* together by a later renewal.  needs_renewal does not compare them, so   *)
(* this may take until the certificate that is there becomes due.          *)
PairHeals == (cut ~> ~cut \/ Hopeless) \/ OrderStuck

=============================================================================
