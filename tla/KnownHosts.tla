----------------------------- MODULE KnownHosts -----------------------------
(***************************************************************************)
(* Which server a session trusts (src/src/ssh/HostKeyDecision.{h,cpp} and  *)
(* ThreadMain of src/src/ssh/session.cpp), on top of Connect: what a       *)
(* worker does while Connect has it "up" and before it runs the shell.     *)
(*                                                                         *)
(* All sessions here connect to one host and share the file known_hosts.   *)
(* Each reads it before its handshake, decides with what it read, and      *)
(* writes what it read plus the accepted key back: between the reading and *)
(* the writing lie a handshake and a question to the user, and meanwhile   *)
(* another session may do the same.                                        *)
(***************************************************************************)
EXTENDS Connect

CONSTANTS Keys,      \* keys a server may present
          Stored,    \* the host's entries in known_hosts at first
          Profiles   \* the profiles' lists of host keys, one for each session

ASSUME HostKeyAssumption ==
  Stored \subseteq Keys /\ Profiles \subseteq [Sessions -> SUBSET Keys]

VARIABLES
  listed,     \* cfg.manualHostKeys
  known,      \* the host's entries in the file known_hosts
  at,         \* where the worker is while it is "up", "out" if it is not
  loaded,     \* kh: the entries it read
  key,        \* the key the server presented
  decided,    \* m_hkDecided
  accepted,   \* m_hkAccepted
  vouched     \* history: keys that were in the file at first, or the user accepted

trust  == <<known, at, loaded, key, decided, accepted, vouched>>
khVars == <<vars, trust, listed>>

KhInit ==
  /\ Init /\ listed \in Profiles /\ known = Stored /\ vouched = Stored
  /\ at = [s \in Sessions |-> "out"] /\ loaded = [s \in Sessions |-> {}]
  /\ key = [s \in Sessions |-> "none"]
  /\ decided = [s \in Sessions |-> FALSE] /\ accepted = [s \in Sessions |-> FALSE]

----------------------------------------------------------------------------
(* The decision.                                                           *)

\* What libssh2_knownhost_checkp says of key k.
Lookup(entries, k) == CASE k \in entries -> "Match"
                        [] entries = {}  -> "NotFound"
                        [] OTHER         -> "Mismatch"

\* A list of keys in the profile is the whole trust store; else the file is.  A key
\* that could not be hashed is one that no list names.  Only a key that was asked
\* about is persisted.
DecideHostKey(lookup, k, manual) ==
  IF manual # {} THEN IF k \in manual THEN "Accept" ELSE "RefuseNotListed"
  ELSE CASE lookup = "Match"    -> "Accept"
         [] lookup = "Mismatch" -> "RefuseMismatch"
         [] OTHER               -> "Prompt"

Verdict(s, k) == DecideHostKey(Lookup(loaded[s], k), k, listed[s])

----------------------------------------------------------------------------
(* The UI thread.                                                          *)

KeepAnswer(s)   == UNCHANGED <<decided, accepted>>              \* (faulty)
ForgetAnswer(s) == /\ decided' = [decided EXCEPT ![s] = FALSE]
                   /\ accepted' = [accepted EXCEPT ![s] = FALSE]
KhStart(s) ==
  /\ Start(s) /\ ForgetAnswer(s)
  /\ UNCHANGED <<listed, known, at, loaded, key, vouched>>

KhDisconnect(s) == Disconnect(s) /\ UNCHANGED <<trust, listed>>

\* Disconnect refuses a question that waits, before it takes the socket.
ReleasePrompt ==
  /\ upc = "exchange" /\ ~decided[target]
  /\ decided' = [decided EXCEPT ![target] = TRUE]
  /\ UNCHANGED <<vars, listed, known, at, loaded, key, accepted, vouched>>
KhExchange == decided[target] /\ Exchange /\ UNCHANGED <<trust, listed>>
KhClose    == (CloseTaken \/ Join) /\ UNCHANGED <<trust, listed>>

\* The modal box with the fingerprint, and AnswerHostKey.
Answer(s, yes) ==
  /\ upc = "idle" /\ at[s] = "prompt" /\ ~decided[s]
  /\ decided' = [decided EXCEPT ![s] = TRUE]
  /\ accepted' = [accepted EXCEPT ![s] = yes]
  /\ vouched' = IF yes THEN vouched \cup {key[s]} ELSE vouched
  /\ UNCHANGED <<vars, listed, known, at, loaded, key>>

----------------------------------------------------------------------------
(* A session's worker.                                                     *)

\* The locals of ThreadMain go with it.
Forgets(s) == /\ loaded' = [loaded EXCEPT ![s] = {}]
              /\ key' = [key EXCEPT ![s] = "none"]

Place(s, from, to) == at[s] = from /\ at' = [at EXCEPT ![s] = to]

\* Connect's steps of the worker, up to the transport.
Dials(s) ==
  /\ \/ Resolve(s) \/ NoAddress(s) \/ NextAddress(s) \/ Create(s) \/ CreateFails(s)
     \/ Publish(s) \/ WaitEnds(s) \/ GiveUp(s) \/ CloseSock(s) \/ LastLook(s) \/ Fail(s)
  /\ UNCHANGED <<trust, listed>>

\* The transport is up, and libssh2_knownhost_readfile reads the file: its entries,
\* or none of the host's if they lie behind a line it cannot parse.
Load(s) ==
  /\ ProxyEnds(s)
  /\ \/ /\ wpc'[s] = "up" /\ Place(s, "out", "key")
        /\ \E entries \in {known, {}} : loaded' = [loaded EXCEPT ![s] = entries]
     \/ wpc'[s] # "up" /\ UNCHANGED <<at, loaded>>
  /\ UNCHANGED <<listed, known, key, decided, accepted, vouched>>

Presents(s, k) == key' = [key EXCEPT ![s] = k] /\ UNCHANGED <<vars, loaded>>

\* The handshake on a socket nobody closed, and what to do about the key.
Handshake(s) ==
  /\ at[s] = "key" /\ owner[sock[s]] = s
  /\ \E k \in Keys :
       \/ Verdict(s, k) = "Accept" /\ Place(s, "key", "auth") /\ Presents(s, k)
       \/ Verdict(s, k) = "Prompt" /\ Place(s, "key", "prompt") /\ Presents(s, k)
       \/ /\ Verdict(s, k) \in {"RefuseMismatch", "RefuseNotListed"}
          /\ Place(s, "key", "out") /\ UpBreaks(s) /\ Forgets(s)
  /\ UNCHANGED <<listed, known, decided, accepted, vouched>>

\* The wait on m_hkCv ends.  An accepted key joins the entries that were read, and
\* these replace the file, if it can be written.
Writes(s) == known' \in {known, loaded[s] \cup {key[s]}}
Answered(s) ==
  /\ decided[s]
  /\ \/ /\ ~accepted[s] \/ stop[s]
        /\ Place(s, "prompt", "out") /\ UpBreaks(s) /\ Forgets(s) /\ UNCHANGED known
     \/ /\ accepted[s] /\ ~stop[s]
        /\ Place(s, "prompt", "auth") /\ Writes(s)
        /\ UNCHANGED <<vars, loaded, key>>
  /\ UNCHANGED <<listed, decided, accepted, vouched>>

\* The connection ends, as Connect says: anywhere but in the question.
Ends(s) ==
  /\ \E from \in {"key", "auth"} : Place(s, from, "out")
  /\ UNCHANGED <<listed, known, decided, accepted, vouched>> /\ Forgets(s)
Stopped(s) == UpStopped(s) /\ Ends(s)
Breaks(s)  == UpBreaks(s) /\ Ends(s)

KhWorks(s) == Dials(s) \/ Load(s) \/ Handshake(s) \/ Answered(s) \/ Stopped(s)
KhUi       == ReleasePrompt \/ KhExchange \/ KhClose

KhNext == \/ KhUi
          \/ \E s \in Sessions :
               \/ KhStart(s) \/ KhDisconnect(s) \/ KhWorks(s) \/ Breaks(s)
               \/ \E yes \in BOOLEAN : Answer(s, yes)
KhSpec == KhInit /\ [][KhNext]_khVars

\* As in Connect.  Nobody has to answer the question.
KhFairSpec == KhSpec /\ WF_khVars(KhUi) /\ \A s \in Sessions : WF_khVars(KhWorks(s))

----------------------------------------------------------------------------
\* Credentials go only to a server whose key the profile lists or, without a
\* list, was in the file from the start or accepted by the user; an entry that was
\* read is never overruled, and what several sessions write over each other's
\* entries holds no key nobody accepted.
TrustHeld ==
  /\ known \subseteq vouched
  /\ \A s \in Sessions : at[s] = "auth" =>
       IF listed[s] # {} THEN key[s] \in listed[s]
       ELSE /\ key[s] \in vouched
            /\ loaded[s] # {} => key[s] \in loaded[s]

(* Statements of the repository that the code does not keep. *)

\* session.cpp:1344, "Accepting a key that is then not written means the same
\* prompt on the next connection" and "Say so": what was written stays written.
StaysKnown == [][known \subseteq known']_khVars
=============================================================================
