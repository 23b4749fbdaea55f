------------------------------ MODULE MailCodes ------------------------------
(***************************************************************************)
(* The mail providers of services/register/mail_provider.py: how a         *)
(* registration gets an address from the configured providers in turn, and *)
(* how it waits for the code that is sent there.                           *)
(*                                                                         *)
(* A provider is one of four kinds, by what tells its mails apart:         *)
(*   own     a fresh address with an inbox of its own, of which the latest *)
(*           mail is read (most providers);                                *)
(*   scan    an Outlook mailbox of the pool, whose newest mails are read   *)
(*           one after the other;                                          *)
(*   shared  a DuckDuckGo alias, forwarded to one inbox for all;           *)
(*   fixed   an address of tempmail.plus forwarded to one inbox, which the *)
(*           register service gives to one worker at a time.               *)
(***************************************************************************)
EXTENDS Naturals, Sequences, FiniteSetsExt

CONSTANTS
    Signups,     \* registrations
    EntryLists,  \* configurations: sequences of the kinds of enabled providers
    Aliases,     \* what DuckDuckGo gives: at its daily limit an alias again
    OutlookBox,  \* a mailbox of the pool that was given free before
    NoAddress,
    ScanLimit,   \* message_limit
    MaxMails     \* bound: mails that arrive

Kinds == {"own", "scan", "shared", "fixed"}

ASSUME MailAssumption ==
    /\ \A e \in EntryLists : e \in Seq(Kinds)
    /\ ScanLimit \in Nat \ {0} /\ MaxMails \in Nat
    /\ OutlookBox \notin Signups \cup Aliases /\ Signups \cap Aliases = {}
    /\ NoAddress \notin Signups \cup Aliases \cup {OutlookBox}

VARIABLES
    entries,  \* the enabled providers
    turn,     \* provider_index
    signup,   \* of each registration: where it is, its draws, the providers it tried,
              \* the kind it uses and its address
    since,    \* _code_not_before: how many mails had arrived
    got,      \* the mail whose code it returned, 0 without one
    mails,    \* all mails in the order they arrived: the address, whether one holds a code,
              \* whether its date can be read, and of a forwarded one its recipient
    aliasFile \* the file of DuckDuckGo aliases handed out

mailVars == <<entries, turn, signup, since, got, mails, aliasFile>>

\* The date of a mail without a code decides nothing; only mails forwarded from an alias
\* are told apart by a recipient: `To: <alias>` reads as none, one that names somebody,
\* and is taken for everybody's.
MailRecords(addresses) ==
    {m \in [to : addresses, code : BOOLEAN, dated : BOOLEAN, named : BOOLEAN] :
        (m.code \/ m.dated) /\ (m.to \in Aliases \/ m.named)}

InUse(kind) == {s \in Signups : signup[s].kind = kind /\ signup[s].pc = "waiting"}

Goes(s, pc) == signup' = [signup EXCEPT ![s].pc = pc]

-----------------------------------------------------------------------------
(* create_mailbox                                                          *)

\* _next_entry under provider_lock: the turn is shared, so that what a call draws
\* depends on the others. One that it has tried costs it an attempt.
Draw(s) ==
    LET n == turn + 1 IN
    /\ signup[s].pc = "drawing" /\ signup[s].draws < Len(entries)
    /\ turn' = n % Len(entries)
    /\ signup' = [signup EXCEPT
                    ![s].draws = @ + 1,
                    ![s].tried = @ \cup {n},
                    ![s].kind = IF n \in signup[s].tried THEN @ ELSE entries[n],
                    ![s].pc = IF n \in signup[s].tried THEN @ ELSE "creating"]
    /\ UNCHANGED <<entries, since, got, mails, aliasFile>>

DrawnAll(s) ==
    /\ signup[s].pc = "drawing" /\ signup[s].draws = Len(entries)
    /\ Goes(s, "failed")
    /\ UNCHANGED <<entries, turn, since, got, mails, aliasFile>>

\* The mailbox is there: only mails from now on count.
Created(s, address) ==
    /\ signup' = [signup EXCEPT ![s].pc = "waiting", ![s].address = address]
    /\ since' = [since EXCEPT ![s] = Len(mails)]
    /\ UNCHANGED <<entries, turn, got, mails>>

Create(s) ==
    /\ signup[s].pc = "creating" /\ signup[s].kind # "shared"
    /\ signup[s].kind \in {"scan", "fixed"} => InUse(signup[s].kind) = {}
    /\ Created(s, IF signup[s].kind = "scan" THEN OutlookBox ELSE s)
    /\ UNCHANGED aliasFile

\* DuckDuckGo: an alias it gave before means its daily limit, and the next provider is
\* drawn. Looking it up and noting it are two sections.
AskAlias(s) ==
    /\ signup[s].pc = "creating" /\ signup[s].kind = "shared"
    /\ \E a \in Aliases :
          signup' = IF a \in aliasFile THEN [signup EXCEPT ![s].pc = "drawing"]
                    ELSE [signup EXCEPT ![s].pc = "noting", ![s].address = a]
    /\ UNCHANGED <<entries, turn, since, got, mails, aliasFile>>

NoteAlias(s) ==
    /\ signup[s].pc = "noting"
    /\ aliasFile' = aliasFile \cup {signup[s].address}
    /\ Created(s, signup[s].address)

\* The alias was noted, but the entry has no cf_inbox_jwt; or noting it raised, and the
\* file is as it was or, half written, loads as empty.
NoteAliasFails(s) ==
    /\ signup[s].pc = "noting"
    /\ aliasFile' \in {aliasFile \cup {signup[s].address}, aliasFile, {}}
    /\ Goes(s, "failed")
    /\ UNCHANGED <<entries, turn, since, got, mails>>

\* Any other error ends the registration.
CreateFails(s) ==
    /\ signup[s].pc = "creating"
    /\ Goes(s, "failed")
    /\ UNCHANGED <<entries, turn, since, got, mails, aliasFile>>

-----------------------------------------------------------------------------
(* wait_for_code                                                           *)

\* The mails the provider lists for a mailbox: the recipient is looked at where
\* several share the inbox, but for tempmail.plus.
OwnInbox(s)   == {i \in DOMAIN mails : mails[i].to = signup[s].address}
FixedInbox(s) ==
    {i \in DOMAIN mails :
        \E t \in Signups : signup[t].kind = "fixed" /\ mails[i].to = signup[t].address}
SharedInbox(s) ==
    {i \in DOMAIN mails :
        /\ \E t \in Signups : signup[t].kind = "shared" /\ mails[i].to = signup[t].address
        /\ mails[i].named => mails[i].to = signup[s].address}
Inbox(s) ==
    CASE signup[s].kind = "fixed"  -> FixedInbox(s)
      [] signup[s].kind = "shared" -> SharedInbox(s)
      [] OTHER                     -> OwnInbox(s)

Newest(inbox, n) == {i \in inbox : Cardinality({j \in inbox : j > i}) < n}

\* What one look may consider: a scan the newest few; the others one, the last in the
\* list or the one of the latest date, among which a mail without a date comes first.
Windows(s) ==
    IF signup[s].kind = "scan" THEN {Newest(Inbox(s), ScanLimit)}
    ELSE {Newest(b, 1) : b \in {Inbox(s), {i \in Inbox(s) : mails[i].dated}}}

\* _message_before_code_boundary, _extract_code: a mail without a date is not before the
\* boundary. The mutant takes any code. What was looked at before and has no code stays
\* without one.
AnyCode(s, w)    == {i \in w : mails[i].code}
FreshCodes(s, w) == {i \in w : (mails[i].dated => i > since[s]) /\ mails[i].code}

Poll(s) ==
    /\ signup[s].pc = "waiting"
    /\ \E w \in Windows(s) :
          IF FreshCodes(s, w) = {}
          THEN UNCHANGED <<got, signup>>
          ELSE /\ got' = [got EXCEPT ![s] = Max(FreshCodes(s, w))]
               /\ Goes(s, "done")
    /\ UNCHANGED <<entries, turn, since, mails, aliasFile>>

\* The deadline, or an error of the provider.
GivesUp(s) ==
    /\ signup[s].pc = "waiting"
    /\ Goes(s, "failed")
    /\ UNCHANGED <<entries, turn, since, got, mails, aliasFile>>

\* A mail to an address that was handed out, also when nobody waits there any more.
MailArrives ==
    /\ Len(mails) < MaxMails
    /\ \E s \in Signups :
          /\ signup[s].address # NoAddress /\ signup[s].pc # "noting"
          /\ \E m \in MailRecords({signup[s].address}) : mails' = Append(mails, m)
    /\ UNCHANGED <<entries, turn, signup, since, got, aliasFile>>

-----------------------------------------------------------------------------
\* Earlier registrations may have moved the turn.
MailInit ==
    /\ entries \in EntryLists
    /\ turn \in 0 .. Len(entries) - 1
    /\ signup = [s \in Signups |-> [pc |-> "drawing", draws |-> 0, tried |-> {},
                                    kind |-> "own", address |-> NoAddress]]
    /\ since = [s \in Signups |-> 0]
    /\ got = [s \in Signups |-> 0]
    /\ mails = <<>> /\ aliasFile = {}

SignupStep(s) ==
    \/ Draw(s) \/ DrawnAll(s) \/ Create(s) \/ AskAlias(s) \/ NoteAlias(s)
    \/ NoteAliasFails(s) \/ CreateFails(s)
    \/ Poll(s) \/ GivesUp(s)

MailNext == MailArrives \/ \E s \in Signups : SignupStep(s)

MailSpec == MailInit /\ [][MailNext]_mailVars

-----------------------------------------------------------------------------
\* A code belongs to the registration that returns it: its mail came after the wait
\* began, also in a mailbox that was used before, if it has a date; it came to its own
\* address, also when others wait at the same inbox for theirs, if a recipient can be read
\* where aliases are forwarded (tempmail.plus alone does not look); and such a code is
\* returned to one registration, but when two were given an alias at once.
CodesAreOwn ==
    \A s \in Signups : got[s] # 0 =>
        LET mail == mails[got[s]] IN
        /\ mail.dated => got[s] > since[s]
        /\ (signup[s].kind # "fixed" /\ mail.named) => mail.to = signup[s].address
        /\ (mail.dated /\ mail.named) =>
               \A t \in Signups \ {s} :
                   got[t] = got[s] =>
                       signup[s].kind = "shared" /\ signup[s].address = signup[t].address
=============================================================================
