------------------------------- MODULE Chats -------------------------------
(***************************************************************************)
(* What the bot keeps of a chat while the webhooks handle its updates at   *)
(* once: its row with the language and the state a bare command leaves     *)
(* (chats/chats.go), the language cache in front of it, and the names the  *)
(* log remembers (main.go).                                                *)
(*                                                                         *)
(* One chat: rows and entries of two never meet, but for the lru itself.   *)
(* A handler is a webhook's goroutine, or a notifier's that sends.  Left   *)
(* out: the row's times and count, and what a command looks up.            *)
(***************************************************************************)
EXTENDS Naturals, Sequences

CONSTANTS
    Handlers,    \* the goroutines
    Unlocked,        \* nobody holds langMu
    Langs, NoLang, Uncached,  \* languages, "", and nothing cached
    States, NoState,  \* the states message() tries, in its order, and ""
    MaxUpdates, MaxErrors   \* bounds

ASSUME ChatsConstants ==
    /\ Unlocked \notin Handlers /\ NoLang \notin Langs /\ Uncached \notin Langs \cup {NoLang}
    /\ States \in Seq(STRING) /\ NoState \in STRING /\ \A i \in 1..Len(States) : States[i] # NoState
    /\ MaxUpdates \in Nat /\ MaxErrors \in Nat

\* What an update is: a bare command, a command or button with an argument, a
\* plain text, another command; or no update, a notice to send.
Works == {"bare", "full", "text", "other", "notice"}

VARIABLES
    known, lang, state, lapsed,   \* the row: is there one, lang, state, past stateTTL
    langs, langMu,                \* the cached language, and who holds its mutex
    step, work, says, which, found,   \* each handler: its step, its update's kind and language,
                                  \* the index of the state it is about, the language it read
    updates, errors,
    answers, crossed, disturbed   \* what the properties remember

rowVars == <<known, lang, state, lapsed>>
langVars == <<langs, langMu>>
handlerVars == <<step, work, says, which, found>>
ghostVars == <<answers, crossed, disturbed>>
chatVars == <<rowVars, langVars, handlerVars, updates, errors, ghostVars>>

Prompts == {States[i] : i \in 1..Len(States)}

\* The row, if there is one, is as an earlier process left it.
ChatsInit ==
    /\ known \in BOOLEAN /\ lang \in Langs \cup {NoLang}
    /\ state \in Prompts \cup {NoState} /\ lapsed \in BOOLEAN
    /\ known \/ (lang = NoLang /\ state = NoState)
    /\ lapsed => state # NoState
    /\ langs = Uncached /\ langMu = Unlocked
    /\ step = [h \in Handlers |-> "idle"] /\ work = [h \in Handlers |-> "other"]
    /\ says = [h \in Handlers |-> NoLang] /\ which = [h \in Handlers |-> 0]
    /\ found = [h \in Handlers |-> NoLang]
    /\ updates = 0 /\ errors = 0
    /\ answers = 0 /\ crossed = FALSE /\ disturbed = [h \in Handlers |-> FALSE]

To(h, s) == step' = [step EXCEPT ![h] = s]
Over(h) ==
    /\ To(h, "idle") /\ work' = [work EXCEPT ![h] = "other"]
    /\ which' = [which EXCEPT ![h] = 0]
    /\ disturbed' = [disturbed EXCEPT ![h] = FALSE]
Clear == state' = NoState /\ lapsed' = FALSE
Error == errors < MaxErrors /\ errors' = errors + 1
\* A message under way may meet a state that it did not have to leave cleared.
Disturb == disturbed' = [h \in Handlers |-> step[h] # "idle"]

-----------------------------------------------------------------------------
(* An update comes in and is recorded: message, callback, started.         *)

Receive(h) ==
    /\ step[h] = "idle" /\ updates < MaxUpdates /\ updates' = updates + 1
    /\ \E w \in Works, l \in Langs \cup {NoLang}, i \in 1..Len(States) :
        /\ w \in {"text", "other", "notice"} => i = 1
        /\ w = "notice" => l = NoLang
        /\ work' = [work EXCEPT ![h] = w] /\ says' = [says EXCEPT ![h] = l]
        /\ which' = [which EXCEPT ![h] = i]
        /\ To(h, IF w = "notice" THEN "lookup" ELSE "store")
    /\ UNCHANGED <<rowVars, langVars, found, errors, ghostVars>>

\* Update's upsert.  An error is logged, and the language cached all the same.
Store(h) ==
    /\ step[h] = "store" /\ To(h, IF says[h] = NoLang THEN "log" ELSE "cache")
    /\ \/ /\ known' = TRUE /\ lang' = IF says[h] = NoLang THEN lang ELSE says[h]
          /\ crossed' = (crossed \/ (says[h] # NoLang /\ \E g \in Handlers \ {h} : step[g] = "cache"))
          /\ UNCHANGED errors
       \/ /\ Error /\ crossed' = (crossed \/ says[h] # NoLang)
          /\ UNCHANGED <<known, lang>>
    /\ UNCHANGED <<state, lapsed, langVars, work, says, which, found, updates, answers, disturbed>>

Cache(h) ==
    /\ step[h] = "cache" /\ langMu = Unlocked /\ To(h, "log")
    /\ langs' = says[h] /\ says' = [says EXCEPT ![h] = NoLang]
    /\ UNCHANGED <<rowVars, langMu, work, which, found, updates, errors, ghostVars>>

\* logMessage: chatNames.Put, begun and done.
Log(h) ==
    /\ \/ step[h] = "log" /\ To(h, "logging")
       \/ step[h] = "logging" /\ To(h, CASE work[h] = "bare" -> "set"
                                         [] work[h] = "other" -> "lookup"
                                         [] OTHER -> "take")
    /\ UNCHANGED <<rowVars, langVars, work, says, which, found, updates, errors, ghostVars>>

-----------------------------------------------------------------------------
(* The state of a chat.                                                    *)

\* A bare command.
SetState(h) ==
    /\ step[h] = "set" /\ To(h, "lookup")
    /\ \/ /\ IF known THEN state' = States[which[h]] /\ lapsed' = FALSE ELSE UNCHANGED <<state, lapsed>>
          /\ answers' = 0 /\ UNCHANGED errors
       \/ Error /\ UNCHANGED <<state, lapsed, answers>>
    /\ Disturb
    /\ UNCHANGED <<known, lang, langVars, work, says, which, found, updates, crossed>>

\* Mutant: the last state is left out.
UntakenEarly(h) ==
    \/ work[h] # "text" /\ To(h, "lookup") /\ UNCHANGED <<work, which, disturbed>>
    \/ /\ work[h] = "text" /\ which[h] < Len(States) - 1
       /\ To(h, "take") /\ which' = [which EXCEPT ![h] = @ + 1] /\ UNCHANGED <<work, disturbed>>
    \/ work[h] = "text" /\ which[h] >= Len(States) - 1 /\ Over(h)

\* A message that is no answer tries the next state, or ends; a command has
\* taken its own state away and goes on.
Untaken(h) ==
    \/ work[h] # "text" /\ To(h, "lookup") /\ UNCHANGED <<work, which, disturbed>>
    \/ /\ work[h] = "text" /\ which[h] < Len(States)
       /\ To(h, "take") /\ which' = [which EXCEPT ![h] = @ + 1] /\ UNCHANGED <<work, disturbed>>
    \/ work[h] = "text" /\ which[h] = Len(States) /\ Over(h)

\* Mutant: a taken state is left set.
TakeAndLeave(h) ==
    /\ step[h] = "take"
    /\ IF state = States[which[h]] /\ ~lapsed
       THEN /\ IF work[h] = "text"
               THEN answers' = answers + 1 /\ work' = [work EXCEPT ![h] = "full"] /\ UNCHANGED step
               ELSE To(h, "lookup") /\ UNCHANGED <<answers, work>>
       ELSE To(h, "drop") /\ UNCHANGED <<answers, work>>
    /\ UNCHANGED <<rowVars, langVars, says, which, found, updates, errors, crossed, disturbed>>

\* Take's first statement.  A text that takes the state is handled as the
\* command's argument, which takes it away once more.
Take(h) ==
    /\ step[h] = "take"
    /\ \/ /\ state = States[which[h]] /\ ~lapsed
          /\ Clear
          /\ IF work[h] = "text"
             THEN answers' = answers + 1 /\ work' = [work EXCEPT ![h] = "full"] /\ UNCHANGED step
             ELSE To(h, "lookup") /\ UNCHANGED <<answers, work>>
          /\ UNCHANGED <<which, errors, disturbed>>
       \/ /\ ~(state = States[which[h]] /\ ~lapsed)
          /\ To(h, "drop") /\ UNCHANGED <<state, lapsed, answers, work, which, errors, disturbed>>
       \/ Error /\ Untaken(h) /\ UNCHANGED <<state, lapsed, answers>>
    /\ UNCHANGED <<known, lang, langVars, says, found, updates, crossed>>

\* Its second: a state that has lapsed goes too.
DropLapsed(h) ==
    /\ step[h] = "drop" /\ Untaken(h)
    /\ \/ state = States[which[h]] /\ lapsed /\ Clear /\ UNCHANGED errors
       \/ ~(state = States[which[h]] /\ lapsed) /\ UNCHANGED <<state, lapsed, errors>>
       \/ Error /\ UNCHANGED <<state, lapsed>>
    /\ UNCHANGED <<known, lang, langVars, says, found, updates, answers, crossed>>

\* stateTTL passes.  Take's two statements compare with one cutoff.
Lapse ==
    /\ state # NoState /\ ~lapsed /\ lapsed' = TRUE
    /\ \A h \in Handlers : step[h] # "drop"
    /\ UNCHANGED <<known, lang, state, langVars, handlerVars, updates, errors, ghostVars>>

-----------------------------------------------------------------------------
(* The reply: Language, holding langMu over a miss's query, then the send  *)
(* and chatNames.Get.                                                      *)

\* Mutant: the mutex is released for the query.
LookupUnlocked(h) ==
    /\ step[h] = "lookup" /\ langMu = Unlocked
    /\ IF langs = Uncached /\ known
       THEN To(h, "fill") /\ found' = [found EXCEPT ![h] = lang]
       ELSE To(h, "send") /\ UNCHANGED found
    /\ UNCHANGED <<rowVars, langVars, work, says, which, updates, errors, ghostVars>>

Lookup(h) ==
    /\ step[h] = "lookup" /\ langMu = Unlocked
    /\ \/ langs = Uncached /\ known /\ To(h, "fill")
          /\ langMu' = h /\ found' = [found EXCEPT ![h] = lang] /\ UNCHANGED errors
       \/ ~(langs = Uncached /\ known) /\ To(h, "send") /\ UNCHANGED <<langMu, found, errors>>
       \/ langs = Uncached /\ Error /\ To(h, "send") /\ UNCHANGED <<langMu, found>>
    /\ UNCHANGED <<rowVars, langs, work, says, which, updates, ghostVars>>

Fill(h) ==
    /\ step[h] = "fill" /\ To(h, "send")
    /\ langs' = found[h] /\ langMu' = Unlocked
    /\ found' = [found EXCEPT ![h] = NoLang]
    /\ UNCHANGED <<rowVars, work, says, which, updates, errors, ghostVars>>

\* Another chat's entry evicts this one's.
Evict ==
    /\ langMu = Unlocked /\ langs # Uncached /\ langs' = Uncached
    /\ UNCHANGED <<rowVars, langMu, handlerVars, updates, errors, ghostVars>>

\* A message that is sent is logged under the name the chat has, one that is
\* refused is not.
SendReply(h) ==
    /\ \/ step[h] = "send" /\ To(h, "telling") /\ UNCHANGED <<work, which, disturbed>>
       \/ step[h] \in {"send", "telling"} /\ Over(h)
    /\ UNCHANGED <<rowVars, langVars, says, found, updates, errors, answers, crossed>>

ChatsNext ==
    \/ \E h \in Handlers : \/ Receive(h) \/ Store(h) \/ Cache(h) \/ Log(h)
                           \/ SetState(h) \/ Take(h) \/ DropLapsed(h)
                           \/ Lookup(h) \/ Fill(h) \/ SendReply(h)
    \/ Lapse \/ Evict

ChatsSpec == ChatsInit /\ [][ChatsNext]_chatVars

-----------------------------------------------------------------------------
(* Properties.                                                             *)

ChatsTypes ==
    /\ known \in BOOLEAN /\ lang \in Langs \cup {NoLang}
    /\ state \in Prompts \cup {NoState} /\ lapsed \in BOOLEAN
    /\ langs \in Langs \cup {NoLang, Uncached} /\ langMu \in Handlers \cup {Unlocked}
    /\ step \in [Handlers -> {"idle", "store", "cache", "log", "logging", "set", "take", "drop",
                              "lookup", "fill", "send", "telling"}]
    /\ work \in [Handlers -> Works] /\ says \in [Handlers -> Langs \cup {NoLang}]
    /\ which \in [Handlers -> 0..Len(States)] /\ found \in [Handlers -> Langs \cup {NoLang}]
    /\ updates \in Nat /\ errors \in Nat /\ answers \in Nat
    /\ crossed \in BOOLEAN /\ disturbed \in [Handlers -> BOOLEAN]

\* A bare command is answered by one message, though two may be handled at once
\* ("what stops two updates handled at once both taking it").
AnsweredOnce == answers <= 1

\* The cached language is the row's, but while an update has stored its language
\* and not cached it.  crossed: an update did so while another's was still to be
\* cached, or could not store it.
LangAgrees ==
    (\A h \in Handlers : step[h] # "cache") /\ ~crossed => langs \in {lang, Uncached}

\* A message leaves no state behind, fresh or lapsed, unless a command set one
\* meanwhile or the database failed: nothing it was not the answer to lingers
\* for the next.
TextLeavesNothing ==
    [][\A h \in Handlers :
        step[h] = "drop" /\ step'[h] = "idle" /\ ~disturbed[h] /\ errors' = 0
            => state' = NoState]_chatVars
=============================================================================
