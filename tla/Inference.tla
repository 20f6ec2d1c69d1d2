----------------------------- MODULE Inference -----------------------------
(***************************************************************************)
(* Who embeds and reranks: the providers a configuration or a retrieval    *)
(* profile names (search/embeddings.py, search/rerankers.py,               *)
(* search/profiles.py), the loopback service that holds the models         *)
(* (service/inference.py), and the probes that say whether they would work.*)
(*                                                                         *)
(* The service answers each request in a thread of its own, and its        *)
(* threads share the provider with the model last loaded.  A vector is     *)
(* known here only by the model that made it.                              *)
(***************************************************************************)
EXTENDS Naturals, Sequences, FiniteSets

CONSTANTS
    Threads,       \* requests the service answers at a time
    Models,        \* models that are asked for: "hash", "bge" and others
    Builtin,       \* for each built-in profile, its settings
    Overrides,     \* for each configured profile, the settings it changes
    Configured,    \* the settings without a profile
    MaxChanges     \* bound: changes of the machine

VARIABLES
    machine,       \* packages installed, a GPU there, the models that can be had
                   \* (their weights, from here or the network), the service's provider
    caches,        \* providers made by the service, with what each loaded
    current,       \* the one requests are given, 0 before the first
    requests,      \* what each thread is at
    answered,      \* history: the last model asked for, and the one that answered
    overlapped,    \* history: requests for two models were in at once
    probed,        \* the last probe and what it said
    changes        \* counts changes of the machine

inferenceVars == <<machine, caches, current, requests, answered, overlapped, probed, changes>>

NoModel == "none"

ASSUME InferenceAssumption ==
    IsFiniteSet(Threads) /\ Threads # {} /\ NoModel \notin Models

NoAnswer == <<NoModel, NoModel>>
NoProfile == "none"
IdleThread == [pc |-> "idle", model |-> NoModel, cache |-> 0, probe |-> NoProfile]
Empty == [name |-> NoModel, model |-> NoModel]

Providers == {"local_hash", "sentence_transformers"}
Down == "down"
NoProbe == [name |-> NoProfile, smoke |-> FALSE, said |-> FALSE, cache |-> 0]

Hash(model) == model = "hash"
Installed == machine.packages = {"sentence_transformers", "torch"}

-----------------------------------------------------------------------------
(* Profiles and providers *)

(* What a configuration says of a profile goes over the built-in one.      *)
Profile(name) ==
    LET base == IF name \in DOMAIN Builtin THEN Builtin[name] ELSE [x \in {} |-> x]
        over == IF name \in DOMAIN Overrides THEN Overrides[name] ELSE [x \in {} |-> x]
        Setting(key, default) ==
            IF key \in DOMAIN over THEN over[key]
            ELSE IF key \in DOMAIN base THEN base[key] ELSE default
    IN  [provider |-> Setting("provider", "local_hash"), model |-> Setting("model", "hash"),
         device |-> Setting("device", "cpu"), target |-> Setting("target", "")]

(* A command takes the name of a profile, or none.                         *)
ProfileNames == DOMAIN Builtin \union DOMAIN Overrides \union {""}

(* A profile takes the place of all that the configuration says.           *)
Settings(name) == IF name = "" THEN Configured ELSE Profile(name)

DeviceThere(s) == s.device = "cuda" => machine.cuda

(* A model is loaded here: with the packages, when the model can be had,   *)
(* on the device asked for.                                                *)
Loads(model, device) ==
    Installed /\ model \in machine.works /\ (device = "cuda" => machine.cuda)

(* Models the service loads, rather than hashing or refusing.              *)
Loadable(model) == ~Hash(model) /\ (machine.server = "local_hash" => model = "bge")

(* The service embeds with its own provider, but loads what only sentence  *)
(* transformers have if that is the hash; the GPU is not asked for there.  *)
Loaded(model) == current > 0 /\ caches[current].name = model

ServerEmbeds(model) ==
    /\ machine.server # Down
    /\ Hash(model) \/ (Loadable(model) /\ (Loaded(model) \/ Loads(model, "cpu")))

(* The provider that settings name can be made, and embeds with the model. *)
Embeds(s) ==
    CASE s.provider = "local_hash" -> Hash(s.model)
      [] s.provider = "sentence_transformers" -> Hash(s.model) \/ Loads(s.model, s.device)
      [] s.provider = "command" -> s.target # "" /\ s.model \in machine.works
      [] s.provider = "http" -> s.target = "service" /\ ServerEmbeds(s.model)
      [] OTHER -> FALSE

-----------------------------------------------------------------------------
(* Probes *)

(* Packages and device of a provider that loads here.                      *)
Ready(s) == Installed /\ DeviceThere(s)

(* Without a smoke test only what is on this machine is looked at.         *)
Available(s, smoke) ==
    /\ CASE s.provider = "local_hash" -> TRUE
         [] s.provider = "sentence_transformers" -> Ready(s)
         [] s.provider \in {"command", "http"} -> s.target # ""
         [] OTHER -> FALSE
    /\ smoke => Embeds(s)

(* A smoke test through the service is a request to it, like any other.    *)
ThroughService(s) ==
    /\ s.provider = "http" /\ s.target = "service"
    /\ machine.server # Down /\ Loadable(s.model)

(* What a probe of this machine said counts until the machine changes.     *)
Outdate == probed' = IF probed.cache = 0 THEN NoProbe ELSE probed

Probe ==
    /\ \E name \in ProfileNames, smoke \in BOOLEAN :
        /\ ~(smoke /\ ThroughService(Settings(name)))
        /\ probed' = [name |-> name, smoke |-> smoke, cache |-> 0,
                      said |-> Available(Settings(name), smoke)]
    /\ UNCHANGED <<machine, caches, current, requests, answered, overlapped, changes>>

(* What the smoke test that a request is, if it is one, says.              *)
Tell(request, said) ==
    probed' = IF request.probe = NoProfile THEN probed
              ELSE [name |-> request.probe, smoke |-> TRUE, said |-> said,
                    cache |-> request.cache]

-----------------------------------------------------------------------------
(* The service *)

Busy(t) == requests[t].pc # "idle"
AtStep(t, pc) == requests[t].pc = pc
Goto(t, pc) == requests' = [requests EXCEPT ![t].pc = pc]

(* A request to embed comes in for a model the hash does not make, of      *)
(* anyone or of a smoke test.  Asked for another model, the service may    *)
(* put it in the place of the one a smoke test had it load.                *)
ReceiveRequest(t) ==
    /\ machine.server # Down /\ ~Busy(t)
    /\ \E model \in Models :
        /\ Loadable(model)
        /\ \E probe \in {NoProfile} \union {name \in ProfileNames :
                ThroughService(Settings(name)) /\ Settings(name).model = model} :
            requests' = [requests EXCEPT ![t] =
                [pc |-> "received", model |-> model, cache |-> 0, probe |-> probe]]
        /\ overlapped' = (overlapped \/ \E u \in Threads : Busy(u) /\ requests[u].model # model)
        /\ probed' = IF probed.cache # 0 /\ Settings(probed.name).model # model
                     THEN NoProbe ELSE probed
    /\ UNCHANGED <<machine, caches, current, answered, changes>>

(* The provider is made by the first request that finds none, or by each   *)
(* of several at once; the request goes to the one made last.              *)
MakeProvider(t) ==
    /\ AtStep(t, "received") /\ current = 0 /\ Goto(t, "making")
    /\ UNCHANGED <<machine, caches, current, answered, overlapped, probed, changes>>

KeepProvider(t) ==
    /\ AtStep(t, "making")
    /\ caches' = Append(caches, Empty) /\ current' = Len(caches) + 1
    /\ Goto(t, "received")
    /\ UNCHANGED <<machine, answered, overlapped, probed, changes>>

Cached_any(cache, model) == cache.name # NoModel

Cached(cache, model) == cache.name = model

CheckCache(t) ==
    /\ AtStep(t, "received") /\ current > 0
    /\ requests' = [requests EXCEPT ![t].cache = current,
            ![t].pc = IF Cached(caches[current], requests[t].model) THEN "use" ELSE "load"]
    /\ UNCHANGED <<machine, caches, current, answered, overlapped, probed, changes>>

(* The model and its name are stored one after the other.                  *)
StoreModel(t) ==
    /\ AtStep(t, "load") /\ Loads(requests[t].model, "cpu")
    /\ caches' = [caches EXCEPT ![requests[t].cache].model = requests[t].model]
    /\ Goto(t, "name")
    /\ UNCHANGED <<machine, current, answered, overlapped, probed, changes>>

StoreName(t) ==
    /\ AtStep(t, "name")
    /\ caches' = [caches EXCEPT ![requests[t].cache].name = requests[t].model]
    /\ Goto(t, "use")
    /\ UNCHANGED <<machine, current, answered, overlapped, probed, changes>>

FailLoad(t) ==
    /\ AtStep(t, "load") /\ ~Loads(requests[t].model, "cpu")
    /\ Tell(requests[t], FALSE)
    /\ requests' = [requests EXCEPT ![t] = IdleThread]
    /\ UNCHANGED <<machine, caches, current, answered, overlapped, changes>>

(* The texts are encoded by the model that is stored by then.              *)
Answer(t) ==
    /\ AtStep(t, "use")
    /\ answered' = <<requests[t].model, caches[requests[t].cache].model>>
    /\ Tell(requests[t], TRUE)
    /\ requests' = [requests EXCEPT ![t] = IdleThread]
    /\ UNCHANGED <<machine, caches, current, overlapped, changes>>

-----------------------------------------------------------------------------
(* The machine *)

Changed == changes < MaxChanges /\ changes' = changes + 1

(* What a running service has loaded it keeps when packages or weights go. *)
ChangePackages ==
    /\ Changed /\ Outdate
    /\ \/ \E p \in {"sentence_transformers", "torch"} :
            machine' = [machine EXCEPT !.packages = IF p \in @ THEN @ \ {p} ELSE @ \union {p}]
       \/ machine' = [machine EXCEPT !.cuda = ~@]
       \/ \E model \in {m \in Models : ~Hash(m)} :
            machine' = [machine EXCEPT !.works = IF model \in @ THEN @ \ {model}
                                                 ELSE @ \union {model}]
    /\ UNCHANGED <<caches, current, requests, answered, overlapped>>

StartService ==
    /\ machine.server = Down /\ Changed /\ Outdate
    /\ \E kind \in Providers :
        /\ machine' = [machine EXCEPT !.server = kind]
        /\ current' = IF kind = "local_hash" THEN 0 ELSE 1
        /\ caches' = IF kind = "local_hash" THEN <<>> ELSE <<Empty>>
    /\ UNCHANGED <<requests, answered, overlapped>>

StopService ==
    /\ machine.server # Down /\ Changed /\ machine' = [machine EXCEPT !.server = Down]
    /\ requests' = [t \in Threads |-> IdleThread] /\ caches' = <<>> /\ current' = 0
    /\ answered' = NoAnswer /\ overlapped' = FALSE /\ probed' = NoProbe

InferenceInit ==
    /\ machine = [packages |-> {"sentence_transformers", "torch"}, cuda |-> FALSE,
                  works |-> Models, server |-> Down]
    /\ caches = <<>> /\ current = 0 /\ requests = [t \in Threads |-> IdleThread]
    /\ answered = NoAnswer /\ overlapped = FALSE /\ changes = 0
    /\ probed = NoProbe

InferenceNext ==
    \/ \E t \in Threads :
        \/ ReceiveRequest(t) \/ MakeProvider(t) \/ KeepProvider(t) \/ CheckCache(t)
        \/ StoreModel(t) \/ StoreName(t) \/ FailLoad(t) \/ Answer(t)
    \/ Probe \/ ChangePackages \/ StartService \/ StopService

InferenceSpec == InferenceInit /\ [][InferenceNext]_inferenceVars

-----------------------------------------------------------------------------
(* Properties *)

InferenceTypeOK ==
    /\ current \in 0..Len(caches) /\ Len(caches) <= Cardinality(Threads)
    /\ \A t \in Threads : requests[t].cache \in 0..Len(caches)
    /\ machine.server = Down => \A t \in Threads : ~Busy(t)

(* A request gets the vectors of the model it asks for, as long as, since  *)
(* the service started, no two requests for different models were in at    *)
(* once; after that the stored name may be of another model than the one   *)
(* stored with it, for every request to come (_load_model).                *)
RightModel == ~overlapped => answered[1] = answered[2]

(* A smoke test through the service that went well speaks of what comes    *)
(* after it, whatever then happens to the packages and the weights: the    *)
(* service goes on embedding with the model, until another is asked for,   *)
(* it stops, or another provider that was being made takes the place of    *)
(* the one that was tried.  And what a probe of this machine found         *)
(* unavailable embeds nothing here but the hash, as long as the machine    *)
(* stays as it is; that it found something available does not mean that    *)
(* the model loads (probe_embedding_provider, probe_inference_server).     *)
ProbeHolds ==
    LET s == Settings(probed.name)
    IN  /\ probed.said /\ probed.cache # 0 /\ probed.cache = current /\ ~overlapped =>
            Embeds(s) /\ Loaded(s.model) /\ caches[current].model = s.model
        /\ probed # NoProbe /\ probed.cache = 0 /\ ~probed.said /\ Embeds(s) => Hash(s.model)

ProvidersStand == RightModel /\ ProbeHolds
=============================================================================
