----------------------------- MODULE NaverFeed -----------------------------
(***************************************************************************)
(* The shopping feed: GET /api/feed/naver serves a copy that lives for     *)
(* CACHE_TTL_SEC or generates the feed and stores it; POST                 *)
(* /api/admin/feeds/naver/invalidate deletes the copy and generates anew.  *)
(* lib/cache.ts keeps the copy in Redis, where there is one, and else in   *)
(* the memory of the instance; the memory copy it makes when Redis fails   *)
(* is read by nobody while Redis is configured.                            *)
(*                                                                         *)
(* The catalogue is the number of its last change.  Time passes in ticks;  *)
(* a request is shorter than a tick.                                       *)
(***************************************************************************)
EXTENDS Naturals

CONSTANTS
  Hosts,         \* instances
  Redis,         \* the shared place
  Crawls,        \* requests under way at once
  FeedTtl,       \* CACHE_TTL_SEC, in ticks
  MaxChanges,    \* bound: changes of the catalogue
  MaxOutages     \* bound: Redis calls that fail

ASSUME FeedAssumption ==
  /\ Redis \notin Hosts
  /\ FeedTtl \in Nat \ {0}
  /\ MaxChanges \in Nat /\ MaxOutages \in Nat

VARIABLES
  shared,      \* getRedis() answers a client
  catalogue,
  copies,      \* by place: the entry [data, age], alive below FeedTtl
  crawl,       \* by request: its progress
  outages,
  past,        \* history: the catalogue at the last tick, and k ticks before it
  promised     \* history: the catalogue the last invalidation promised

feedVars == <<shared, catalogue, copies, crawl, outages, past, promised>>

NoCopy  == [data |-> 0, age |-> FeedTtl]
NoCrawl == [step |-> "none"]

FeedTypeOK ==
  /\ shared \in BOOLEAN
  /\ catalogue \in 0..MaxChanges
  /\ copies \in [Hosts \cup {Redis} -> [data : 0..MaxChanges, age : 0..FeedTtl]]
  /\ \A r \in Crawls : crawl[r] = NoCrawl \/
       crawl[r] \in [step : {"generate", "store", "served"}, at : Hosts,
                     data : 0..MaxChanges, promises : 0..MaxChanges]
  /\ outages \in 0..MaxOutages
  /\ past \in [0..FeedTtl -> 0..MaxChanges]
  /\ promised \in 0..MaxChanges

FeedInit ==
  /\ shared \in BOOLEAN
  /\ catalogue = 0
  /\ copies = [l \in Hosts \cup {Redis} |-> NoCopy]
  /\ crawl = [r \in Crawls |-> NoCrawl]
  /\ outages = 0
  /\ past = [k \in 0..FeedTtl |-> 0]
  /\ promised = 0

-----------------------------------------------------------------------------
Place(s) == IF shared THEN Redis ELSE s

Alive_Ever(s) == copies[Place(s)] # NoCopy

Alive(s) == copies[Place(s)].age < FeedTtl

ChangeCatalogue ==
  /\ catalogue < MaxChanges
  /\ catalogue' = catalogue + 1
  /\ UNCHANGED <<shared, copies, crawl, outages, past, promised>>

Starting(r, s, step, data, promises) ==
  crawl' = [crawl EXCEPT ![r] =
             [step |-> step, at |-> s, data |-> data, promises |-> promises]]

Hit(r, s) ==
  /\ crawl[r] = NoCrawl
  /\ Alive(s)
  /\ Starting(r, s, "served", copies[Place(s)].data, 0)
  /\ UNCHANGED <<shared, catalogue, copies, outages, past, promised>>

(* fresh=1 skips the lookup.                                               *)
Miss(r, s) ==
  /\ crawl[r] = NoCrawl
  /\ Starting(r, s, "generate", 0, 0)
  /\ UNCHANGED <<shared, catalogue, copies, outages, past, promised>>

Generate(r) ==
  /\ crawl[r].step = "generate"
  /\ crawl' = [crawl EXCEPT ![r].step = "store", ![r].data = catalogue]
  /\ UNCHANGED <<shared, catalogue, copies, outages, past, promised>>

(* An invalidation is over when its own feed is stored; others that        *)
(* generated earlier may store theirs after it.                            *)
Ends(r) ==
  /\ crawl' = [crawl EXCEPT ![r].step = "served"]
  /\ promised' = IF /\ crawl[r].promises > promised
                    /\ \A q \in Crawls \ {r} : crawl[q].step = "store"
                                               => crawl[q].data >= crawl[r].promises
                 THEN crawl[r].promises ELSE promised

Store(r) ==
  /\ crawl[r].step = "store"
  /\ copies' = [copies EXCEPT ![Place(crawl[r].at)] = [data |-> crawl[r].data, age |-> 0]]
  /\ Ends(r)
  /\ UNCHANGED <<shared, catalogue, outages, past>>

(* SET failed: the copy goes where nobody looks.                           *)
StoreFails(r) ==
  /\ crawl[r].step = "store"
  /\ shared /\ outages < MaxOutages
  /\ outages' = outages + 1
  /\ copies' = [copies EXCEPT ![crawl[r].at] = [data |-> crawl[r].data, age |-> 0]]
  /\ crawl' = [crawl EXCEPT ![r].step = "served"]
  /\ UNCHANGED <<shared, catalogue, past, promised>>

(* The administrator's request; DEL may fail without notice.               *)
Dropped(s) == [l \in Hosts \cup {Redis} |->
                IF l = s \/ (shared /\ l = Redis) THEN NoCopy ELSE copies[l]]

Promising == IF shared THEN catalogue ELSE 0

(* The regeneration without force.                                         *)
Invalidate_Unforced(r, s) ==
  /\ crawl[r] = NoCrawl
  /\ IF Alive(s) THEN Starting(r, s, "store", copies[Place(s)].data, Promising)
     ELSE Starting(r, s, "generate", 0, Promising)
  /\ UNCHANGED <<shared, catalogue, copies, outages, past, promised>>

Invalidate(r, s) ==
  /\ crawl[r] = NoCrawl
  /\ copies' = Dropped(s)
  /\ Starting(r, s, "generate", 0, Promising)
  /\ UNCHANGED <<shared, catalogue, outages, past, promised>>

InvalidateFails(r, s) ==
  /\ crawl[r] = NoCrawl
  /\ shared /\ outages < MaxOutages
  /\ outages' = outages + 1
  /\ copies' = [copies EXCEPT ![s] = NoCopy]
  /\ Starting(r, s, "generate", 0, Promising)
  /\ UNCHANGED <<shared, catalogue, past, promised>>

Answer(r) ==
  /\ crawl[r].step = "served"
  /\ crawl' = [crawl EXCEPT ![r] = NoCrawl]
  /\ UNCHANGED <<shared, catalogue, copies, outages, past, promised>>

FeedTick ==
  /\ \A r \in Crawls : crawl[r] = NoCrawl
  /\ copies' = [l \in Hosts \cup {Redis} |->
                  [copies[l] EXCEPT !.age = IF @ = FeedTtl THEN @ ELSE @ + 1]]
  /\ past' = [k \in 0..FeedTtl |-> IF k = 0 THEN catalogue ELSE past[k - 1]]
  /\ UNCHANGED <<shared, catalogue, crawl, outages, promised>>

CrawlStep(r) ==
  \/ \E s \in Hosts : Hit(r, s) \/ Miss(r, s) \/ Invalidate(r, s) \/ InvalidateFails(r, s)
  \/ Generate(r)
  \/ Store(r) \/ StoreFails(r)
  \/ Answer(r)

FeedNext ==
  \/ ChangeCatalogue
  \/ \E r \in Crawls : CrawlStep(r)
  \/ FeedTick

FeedSpec == FeedInit /\ [][FeedNext]_feedVars

-----------------------------------------------------------------------------
(* The feed served is never older than CACHE_TTL_SEC (naver-feed.ts line   *)
(* 213), on whatever instance, with or without Redis and through outages.  *)
FeedFresh ==
  \A r \in Crawls : crawl[r].step = "served" => crawl[r].data >= past[FeedTtl - 1]

(* After an invalidation has stored its feed, and unless another request   *)
(* had generated an older one by then, the crawler finds no older feed in  *)
(* Redis (invalidate/route.ts line 7); a failing DEL changes nothing.      *)
FeedPromise ==
  shared /\ copies[Redis].age < FeedTtl => copies[Redis].data >= promised
=============================================================================
