------------------------------- MODULE PageCache ------------------------------
(***************************************************************************)
(* The full-page cache of one site: the vhost ops/nginx.rs renders decides *)
(* which responses nginx keeps and under which key, the must-use plugin of *)
(* ops/mu_plugin.rs asks nginx to forget pages when WordPress changes, and *)
(* nothing else ties the two together.                                     *)
(*                                                                         *)
(* A page is rendered and stored in two steps, and a purge is a request    *)
(* sent without waiting for its answer: other things happen in between.    *)
(* Of a rendered page only its being out of date is kept.  The age of an   *)
(* entry is not: any entry may be older than its ttl.  A request with the  *)
(* cookie of a session, a POST, a query string or a path WordPress         *)
(* computes sets $skip_cache: it is neither answered from the cache nor    *)
(* kept, and left out.                                                     *)
(*                                                                         *)
(* Modelled is a site with fastcgi_cache on, the default of CacheSettings. *)
(***************************************************************************)
EXTENDS FiniteSets, Naturals

CONSTANTS
    Aliased,       \* pages that are also followed under a key no purge names
    MaxFetching,   \* bound: pages being rendered for the cache at once
    MaxWrites      \* bound: times the vhost is written with or without TLS

ASSUME PageCacheAssumption ==
    /\ Aliased \subseteq {"home", "post", "other"}
    /\ MaxFetching \in Nat
    /\ MaxWrites \in Nat

VARIABLES
    module,        \* nginx has ngx_cache_purge: probed when the agent starts
    tls,           \* the vhost was written with TLS
    cache,         \* [key -> the entry nginx keeps]
    fetching,      \* [key -> the response on its way into the cache]
    purging,       \* pages the plugin has asked to forget, request under way
    deleting,      \* a published post is being deleted, its row still there
    writes,        \* rewrites of the vhost so far
    known          \* observed: <<why, page>> for entries that no purge will reach

site == <<module, tls, writes>>
cacheVars == <<site, cache, fetching, purging, deleting, known>>

(* The front page; a post, with the archives the plugin knows of (its       *)
(* type's, its categories' and tags'); and the pages it does not know of    *)
(* (an author's, a month's, the second page of any).                        *)
Pages == {"home", "post", "other"}

(* fastcgi_cache_key: scheme, method, host and URI.  A purge names one of   *)
(* the keys of a page: http, GET, the host of home_url.  The others are     *)
(* taken together: https, HEAD, and the other domains of the vhost.         *)
Named(p) == <<"named", p>>
Keys     == {Named(p) : p \in Pages} \cup ({"unnamed"} \X Aliased)

(* A response as WordPress would give it now; "edited" when the plugin's    *)
(* comments promise a purge for what has changed since, "changed" when they *)
(* do not.  A term's own pages are "changed" too: the comment promises all  *)
(* their URLs, and EditTerm says why none of them is ever asked for.        *)
Slots   == {"empty", "current", "changed", "edited"}
Nothing == [k \in Keys |-> "empty"]

Causes == {"missed", "overtaken", "early"}

CacheInit ==
    /\ module \in BOOLEAN
    /\ tls \in BOOLEAN
    /\ cache = Nothing
    /\ fetching = Nothing
    /\ purging = {}
    /\ deleting = FALSE
    /\ writes = 0
    /\ known = {}

(* The observer: what is no longer in the cache needs no cause. *)
Note(causes) == known' = {x \in causes : cache'[Named(x[2])] # "empty"}

-----------------------------------------------------------------------------
(* nginx. *)

(* The server block that runs PHP: port 80 of a TLS site only redirects, so *)
(* a purge's key is filled on a site without TLS alone.                     *)
Serves(form) == form = "named" => ~tls

(* A visit that finds no entry, or one too old, is passed to PHP; with      *)
(* fastcgi_cache_lock one at a time fills the entry.  An old entry is       *)
(* answered with meanwhile, and stays until it is replaced.                 *)
Fetch(k) ==
    /\ Serves(k[1])
    /\ fetching[k] = "empty"
    /\ Cardinality({x \in Keys : fetching[x] # "empty"}) < MaxFetching
    /\ fetching' = [fetching EXCEPT ![k] = "current"]
    /\ UNCHANGED <<site, cache, purging, deleting, known>>

(* The page was rendered when it was fetched: a purge may have overtaken    *)
(* it, or it may be in the cache before the row of a deleted post is gone.  *)
LateCauses(k) == {why \in {"overtaken", "early"} :
    /\ k[2] \notin purging
    /\ why = "overtaken" => fetching[k] = "edited"
    /\ why = "early" => deleting}

Store(k) ==
    /\ fetching[k] # "empty"
    /\ cache' = [cache EXCEPT ![k] = fetching[k]]
    /\ fetching' = [fetching EXCEPT ![k] = "empty"]
    /\ known' = IF k[1] = "named"
                THEN {x \in known : x[2] # k[2]} \cup (LateCauses(k) \X {k[2]})
                ELSE known
    /\ UNCHANGED <<site, purging, deleting>>

(* PHP fails, or answers with a status that is not kept. *)
FetchFails(k) ==
    /\ fetching[k] # "empty"
    /\ fetching' = [fetching EXCEPT ![k] = "empty"]
    /\ UNCHANGED <<site, cache, purging, deleting, known>>

(* A purge that reaches the purge location.  The vhost has one when nginx   *)
(* has the module; the request comes over http, and a TLS site redirects it.*)
Purge(p) ==
    /\ p \in purging
    /\ module /\ ~tls
    /\ purging' = purging \ {p}
    /\ cache' = [cache EXCEPT ![Named(p)] = "empty"]
    /\ Note(known)
    /\ UNCHANGED <<site, fetching, deleting>>

(* A purge that reaches something else, or nothing: nobody waits for it.    *)
(* Under docker's default network every one does: the plugin asks 127.0.0.1 *)
(* from inside the site's container, which start_php gives no network of    *)
(* the host's.                                                              *)
PurgeMissed(p) ==
    /\ p \in purging
    /\ purging' = purging \ {p}
    /\ UNCHANGED <<site, cache, fetching, deleting>>
    /\ Note(known \cup {<<"missed", p>>})

-----------------------------------------------------------------------------
(* WordPress and the plugin. *)

Age(slots, promised, changed) == [k \in Keys |->
    IF slots[k] = "empty" THEN "empty"
    ELSE IF k[2] \in promised THEN "edited"
    ELSE IF k[2] \in changed /\ slots[k] = "current" THEN "changed"
    ELSE slots[k]]

(* The pages in promised and in changed show something else; the hook asks  *)
(* for those in asked.                                                      *)
Change(promised, changed, asked) ==
    /\ cache' = Age(cache, promised, changed)
    /\ fetching' = Age(fetching, promised, changed)
    /\ purging' = purging \cup asked
    /\ UNCHANGED <<site, known>>

(* The pages wp_panel_purge_post says it purges. *)
OwnPages == {"home", "post"}

(* Mutant: the front page alone. *)
HomePage == {"home"}
(* The pages it asks for. *)
PostPages == {"home", "post"}

(* save_post of a published post, comment_post, wp_set_comment_status. *)
Edit == Change(OwnPages, Pages, PostPages) /\ UNCHANGED deleting

(* save_post of a post that is no longer published: the plugin returns. *)
Unpublish == Change({}, Pages, {}) /\ UNCHANGED deleting

(* delete_post comes before the row is deleted: the pages are asked for     *)
(* while WordPress still renders the post.                                  *)
BeforeDelete ==
    /\ ~deleting
    /\ deleting' = TRUE
    /\ Change({}, {}, PostPages)

DeleteRow == deleting /\ Change(OwnPages, Pages, {}) /\ deleting' = FALSE

(* A term is created, edited or deleted.  WordPress passes its taxonomy     *)
(* third and the plugin takes two arguments: get_term_link fails, and the   *)
(* front page alone is asked for, against the plugin's own comment.         *)
EditTerm == Change({"home"}, Pages, {"home"}) /\ UNCHANGED deleting

SwitchTheme == Change({"home"}, Pages, {"home"}) /\ UNCHANGED deleting

-----------------------------------------------------------------------------
(* The panel. *)

(* purge, find -delete on the site's cache directory. *)
EmptyCache ==
    /\ cache' = Nothing
    /\ Note({})
    /\ UNCHANGED <<site, fetching, purging, deleting>>

(* write_site and reload, with TLS or without: the cache is left alone, and *)
(* what it keeps under the other scheme is there when that scheme returns.  *)
SwitchTls ==
    /\ writes < MaxWrites
    /\ writes' = writes + 1
    /\ tls' = ~tls
    /\ UNCHANGED <<module, cache, fetching, purging, deleting, known>>

CacheNext ==
    \/ \E k \in Keys : Fetch(k) \/ Store(k) \/ FetchFails(k)
    \/ \E p \in Pages : Purge(p) \/ PurgeMissed(p)
    \/ Edit \/ Unpublish \/ BeforeDelete \/ DeleteRow \/ EditTerm \/ SwitchTheme
    \/ EmptyCache \/ SwitchTls

CacheSpec == CacheInit /\ [][CacheNext]_cacheVars

-----------------------------------------------------------------------------
(* Every variable keeps its type. *)
CacheTypeOK ==
    /\ module \in BOOLEAN /\ tls \in BOOLEAN
    /\ cache \in [Keys -> Slots]
    /\ fetching \in [Keys -> Slots]
    /\ purging \subseteq Pages
    /\ deleting \in BOOLEAN
    /\ writes \in 0..MaxWrites
    /\ known \subseteq Causes \X Pages

(* A purge of the page is under way, or why none will come is known.        *)
Accounted(p) == p \in purging \/ \E why \in Causes : <<why, p>> \in known

(* An entry that has lost what a hook's comment promises to purge is about  *)
(* to be purged, or is under a key no purge names (https, HEAD, another of  *)
(* the site's domains), or one of three things has happened since it was    *)
(* stored or as it was: a purge of the page did not reach the purge         *)
(* location; the page was rendered before the change and stored after the   *)
(* purge; it was stored after the purge of a delete and before the row went.*)
StaleHasCause == \A k \in Keys :
    cache[k] = "edited" => k[1] = "unnamed" \/ Accounted(k[2])

=============================================================================
