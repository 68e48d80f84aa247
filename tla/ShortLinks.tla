----------------------------- MODULE ShortLinks -----------------------------
(***************************************************************************)
(* Digital assets and the short links that open them: domain/assets.py,    *)
(* api/short_links.py, and what messages.send puts into a text.            *)
(*                                                                         *)
(* A code is looked up before the asset is inserted, and only the unique   *)
(* constraint stands between two requests that draw the same one.  Other   *)
(* operations are one step.  Of an asset's fields only the url decides     *)
(* anything: valid_from and valid_until are stored and never looked at.    *)
(***************************************************************************)
EXTENDS Naturals, Table

CONSTANTS
    Assets,   \* ids of assets, those not yet created included
    Codes,    \* what may be drawn
    Urls,
    Makers,   \* requests that create an asset at a time
    MaxDraws  \* MAX_SHORT_CODE_ATTEMPTS

AssetRow == [code : Codes, url : Urls, active : BOOLEAN]

ASSUME LinksAssumption ==
    /\ None \notin Assets \cup Codes \cup Urls \cup AssetRow
    /\ MaxDraws \in Nat \ {0}

VARIABLES
    asset,  \* per id, the row
    drawn,  \* per request, the code it has found free, and how many it has tried to insert
    texted  \* history: the links guests were sent, each with its asset

linkVars == <<asset, drawn, texted>>

Draw == [code : Codes \cup {None}, tries : 0 .. MaxDraws]
NoDraw == [code |-> None, tries |-> 0]

Created(a) == asset[a] # None
InUse(k) == \E a \in Assets : Created(a) /\ asset[a].code = k

\* get_by_short_code, and the redirect: what the link opens, None when it is not found.
Opens(k) ==
    IF \E a \in Assets : Created(a) /\ asset[a].active /\ asset[a].code = k
    THEN LET a == CHOOSE x \in Assets : Created(x) /\ asset[x].active /\ asset[x].code = k
         IN  asset[a].url
    ELSE None

----------------------------------------------------------------------------
LinksInit ==
    /\ asset = [a \in Assets |-> None]
    /\ drawn = [m \in Makers |-> NoDraw]
    /\ texted = {}

\* new_short_code: codes are drawn until one is free, of those that have committed.
DrawCode(m, k) ==
    /\ drawn[m].code = None
    /\ ~InUse(k)
    /\ drawn' = [drawn EXCEPT ![m].code = k]
    /\ UNCHANGED <<asset, texted>>

\* create: the INSERT; a code taken since is given up for another, and at last the request.
InsertAsset(m, a, url, active) ==
    /\ drawn[m].code # None /\ ~Created(a)
    /\ ~InUse(drawn[m].code)
    /\ asset' = [asset EXCEPT ![a] = [code |-> drawn[m].code, url |-> url, active |-> active]]
    /\ drawn' = [drawn EXCEPT ![m] = NoDraw]
    /\ UNCHANGED texted

Collide(m) ==
    /\ drawn[m].code # None
    /\ InUse(drawn[m].code)
    /\ drawn' = [drawn EXCEPT ![m] = IF @.tries + 1 = MaxDraws THEN NoDraw
                                     ELSE [code |-> None, tries |-> @.tries + 1]]
    /\ UNCHANGED <<asset, texted>>

\* No code was free in as many draws, or the request fails.
GiveUp(m) ==
    /\ drawn[m] # NoDraw
    /\ drawn' = [drawn EXCEPT ![m] = NoDraw]
    /\ UNCHANGED <<asset, texted>>

\* update
UpdateAsset(a, url, active) ==
    /\ Created(a)
    /\ asset' = [asset EXCEPT ![a].url = url, ![a].active = active]
    /\ UNCHANGED <<drawn, texted>>

\* Slip: the row goes, and its code with it.
DeleteAssetSlip(a) ==
    /\ Created(a)
    /\ asset' = [asset EXCEPT ![a] = None]
    /\ UNCHANGED <<drawn, texted>>

\* delete
DeleteAsset(a) ==
    /\ Created(a)
    /\ asset' = [asset EXCEPT ![a].active = FALSE]
    /\ UNCHANGED <<drawn, texted>>

\* send, with an asset, which need not be active.
TextLink(a) ==
    /\ Created(a)
    /\ texted' = texted \cup {[code |-> asset[a].code, asset |-> a]}
    /\ UNCHANGED <<asset, drawn>>

LinksNext ==
    \/ \E m \in Makers :
        \/ \E k \in Codes : DrawCode(m, k)
        \/ \E a \in Assets, url \in Urls, active \in BOOLEAN : InsertAsset(m, a, url, active)
        \/ Collide(m) \/ GiveUp(m)
    \/ \E a \in Assets :
        \/ \E url \in Urls, active \in BOOLEAN : UpdateAsset(a, url, active)
        \/ DeleteAsset(a) \/ TextLink(a)

LinksSpec == LinksInit /\ [][LinksNext]_linkVars

----------------------------------------------------------------------------
LinksTypeOK ==
    /\ asset \in [Assets -> AssetRow \cup {None}]
    /\ drawn \in [Makers -> Draw]
    /\ texted \subseteq [code : Codes, asset : Assets]

\* A link in a guest's phone opens the asset it was sent for, where that is now, or nothing
\* while the asset is switched off; never another asset, though assets are deleted, brought
\* back and created at once with the same code ("messages already sent still reference the
\* id; the short link stops resolving", assets.py:73).
LinkOpensOne ==
    \A x \in texted :
        Opens(x.code) = IF Created(x.asset) /\ asset[x.asset].active THEN asset[x.asset].url
                        ELSE None
=============================================================================
