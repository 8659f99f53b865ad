--------------------------- MODULE ResourceCaches ---------------------------
(***************************************************************************)
(* The two package-level resource caches that documents of one process     *)
(* share: the image cache (document/image_cache.go, sharedImageFileCache)  *)
(* and the cache of parsed font files (document/font_cache.go).  Both key  *)
(* an entry by the path, the size and modification time the file had when  *)
(* it was examined, and the options it is parsed with.  A call examines    *)
(* the file, looks the key up, and on a miss reads the file, parses it and *)
(* stores what it parsed; every lock is released between these steps, and  *)
(* the file may be replaced between them.                                  *)
(*                                                                         *)
(* The image cache also publishes each image under a name, in a step of    *)
(* its own, and copies into the keyed entries what is then published under *)
(* that name.                                                              *)
(*                                                                         *)
(* A font call looks at less than that: a FontCache, which documents may   *)
(* share, answers by name before any file is examined, and a document      *)
(* examines a font file once and keeps the size and time it found.         *)
(*                                                                         *)
(* A file is its version: versions grow with every replacement and stand   *)
(* for contents, size and modification time together, so no two versions   *)
(* of a file are taken for each other.                                     *)
(***************************************************************************)
EXTENDS Integers, Sequences, FiniteSets, FiniteSetsExt, Functions

CONSTANTS
  Documents,   \* documents planned concurrently, each making one call at a time
  Images,      \* image files, registered by path
  Resources,   \* images a resource loader opens; published by name, keyed by id
  Fonts,       \* font files
  Options,     \* image type and resolution wish, or the name (fontKey) of a font
  MaxVersion,  \* bound: a file is replaced until it has this version
  Size,        \* bytes an entry parsed from a version of a file takes
  MaxBytes,    \* maxSharedImageFileCacheBytes, maxSharedUTF8FontFileCacheBytes
  Nothing      \* no image: an error, or a call that has none yet

Paths == Images \cup Resources \cup Fonts
Versions == 1..MaxVersion

ASSUME CachesAssumption ==
  /\ MaxVersion \in Nat \ {0} /\ MaxBytes \in Nat \ {0}
  /\ Size \in [Versions -> Nat]
  /\ Images \cap Resources = {} /\ Images \cap Fonts = {} /\ Resources \cap Fonts = {}

(* What an entry was made from: imageFileCacheKey and sharedUTF8FontFile-  *)
(* CacheKey on the key's side, the parsed contents on the entry's side.    *)
Parsed == [path: Paths, version: Versions, options: Options]
Key == Parsed
Wish == [path: Fonts, options: Options]  \* a font whose file is still to be examined

VARIABLES
  disk,       \* version of every file
  published,  \* c.images: the image last stored under each name
  images,     \* c.fileImages, c.fileImageOrder, c.fileImageBytes
  fonts,      \* sharedUTF8FontFileCache: fonts, order, bytes
  named,      \* FontCache.fonts: the font last put under each name, and the key
              \* it was looked up with, which only the properties use
  sharing,    \* documents created WithFontCache, all with the same one
  registered, \* names of the fonts each document has in its resource store
  examined,   \* f.utf8FontPathCache: the version each document found of a font file
  request     \* where the call of each document is

fontVars == <<named, sharing, registered, examined>>
cacheVars == <<disk, published, images, fonts, named, sharing, registered, examined, request>>

\* A map after an assignment to one of its keys.
Put(map, k, v) == [x \in DOMAIN map \cup {k} |-> IF x = k THEN v ELSE map[x]]

Empty == [x \in {} |-> Nothing]
EmptyCache == [entries |-> Empty, order |-> <<>>, bytes |-> 0]
NoRequest == [step |-> "idle", key |-> Nothing, image |-> Nothing]

CachesInit ==
  /\ disk = [p \in Paths |-> 1]
  /\ published = Empty
  /\ images = EmptyCache /\ fonts = EmptyCache /\ named = Empty /\ sharing = {}
  /\ registered = [c \in Documents |-> {}] /\ examined = [c \in Documents |-> Empty]
  /\ request = [c \in Documents |-> NoRequest]

-----------------------------------------------------------------------------
(* storeFileImageLocked and storeSharedUTF8FontFile: replace or append the *)
(* entry, then drop the oldest keys until the bytes fit.                   *)

Cost(entry) == Size[entry.version]

Fits(entry) == Cost(entry) <= MaxBytes

\* Keys among the first n of the order that still have an entry.
Oldest(entries, order, n) == {order[i] : i \in 1..n} \cap DOMAIN entries

\* Bytes that the entries of these keys take.
BytesOf(entries, keys) == MapThenSumSet(LAMBDA k : Cost(entries[k]), keys)

Freed(entries, order, n) == BytesOf(entries, Oldest(entries, order, n))

Added(cache, key, entry) ==
  LET held == key \in DOMAIN cache.entries
  IN [entries |-> Put(cache.entries, key, entry),
      order   |-> IF held THEN cache.order ELSE Append(cache.order, key),
      bytes   |-> cache.bytes + Cost(entry) - (IF held THEN Cost(cache.entries[key]) ELSE 0)]

\* The shortest run of the oldest keys without which the bytes fit is dropped.
Trimmed(cache) ==
  LET left(k) == cache.bytes - Freed(cache.entries, cache.order, k)
      n == CHOOSE k \in 0..Len(cache.order) :
             /\ k = Len(cache.order) \/ left(k) <= MaxBytes
             /\ \A j \in 0..(k - 1) : left(j) > MaxBytes
      oldest == Oldest(cache.entries, cache.order, n)
  IN [entries |-> Restrict(cache.entries, DOMAIN cache.entries \ oldest),
      order   |-> SubSeq(cache.order, n + 1, Len(cache.order)),
      bytes   |-> left(n)]

(* Mutant: a replaced entry keeps its bytes in the count.                  *)
StoredBeside(cache, key, entry) ==
  Trimmed([Added(cache, key, entry) EXCEPT !.bytes = cache.bytes + Cost(entry)])

Stored(cache, key, entry) == Trimmed(Added(cache, key, entry))

\* Names whose published image an eviction removes: those equal to the
\* evicted key's path, which a resource's name never is.
Dropped(before, key, after) ==
  {k.path : k \in (DOMAIN before.entries \cup {key}) \ DOMAIN after.entries} \ Resources

\* c.images and the keyed entries after storeFileImageLocked(key, name, image).
StoreImageIn(names, key, image) ==
  IF ~Fits(image)
    THEN /\ published' = Restrict(names, DOMAIN names \ {key.path})
         /\ UNCHANGED images
    ELSE /\ images' = Stored(images, key, image)
         /\ published' = Restrict(names, DOMAIN names \ Dropped(images, key, images'))

-----------------------------------------------------------------------------
At(c, step) == request[c].step = step
Path(c) == request[c].key.path
Advance(c, step, image) ==
  request' = [request EXCEPT ![c] = [@ EXCEPT !.step = step, !.image = image]]

Start(c, step, key, image) ==
  request' = [request EXCEPT ![c] = [step |-> step, key |-> key, image |-> image]]

(* A call for an image starts by examining its file (os.Stat; for a        *)
(* resource, the loader opens it and says its size and time), which fixes  *)
(* its key.  An image that the document has already is answered without a  *)
(* call.                                                                   *)
Examine(c, p, o) ==
  /\ At(c, "idle") /\ p \notin Fonts
  /\ Start(c, "lookup", [path |-> p, version |-> disk[p], options |-> o], Nothing)
  /\ UNCHANGED <<disk, published, images, fonts, fontVars>>

(* A call for a font the document does not have yet starts in its          *)
(* FontCache: a font found by name is the answer, as it was put there.     *)
(* AddUTF8FontFromCache names the FontCache and looks nowhere else.        *)
FindNamed(c, o) ==
  /\ At(c, "idle") /\ o \notin registered[c] /\ o \in DOMAIN named
  /\ Start(c, "done", named[o].key, named[o].image)
  /\ UNCHANGED <<disk, published, images, fonts, fontVars>>

MissNamed(c, p, o) ==
  /\ At(c, "idle") /\ o \notin registered[c] /\ ~(c \in sharing /\ o \in DOMAIN named)
  /\ Start(c, "missed", [path |-> p, options |-> o], Nothing)
  /\ UNCHANGED <<disk, published, images, fonts, fontVars>>

\* resolveUTF8FontPath: what the document found of the file before, even if
\* it has been replaced since, and only the first time what it is now.
ExamineFont(c) ==
  LET p == Path(c)
      version == IF p \in DOMAIN examined[c] THEN examined[c][p] ELSE disk[p]
  IN /\ At(c, "missed")
     /\ examined' = [examined EXCEPT ![c] = Put(@, p, version)]
     /\ Start(c, "lookup",
              [path |-> p, version |-> version, options |-> request[c].key.options], Nothing)
     /\ UNCHANGED <<disk, published, images, fonts, named, sharing, registered>>

(* The lookup under the read lock.  What is found is still to be put in    *)
(* the FontCache, or published under its name, under a lock of its own.    *)
Find(c) ==
  LET cache == IF Path(c) \in Fonts THEN fonts ELSE images
      key   == request[c].key
  IN /\ At(c, "lookup")
     /\ IF key \in DOMAIN cache.entries
          THEN Advance(c, IF Path(c) \in Fonts THEN "keyed" ELSE "found", cache.entries[key])
          ELSE Advance(c, "read", Nothing)
     /\ UNCHANGED <<disk, published, images, fonts, fontVars>>

PublishFound(c) ==
  /\ At(c, "found")
  /\ published' = Put(published, Path(c), request[c].image)
  /\ Advance(c, "done", request[c].image)
  /\ UNCHANGED <<disk, images, fonts, fontVars>>

(* On a miss the file is read and parsed with no lock held.  A file is     *)
(* opened again after it was examined and may have been replaced since; a  *)
(* resource is read from the reader it was examined with.  Either may fail.*)
Read(c) ==
  /\ At(c, "read")
  /\ \/ Advance(c, "parsed",
          IF Path(c) \in Resources THEN request[c].key
                                   ELSE [request[c].key EXCEPT !.version = disk[Path(c)]])
     \/ Advance(c, "done", Nothing)
  /\ UNCHANGED <<disk, published, images, fonts, fontVars>>

\* RegisterImageOptionsReader: the parsed image is published and answered.
PublishParsed(c) ==
  /\ At(c, "parsed") /\ Path(c) \in Images
  /\ published' = Put(published, Path(c), request[c].image)
  /\ Advance(c, "published", request[c].image)
  /\ UNCHANGED <<disk, images, fonts, fontVars>>

\* registerImageOptions: under a second lock, what is now published under
\* the name, if anything, is stored under this call's key.
StorePublished(c) ==
  /\ At(c, "published")
  /\ IF Path(c) \in DOMAIN published
       THEN StoreImageIn(published, request[c].key, published[Path(c)])
       ELSE UNCHANGED <<published, images>>
  /\ Advance(c, "done", request[c].image)
  /\ UNCHANGED <<disk, fonts, fontVars>>

\* storeResourceImage: published and stored under one lock.  The entry is
\* keyed by the resource's id, so an eviction leaves its name published.
StoreResource(c) ==
  /\ At(c, "parsed") /\ Path(c) \in Resources
  /\ StoreImageIn(Put(published, Path(c), request[c].image), request[c].key, request[c].image)
  /\ Advance(c, "done", request[c].image)
  /\ UNCHANGED <<disk, fonts, fontVars>>

(* Mutant: the file is examined again for the key it is stored under.      *)
StoreFontReexamined(c) ==
  /\ At(c, "parsed") /\ Path(c) \in Fonts
  /\ fonts' = IF Fits(request[c].image)
                THEN Stored(fonts, [request[c].key EXCEPT !.version = disk[Path(c)]], request[c].image)
                ELSE fonts
  /\ Advance(c, "keyed", request[c].image)
  /\ UNCHANGED <<disk, published, images, fontVars>>

StoreFont(c) ==
  /\ At(c, "parsed") /\ Path(c) \in Fonts
  /\ fonts' = IF Fits(request[c].image) THEN Stored(fonts, request[c].key, request[c].image) ELSE fonts
  /\ Advance(c, "keyed", request[c].image)
  /\ UNCHANGED <<disk, published, images, fontVars>>

\* The FontCache after a call has put its font there, over whatever another
\* call has put under that name since this one looked.
NamedAfter(c) ==
  Put(named, request[c].key.options, [key |-> request[c].key, image |-> request[c].image])

PutNamed(c) ==
  /\ At(c, "keyed")
  /\ named' = IF c \in sharing THEN NamedAfter(c) ELSE named
  /\ Advance(c, "done", request[c].image)
  /\ UNCHANGED <<disk, published, images, fonts, sharing, registered, examined>>

\* FontCache.AddUTF8Font: a program reads a file and puts the font itself.
Load(c, p, o) ==
  /\ At(c, "idle") /\ p \in Fonts
  /\ LET font == [path |-> p, version |-> disk[p], options |-> o] IN Start(c, "loaded", font, font)
  /\ UNCHANGED <<disk, published, images, fonts, fontVars>>

PutLoaded(c) ==
  /\ At(c, "loaded")
  /\ named' = NamedAfter(c)
  /\ request' = [request EXCEPT ![c] = NoRequest]
  /\ UNCHANGED <<disk, published, images, fonts, sharing, registered, examined>>

\* A font that is answered is then the document's own.
Answer(c) ==
  /\ At(c, "done")
  /\ registered' = IF Path(c) \in Fonts /\ request[c].image # Nothing
                      THEN [registered EXCEPT ![c] = @ \cup {request[c].key.options}]
                      ELSE registered
  /\ request' = [request EXCEPT ![c] = NoRequest]
  /\ UNCHANGED <<disk, published, images, fonts, named, sharing, examined>>

\* SetFontLocation forgets what was found of font files; the next document
\* starts without fonts as well, and with the FontCache or without one.
SetFontLocation(c) ==
  /\ At(c, "idle")
  /\ examined' = [examined EXCEPT ![c] = Empty]
  /\ UNCHANGED <<disk, published, images, fonts, named, sharing, registered, request>>

NewDocument(c) ==
  /\ At(c, "idle")
  /\ examined' = [examined EXCEPT ![c] = Empty] /\ registered' = [registered EXCEPT ![c] = {}]
  /\ sharing' \in {sharing \cup {c}, sharing \ {c}}
  /\ UNCHANGED <<disk, published, images, fonts, named, request>>

\* ImageCache.Clear, the font half of ClearSharedCaches, FontCache.Clear.
ClearImages ==
  /\ published' = Empty /\ images' = EmptyCache
  /\ UNCHANGED <<disk, fonts, fontVars, request>>

ClearFonts ==
  /\ fonts' = EmptyCache
  /\ UNCHANGED <<disk, published, images, fontVars, request>>

ClearNamed ==
  /\ named' = Empty
  /\ UNCHANGED <<disk, published, images, fonts, sharing, registered, examined, request>>

\* Another program replaces a file.
Replace(p) ==
  /\ disk[p] < MaxVersion
  /\ disk' = [disk EXCEPT ![p] = @ + 1]
  /\ UNCHANGED <<published, images, fonts, fontVars, request>>

CachesNext ==
  \/ \E c \in Documents :
       \/ \E p \in Paths, o \in Options : Examine(c, p, o)
       \/ \E o \in Options : FindNamed(c, o)
       \/ \E p \in Fonts, o \in Options : MissNamed(c, p, o) \/ Load(c, p, o)
       \/ ExamineFont(c) \/ Find(c) \/ PublishFound(c) \/ Read(c) \/ PublishParsed(c)
       \/ StorePublished(c) \/ StoreResource(c) \/ StoreFont(c)
       \/ PutNamed(c) \/ PutLoaded(c) \/ Answer(c)
       \/ SetFontLocation(c) \/ NewDocument(c)
  \/ ClearImages \/ ClearFonts \/ ClearNamed
  \/ \E p \in Paths : Replace(p)

CachesSpec == CachesInit /\ [][CachesNext]_cacheVars

-----------------------------------------------------------------------------
Steps == {"idle", "missed", "lookup", "found", "read", "parsed", "published", "keyed",
          "loaded", "done"}

(* The files, the names, the caches, the documents and the calls have      *)
(* their types.                                                            *)
CachesTyped ==
  /\ disk \in [Paths -> Versions]
  /\ DOMAIN published \subseteq Images \cup Resources
  /\ \A n \in DOMAIN published : published[n] \in Parsed
  /\ \A cache \in {images, fonts} :
       /\ DOMAIN cache.entries \subseteq Key
       /\ \A k \in DOMAIN cache.entries : cache.entries[k] \in Parsed
       /\ cache.order \in Seq(Key) /\ cache.bytes \in Int
  /\ DOMAIN named \subseteq Options
  /\ \A o \in DOMAIN named : named[o] \in [key: Key, image: Parsed]
  /\ sharing \subseteq Documents /\ registered \in [Documents -> SUBSET Options]
  /\ \A c \in Documents :
       /\ DOMAIN examined[c] \subseteq Fonts
       /\ \A p \in DOMAIN examined[c] : examined[c][p] \in Versions
       /\ request[c].step \in Steps
       /\ request[c].key \in Key \cup Wish \cup {Nothing}
       /\ request[c].image \in Parsed \cup {Nothing}

(* The eviction of storeFileImageLocked and storeSharedUTF8FontFile works  *)
(* on a running byte count and a queue of keys kept beside the entries.    *)
(* Through replaced entries, oversized entries, evictions and clearing,    *)
(* the queue holds each stored key exactly once, the count is what the     *)
(* entries take, and it stays within the limit.                            *)
Counted(cache) ==
  /\ {cache.order[i] : i \in DOMAIN cache.order} = DOMAIN cache.entries
  /\ IsInjective(cache.order)
  /\ cache.bytes = BytesOf(cache.entries, DOMAIN cache.entries)

Accounted(cache) == Counted(cache) /\ cache.bytes <= MaxBytes

CachesAccounted == CachesTyped /\ Accounted(images) /\ Accounted(fonts)

(* An image or font was parsed from the file its key names, with the       *)
(* options of the key, and from no older version than the key names.       *)
NotOlder(key, image) ==
  /\ image.path = key.path /\ image.options = key.options
  /\ image.version >= key.version

Fresh(c) == At(c, "done") /\ request[c].image # Nothing => NotOlder(request[c].key, request[c].image)

(* However calls, replacements, evictions and clearings interleave, a font *)
(* or loaded resource that is answered is no older than the key it was     *)
(* looked up with, by this call or by the one that put it in the           *)
(* FontCache; and under a name there are only fonts parsed for that name.  *)
(* A key may itself be old: a document examines a font file once, and a    *)
(* FontCache answers without a key.  What the keyed cache must not do is   *)
(* answer a document that saw a newer file with an older one, which        *)
(* another document read before.                                           *)
NoneOlderThanItsKey ==
  /\ \A c \in Documents : At(c, "done") /\ Path(c) \in Fonts \cup Resources => Fresh(c)
  /\ \A o \in DOMAIN named :
       named[o].key.options = o /\ NotOlder(named[o].key, named[o].image)

(* The same of image files, which is not so when two readers of a file     *)
(* overlap, although ImageCache says "Its methods are safe for concurrent  *)
(* use" (document/image_cache.go:19).                                      *)
ImagesFresh ==
  \A c \in Documents : At(c, "done") /\ Path(c) \in Images => Fresh(c)
=============================================================================
