---------------------------- MODULE RepoScripts ----------------------------
(***************************************************************************)
(* The scripts of a repository's database: binary_repo_initsql and         *)
(* repo_upgrades of src/libpkg/repo/binary/binary_private.h.  No entry of  *)
(* repo_downgrades applies to a version above REPO_SCHEMA_VERSION, so none *)
(* of them is ever run.                                                    *)
(***************************************************************************)
EXTENDS SqlSchema

REPO_SCHEMA_MAJOR == 2
REPO_SCHEMA_VERSION == 2010

Of(t, cols) == Table(t, {"package_id"} \cup cols, {"packages"})
Link(t, cols, u) == Table(t, {"package_id"} \cup cols, {"packages", u})
NameTable(t) == Table(t, {"id", "name"}, {})

RepoPackages(cols) ==
    Table("packages", {"id", "origin", "name", "version", "comment", "desc", "osversion",
        "arch", "maintainer", "www", "prefix", "pkgsize", "flatsize", "licenselogic",
        "cksum", "path", "pkg_format_version"} \cup cols, {})

RepoOptions ==
    <<Table("option", {"option_id", "option"}, {}),
      Table("option_desc", {"option_desc_id", "option_desc"}, {}),
      Link("pkg_option", {"option_id", "value"}, "option"),
      Table("pkg_option_desc", {"package_id", "option_id", "option_desc_id"},
            {"packages", "option", "option_desc"}),
      Link("pkg_option_default", {"option_id", "default_value"}, "option")>>
RepoShlibs ==
    <<Link("pkg_shlibs_required", {"shlib_id"}, "shlibs"),
      Link("pkg_shlibs_provided", {"shlib_id"}, "shlibs")>>
RepoAnnotations ==
    <<Table("annotation", {"annotation_id", "annotation"}, {}),
      Link("pkg_annotation", {"tag_id", "value_id"}, "annotation")>>
RepoConflicts ==
    <<Of("pkg_conflicts", {"conflict_id"}), Table("provides", {"id", "provide"}, {}),
      Link("pkg_provides", {"provide_id"}, "provides")>>
RepoSearch == Table("pkg_search", {"id", "name", "origin"}, {})
NocaseIndexes ==
    <<Index("packages_origin", "packages", {"origin"}),
      Index("packages_name", "packages", {"name"})>>
LookupIndexes ==
    <<SoftIndex("packages_uid_nocase", "packages", {"name", "origin"}),
      SoftIndex("packages_version_nocase", "packages", {"name", "version"}),
      SoftIndex("packages_uid", "packages", {"name", "origin"}),
      SoftIndex("packages_version", "packages", {"name", "version"}),
      [UniqueIndex("packages_digest", "packages", {"manifestdigest"}) EXCEPT !.soft = TRUE]>>

(***************************************************************************)
(* binary_repo_initsql.  IF NOT EXISTS makes no difference in a new file.  *)
(***************************************************************************)
initsql ==
    <<<<RepoPackages({"manifestdigest", "olddigest"}),
        Of("deps", {"origin", "name", "version"}),
        NameTable("categories"), Link("pkg_categories", {"category_id"}, "categories"),
        NameTable("licenses"), Link("pkg_licenses", {"license_id"}, "licenses")>>,
      RepoOptions,
      <<NameTable("shlibs")>> \o RepoShlibs, RepoAnnotations, RepoConflicts,
      NocaseIndexes, LookupIndexes, <<RepoSearch>>>>

RepoCreated == [Parts(NoDatabase, initsql, FALSE) EXCEPT !.version = REPO_SCHEMA_VERSION]

RepodataTable == Table("repodata", {"key", "value"}, {})
NewRepo == Script(RepoCreated, <<RepodataTable>>, FALSE)

(***************************************************************************)
(* repo_upgrades: the change that applies to each version.                 *)
(***************************************************************************)
ToProvided ==
    RepoShlibs \o
    <<Copy("pkg_shlibs_required", Same({"package_id", "shlib_id"}), {"pkg_shlibs"}),
      DropTable("pkg_shlibs")>>

ToRepoAbstract ==
    <<Table("abstract", {"abstract_id", "abstract"}, {}),
      Link("pkg_abstract", {"key_id", "value_id"}, "abstract")>>

ToRepoDigest ==
    <<AddColumn("packages", "manifestdigest"),
      SoftIndex("pkg_digest_id", "packages", {"origin", "manifestdigest"})>>

ToRepoAnnotations ==
    RepoAnnotations \o
    <<Copy("annotation", [annotation_id |-> "abstract_id", annotation |-> "abstract"],
           {"abstract"}),
      Copy("pkg_annotation",
           [package_id |-> "package_id", tag_id |-> "key_id", value_id |-> "value_id"],
           {"pkg_abstract"}),
      DropTable("pkg_abstract"), DropTable("abstract")>>

ToRepoOptions ==
    RepoOptions \o
    <<Copy("option", [option |-> "option"], {"options"}),
      Copy("pkg_option", Same({"package_id", "option_id", "value"}), {"options", "option"}),
      DropTable("options")>>

ToRepoSearch ==
    <<RepoSearch, Copy("pkg_search", Same({"id", "name", "origin"}), {"packages"})>>
    \o NocaseIndexes

\* The UPDATE that follows compares with = NULL, which is never true: the new
\* column stays empty.
ToOldDigest == <<AddColumn("packages", "olddigest")>>

repo_upgrades ==
    <<ToProvided, ToRepoAbstract, ToRepoDigest, ToRepoAnnotations, ToRepoOptions,
      RepoConflicts, ToRepoSearch, LookupIndexes, ToOldDigest>>

Found(v) == v \in 2001..2009

Changed(db, v) ==
    LET after == Script(db, repo_upgrades[v - 2000], FALSE)
    IN  IF after.ok THEN [after EXCEPT !.version = v + 1] ELSE Failed(db)

(***************************************************************************)
(* Databases of earlier versions: the one script 2001 starts from, and     *)
(* what the scripts make of it.                                            *)
(***************************************************************************)
Repo2001 ==
    [Script(NoDatabase,
        <<RepoPackages({}), Of("deps", {"origin", "name", "version"}),
          NameTable("categories"), Link("pkg_categories", {"category_id"}, "categories"),
          NameTable("licenses"), Link("pkg_licenses", {"license_id"}, "licenses"),
          Of("options", {"option", "value"}),
          NameTable("shlibs"), Link("pkg_shlibs", {"shlib_id"}, "shlibs"),
          RepodataTable>>, FALSE)
     EXCEPT !.version = 2001]

MadeRepo(v) ==
    Filled(IF v \in 2002..2009
           THEN FoldLeft(LAMBDA d, w : IF d.ok THEN Changed(d, w) ELSE d, Repo2001,
                         [i \in 1..(v - 2001) |-> 2000 + i])
           ELSE [(IF v < 2002 THEN Repo2001 ELSE NewRepo) EXCEPT !.version = v])

=============================================================================
