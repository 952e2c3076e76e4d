SPECIFICATION MCSpec
CONSTANTS
    Texts = {"display_title"}
    Tags = {"a"}
    MaxRuns = 2
    Eligible <- MCEligible
    MaxTags = 2
    Openers = {"member"}
    Covers = {1}
    MaxVersion = 5
    medium = medium
    disc = disc
    d1 = d1
    d2 = d2
    Media = {medium}
    Locations = {disc}
    MediaOf <- MCMediaOf
    Acceptors = {a1}
    Generators = {g1}
    Admins = {d1, d2}
    MaxSource = 2
    MaxRevision = 2
    Origins = {"youtube", "x"}
INVARIANTS SurfacesAgree ReceiptsAreHonest CompleteMeansGone ImagesAreOfTheirSource
PROPERTIES FamilySeesTheNamedVersion
SYMMETRY Symmetry
CHECK_DEADLOCK FALSE
