CONSTANTS
    Found <- MCFound
    Foreign <- MCForeign
    Drafts <- MCDrafts
    MaxSets = 2
    MaxForms = 2
    MaxChanges = 1
SPECIFICATION CatalogueSpec
INVARIANT OffersCanBeAdopted
